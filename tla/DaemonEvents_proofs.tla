-------------------------- MODULE DaemonEvents_proofs --------------------------
(***************************************************************************)
(* The events of the daemon: none is lost, and what can make one stand for *)
(* another connection than it was reported for.                            *)
(*                                                                         *)
(* That what arrived is read holds for any values of the constants; that   *)
(* whoever waits is accepted needs a descriptor to give (EnoughDescriptors *)
(* - one for each connection and one for each thread).  What may close a   *)
(* descriptor under an event, or under a request that nobody read yet, is  *)
(* proved for any values of the constants: frames may be cut as TCP likes. *)
(***************************************************************************)
EXTENDS DaemonConns_proofs

-----------------------------------------------------------------------------
(* No event is lost.                                                       *)

\* What is to be read on fd is about to be reported, is reported, or is waited
\* for by a coroutine.
Seen(fd) == \/ fds[fd] \in edge
            \/ \E e \in batch : e.fd = fd
            \/ Listed(ready, Body(fd))
Readable(fd) == fds[fd] \in Conns /\ sock[fds[fd]].avail > 0

ReadablesSeen == Running => \A fd \in Fds : Readable(fd) => Seen(fd)

LEMMA SeenStays ==
  ASSUME NEW fd \in Fds, Seen(fd), fds'[fd] = fds[fd], fds[fd] \in edge => fds[fd] \in edge',
         \A e \in batch : e.fd = fd => e \in batch',
         Listed(ready, Body(fd)) => Listed(ready', Body(fd))
  PROVE  Seen(fd)'
<1>1. CASE fds[fd] \in edge
  BY <1>1 DEF Seen
<1>2. CASE \E e \in batch : e.fd = fd
  BY <1>2 DEF Seen
<1>3. CASE Listed(ready, Body(fd))
  <2>1. Listed(ready', Body(fd))
    BY <1>3
  <2>2. Listed(ready, Body(fd))' <=> Listed(ready', Body(fd))
    BY DEF Listed, Body
  <2> QED BY <2>1, <2>2 DEF Seen
<1> QED BY <1>1, <1>2, <1>3 DEF Seen

\* When a descriptor is closed the others stay what they are.
LEMMA ClosesOthers ==
  ASSUME ConnTypes, OneDescriptor, NEW g \in Fds, CloseFd(g), NEW fd \in Fds, Readable(fd)'
  PROVE  /\ fd # g /\ fds'[fd] = fds[fd] /\ Readable(fd)
         /\ fds[fd] \in edge => fds[fd] \in edge'
<1>1. /\ fds' = [fds EXCEPT ![g] = "free"] /\ edge' = edge \ {fds[g]}
      /\ \A d \in Conns : sock'[d] = IF d = fds[g] THEN EmptySock ELSE sock[d]
  BY DEF CloseFd
<1>2. fds \in [Fds -> Conns \cup {"free", "std", "tor"}] /\ "free" \notin Conns
  BY ConnsAssumption DEF ConnTypes
<1>3. fds'[fd] \in Conns
  BY DEF Readable
<1>4. fd # g /\ fds'[fd] = fds[fd]
  BY <1>1, <1>2, <1>3
<1>5. fds[fd] # fds[g]
  BY <1>3, <1>4 DEF OneDescriptor
<1>6. sock'[fds[fd]] = sock[fds[fd]]
  BY <1>1, <1>3, <1>4, <1>5
<1> QED BY <1>1, <1>4, <1>5, <1>6 DEF Readable

\* What a coroutine leaves unread on fd it waits for.
LEMMA RecvDoesSees ==
  ASSUME ConnInv, NEW fd \in Fds, fds[fd] \in Conns, NEW skip \in {0, HeadLen},
         NEW rest \in Seq(Routines), RecvDoes(fd, skip, rest), NEW g \in Fds, Readable(g)'
  PROVE  /\ fds'[g] = fds[g] /\ (fds[g] \in edge => fds[g] \in edge')
         /\ g = fd => Listed(ready', Body(fd))
         /\ g # fd => Readable(g)
         /\ \A y : Listed(rest, y) => Listed(ready', y)
<1>0. ConnTypes /\ Places /\ Traffic /\ OneDescriptor
  BY DEF ConnInv, Places
<1>1. Body(fd) \in Routines /\ Relay(fd) \in Routines
  BY DEF Routines
<1>2. \A x \in Routines : \A y : Listed(Append(rest, x), y) <=> Listed(rest, y) \/ y = x
  BY ListedAppend
<1>3. ASSUME Closes(fd), ready' = rest
      PROVE  /\ g # fd /\ fds'[g] = fds[g] /\ Readable(g) /\ (fds[g] \in edge => fds[g] \in edge')
             /\ \A y : Listed(rest, y) => Listed(ready', y)
  BY <1>0, <1>3, ClosesOthers DEF Closes
<1> DEFINE c == fds[fd]
<1>4. Accepted(c)
  BY DEF Accepted
<1>5. ASSUME g # fd, fds' = fds, \A d \in Conns : d # c => sock'[d] = sock[d]
      PROVE  Readable(g)
  <2>1. fds[g] \in Conns /\ sock'[fds[g]].avail > 0
    BY <1>5 DEF Readable
  <2>2. fds[g] # c
    BY <1>0, <1>5, <2>1 DEF OneDescriptor
  <2> QED BY <1>5, <2>1, <2>2 DEF Readable
<1>6. ASSUME NEW n \in Nat, skip + n <= sock[c].avail, Takes(c, skip + n),
             ready' = Append(rest, Body(fd))
      PROVE  /\ UNCHANGED <<fds, edge>>
             /\ \A d \in Conns : d # c => sock'[d] = sock[d]
             /\ Listed(ready', Body(fd)) /\ \A y : Listed(rest, y) => Listed(ready', y)
  <2>1. skip + n \in Nat
    BY DEF HeadLen
  <2>2. \A d \in Conns : d # c => sock'[d] = sock[d]
    BY <1>0, <1>4, <1>6, <2>1, TakesTaken DEF Still
  <2>3. UNCHANGED <<fds, edge>>
    BY <1>6 DEF Takes
  <2> QED BY <1>1, <1>2, <1>6, <2>2, <2>3
<1>7. ASSUME Serves(c, skip + BodyLen), ready' = rest \/ ready' = Append(rest, Relay(fd))
      PROVE  /\ UNCHANGED <<fds, edge>> /\ g # fd
             /\ \A d \in Conns : d # c => sock'[d] = sock[d]
             /\ \A y : Listed(rest, y) => Listed(ready', y)
  <2>1. skip + BodyLen \in {BodyLen, Units}
    BY DEF HeadLen, BodyLen, Units
  <2>2. sock'[c].avail = 0 /\ \A d \in Conns : d # c => sock'[d] = sock[d]
    BY <1>0, <1>4, <1>7, <2>1, ServesSpent, ServesTaken DEF Still
  <2>3. UNCHANGED <<fds, edge>>
    BY <1>7 DEF Serves
  <2>4. g # fd
    BY <2>2, <2>3 DEF Readable
  <2> QED BY <1>1, <1>2, <1>7, <2>2, <2>3, <2>4
<1>8. CASE Closes(fd) /\ ready' = rest
  BY <1>3, <1>8
<1>9. CASE \E n \in Nat : skip + n <= sock[c].avail /\ Takes(c, skip + n) /\ ready' = Append(rest, Body(fd))
  BY <1>5, <1>6, <1>9
<1>10. CASE Serves(c, skip + BodyLen) /\ (ready' = rest \/ ready' = Append(rest, Relay(fd)))
  BY <1>5, <1>7, <1>10
<1> QED BY <1>8, <1>9, <1>10 DEF RecvDoes

\* The coroutine at the head of the queue goes to its tail, or ends.
LEMMA QueueGoesOn ==
  ASSUME LoopTypes, Running
  PROVE  /\ \A y : Listed(ready, y) => y = Head(ready) \/ Listed(Tail(ready), y)
         /\ Tail(ready) \in Seq(Routines) /\ Append(Tail(ready), Main) \in Seq(Routines)
         /\ \A x \in Routines : \A y : Listed(Append(Tail(ready), x), y) <=>
                                      Listed(Tail(ready), y) \/ y = x
<1>1. ready \in Seq(Routines) /\ ready # <<>> /\ Main \in Routines
  BY ReadyTypes DEF LoopTypes, Routines
<1>2. Tail(ready) \in Seq(Routines)
  BY ReadyTypes
<1>3. \A y : Listed(ready, y) => y = Head(ready) \/ Listed(Tail(ready), y)
  BY <1>1, ListedTail
<1> QED BY <1>1, <1>2, <1>3, ListedAppend, AppendedSeq

LEMMA DifferentBodies == \A f, g \in Fds : (Body(f) = Body(g) => f = g) /\ Body(f) # Main
<1> SUFFICES ASSUME NEW f \in Fds, NEW g \in Fds
             PROVE  (Body(f) = Body(g) => f = g) /\ Body(f) # Main
  OBVIOUS
<1>1. Body(f).fd = f /\ Body(g).fd = g /\ Body(f).at = "body" /\ Main.at = "main"
  BY DEF Body, Main
<1> QED BY <1>1

LEMMA ReadEventSees ==
  ASSUME ConnInv, ReadablesSeen, NEW e \in batch, ReadEvent(e), NEW g \in Fds, Readable(g)'
  PROVE  Seen(g)'
<1> DEFINE fd == e.fd
           rest == Append(Tail(ready), Main)
<1>0. ConnTypes /\ LoopTypes /\ OneDescriptor
  BY DEF ConnInv, Places
<1>1. fd \in Fds /\ Running /\ Head(ready) = Main /\ batch' = batch \ {e}
  BY <1>0, ReadEventDoes DEF AtEvent, Running
<1>2. rest \in Seq(Routines) /\ \A y : y # Main /\ Listed(ready, y) => Listed(rest, y)
  <2>1. Main \in Routines
    BY DEF Routines
  <2> QED BY <1>0, <1>1, <2>1, QueueGoesOn
<1>3. CASE fds[fd] \in Conns /\ RecvDoes(fd, HeadLen, rest)
  <2>1. /\ fds'[g] = fds[g] /\ (fds[g] \in edge => fds[g] \in edge')
        /\ g = fd => Listed(ready', Body(fd))
        /\ g # fd => Readable(g)
        /\ \A y : Listed(rest, y) => Listed(ready', y)
    BY <1>1, <1>2, <1>3, RecvDoesSees
  <2>2. CASE g = fd
    BY <2>1, <2>2 DEF Seen, Listed, Body
  <2>3. CASE g # fd
    <3>1. Seen(g)
      BY <1>1, <2>1, <2>3 DEF ReadablesSeen
    <3>2. \A b \in batch : b.fd = g => b \in batch'
      BY <1>1, <2>3
    <3>3. Listed(ready, Body(g)) => Listed(ready', Body(g))
      BY <1>2, <2>1, DifferentBodies
    <3> QED BY <2>1, <3>1, <3>2, <3>3, SeenStays
  <2> QED BY <2>2, <2>3
<1>4. CASE Closes(fd) /\ ready' = rest
  <2>1. /\ g # fd /\ fds'[g] = fds[g] /\ Readable(g)
        /\ fds[g] \in edge => fds[g] \in edge'
    BY <1>0, <1>1, <1>4, ClosesOthers DEF Closes
  <2>2. Seen(g)
    BY <1>1, <2>1 DEF ReadablesSeen
  <2>3. \A b \in batch : b.fd = g => b \in batch'
    BY <1>1, <2>1
  <2>4. Listed(ready, Body(g)) => Listed(ready', Body(g))
    BY <1>2, <1>4, DifferentBodies
  <2> QED BY <2>1, <2>2, <2>3, <2>4, SeenStays
<1> QED BY <1>0, <1>3, <1>4, ReadEventDoes

LEMMA ResumeBodySees ==
  ASSUME ConnInv, ReadablesSeen, ResumeBody, NEW g \in Fds, Readable(g)'
  PROVE  Seen(g)'
<1> DEFINE fd == Head(ready).fd
           rest == Tail(ready)
<1>0. ConnTypes /\ LoopTypes /\ OneDescriptor
  BY DEF ConnInv, Places
<1>1. fd \in Fds /\ Running /\ Head(ready) = Body(fd) /\ batch' = batch
  BY <1>0, ResumeBodyDoes
<1>2. rest \in Seq(Routines) /\ \A y : y # Body(fd) /\ Listed(ready, y) => Listed(rest, y)
  BY <1>0, <1>1, QueueGoesOn
<1>3. CASE fds[fd] \in Conns /\ RecvDoes(fd, 0, rest)
  <2>0. 0 \in {0, HeadLen}
    OBVIOUS
  <2>1. /\ fds'[g] = fds[g] /\ (fds[g] \in edge => fds[g] \in edge')
        /\ g = fd => Listed(ready', Body(fd))
        /\ g # fd => Readable(g)
        /\ \A y : Listed(rest, y) => Listed(ready', y)
    BY <1>1, <1>2, <1>3, <2>0, RecvDoesSees
  <2>2. CASE g = fd
    BY <2>1, <2>2 DEF Seen, Listed, Body
  <2>3. CASE g # fd
    <3>1. Seen(g)
      BY <1>1, <2>1, <2>3 DEF ReadablesSeen
    <3>2. Listed(ready, Body(g)) => Listed(ready', Body(g))
      BY <1>1, <1>2, <2>1, <2>3, DifferentBodies
    <3> QED BY <1>1, <2>1, <3>1, <3>2, SeenStays
  <2> QED BY <2>2, <2>3
<1>4. CASE Closes(fd) /\ ready' = rest
  <2>1. /\ g # fd /\ fds'[g] = fds[g] /\ Readable(g)
        /\ fds[g] \in edge => fds[g] \in edge'
    BY <1>0, <1>1, <1>4, ClosesOthers DEF Closes
  <2>2. Seen(g)
    BY <1>1, <2>1 DEF ReadablesSeen
  <2>3. Listed(ready, Body(g)) => Listed(ready', Body(g))
    BY <1>1, <1>2, <1>4, <2>1, DifferentBodies
  <2> QED BY <1>1, <2>1, <2>2, <2>3, SeenStays
<1>5. CASE /\ ready' = Append(rest, Body(fd)) /\ fds[fd] = "tor"
           /\ UNCHANGED <<clientVars, kernelVars, dial>>
  <2>1. UNCHANGED <<sock, fds, edge>>
    BY <1>5 DEF kernelVars
  <2>2. Readable(g) /\ g # fd
    BY <1>5, <2>1, ConnsAssumption DEF Readable
  <2>3. Seen(g)
    BY <1>1, <2>2 DEF ReadablesSeen
  <2>4. Listed(ready, Body(g)) => Listed(ready', Body(g))
    <3>1. Body(fd) \in Routines
      BY <1>1 DEF Routines
    <3> QED BY <1>0, <1>1, <1>2, <1>5, <2>2, <3>1, QueueGoesOn, DifferentBodies
  <2> QED BY <1>1, <2>1, <2>3, <2>4, SeenStays
<1> QED BY <1>0, <1>3, <1>4, <1>5, ResumeBodyDoes

LEMMA PollSees ==
  ASSUME ConnInv, ReadablesSeen, Poll, NEW g \in Fds, Readable(g)'
  PROVE  Seen(g)'
<1>0. ConnTypes /\ LoopTypes /\ loop = "wait" /\ Running
  BY DEF ConnInv, Poll, Running
<1>1. /\ batch = {} /\ batch' = Reported /\ Head(ready) = Main
      /\ ready' = Append(Tail(ready), Main) /\ UNCHANGED <<sock, fds>>
  BY <1>0 DEF LoopTypes, Poll
<1>2. Readable(g)
  BY <1>1 DEF Readable
<1>3. fds[g] \in edge \/ Listed(ready, Body(g))
  BY <1>0, <1>1, <1>2 DEF ReadablesSeen, Seen
<1>4. CASE fds[g] \in edge
  <2>1. HasEvent(fds[g])
    BY <1>2 DEF Readable, HasEvent
  <2>2. \E e \in Reported : e.fd = g
    <3> DEFINE e == [fd |-> g, kind |-> IF sock[fds[g]].rst THEN "err" ELSE "in", of |-> fds[g]]
    <3>1. e.fd = g
      OBVIOUS
    <3>2. g \in {f \in Fds : fds[f] \in edge /\ HasEvent(fds[f])}
      BY <1>4, <2>1
    <3>3. e \in Reported
      BY <3>2, Zenon DEF Reported
    <3> HIDE DEF e
    <3> QED BY <3>1, <3>3
  <2> QED BY <1>1, <2>2 DEF Seen
<1>5. CASE Listed(ready, Body(g))
  <2>1. Main \in Routines
    BY DEF Routines
  <2>2. Listed(Tail(ready), Body(g))
    BY <1>0, <1>1, <1>5, QueueGoesOn, DifferentBodies
  <2>3. Listed(Append(Tail(ready), Main), Body(g))
    BY <1>0, <2>1, <2>2, QueueGoesOn
  <2>4. Listed(ready, Body(g))' <=> Listed(ready', Body(g))
    BY DEF Listed, Body
  <2> QED BY <1>1, <2>3, <2>4 DEF Seen
<1> QED BY <1>3, <1>4, <1>5

LEMMA ErrorEventSees ==
  ASSUME ConnInv, ReadablesSeen, NEW e \in batch, ErrorEvent(e), NEW g \in Fds, Readable(g)'
  PROVE  Seen(g)'
<1>0. ConnTypes /\ LoopTypes /\ OneDescriptor /\ Running
  BY DEF ConnInv, Places, ErrorEvent, AtEvent, Running
<1>1. e.fd \in Fds /\ CloseFd(e.fd) /\ batch' = batch \ {e} /\ ready' = ready
  BY <1>0, EventTypes DEF ErrorEvent, routineVars
<1>2. /\ g # e.fd /\ fds'[g] = fds[g] /\ Readable(g)
      /\ fds[g] \in edge => fds[g] \in edge'
  BY <1>0, <1>1, ClosesOthers
<1>3. Seen(g) /\ \A b \in batch : b.fd = g => b \in batch'
  BY <1>0, <1>1, <1>2 DEF ReadablesSeen
<1> QED BY <1>1, <1>2, <1>3, SeenStays

LEMMA AcceptSees ==
  ASSUME ConnInv, ReadablesSeen, AcceptOne, NEW g \in Fds, Readable(g)'
  PROVE  Seen(g)'
<1>0. ConnTypes /\ Running /\ FreeFds # {}
  BY DEF ConnInv, AcceptOne, Running
<1> DEFINE fd == Lowest(FreeFds)
           c == Head(backlog)
<1>1. /\ fds' = [fds EXCEPT ![fd] = c] /\ edge' = IF HasEvent(c) THEN edge \cup {c} ELSE edge
      /\ UNCHANGED <<sock, batch, ready>>
  BY DEF AcceptOne, routineVars
<1>2. fd \in Fds /\ fds \in [Fds -> Conns \cup {"free", "std", "tor"}]
  BY <1>0, OpenFd DEF ConnTypes
<1>3. CASE g = fd
  <2>1. fds'[g] = c
    BY <1>1, <1>2, <1>3
  <2>2. HasEvent(c)
    BY <1>1, <2>1 DEF Readable, HasEvent
  <2> QED BY <1>1, <2>1, <2>2 DEF Seen
<1>4. CASE g # fd
  <2>1. fds'[g] = fds[g]
    BY <1>1, <1>2, <1>4
  <2>2. Readable(g)
    BY <1>1, <2>1 DEF Readable
  <2>3. Seen(g)
    BY <1>0, <2>2 DEF ReadablesSeen
  <2> QED BY <1>1, <2>1, <2>3, SeenStays
<1> QED BY <1>3, <1>4

LEMMA DeliverSees ==
  ASSUME ConnInv, ReadablesSeen, Running, NEW c \in Conns, Deliver(c), NEW g \in Fds, Readable(g)'
  PROVE  Seen(g)'
<1>0. ConnTypes
  BY DEF ConnInv
<1>1. /\ UNCHANGED <<fds, batch, ready>>
      /\ edge' = IF Accepted(c) THEN edge \cup {c} ELSE edge
      /\ \A d \in Conns : d # c => sock'[d] = sock[d]
  BY <1>0, DeliverSock DEF Deliver, loopVars, routineVars
<1>2. CASE fds[g] = c
  BY <1>1, <1>2 DEF Seen, Accepted
<1>3. CASE fds[g] # c
  <2>1. Readable(g)
    BY <1>1, <1>3 DEF Readable
  <2> QED BY <1>1, <2>1, SeenStays DEF ReadablesSeen
<1> QED BY <1>2, <1>3

LEMMA DialSees ==
  ASSUME ConnInv, ReadablesSeen, Running, NEW c \in Conns, DialOpens(c) \/ DialEnds(c),
         NEW g \in Fds, Readable(g)'
  PROVE  Seen(g)'
<1>0. ConnTypes /\ OneDescriptor
  BY DEF ConnInv, Places
<1>1. UNCHANGED <<batch, ready>>
  BY DEF DialOpens, DialEnds, loopVars
<1>2. CASE UNCHANGED <<fds, edge, sock>>
  <2>1. Readable(g)
    BY <1>2 DEF Readable
  <2> QED BY <1>1, <1>2, <2>1, SeenStays DEF ReadablesSeen
<1>3. ASSUME FreeFds # {}, fds' = [fds EXCEPT ![Lowest(FreeFds)] = "tor"],
             UNCHANGED <<edge, sock>>
      PROVE  Seen(g)'
  <2>1. fds'[g] = fds[g]
    BY <1>0, <1>3, ConnsAssumption DEF Readable, ConnTypes
  <2>2. Readable(g)
    BY <1>3, <2>1 DEF Readable
  <2> QED BY <1>1, <1>3, <2>1, <2>2, SeenStays DEF ReadablesSeen
<1>4. ASSUME dial[c].at = "dialling", CloseFd(dial[c].fd)
      PROVE  Seen(g)'
  <2>1. dial[c].fd \in Fds
    BY <1>0, <1>4 DEF ConnTypes
  <2> QED BY <1>0, <1>1, <1>4, <2>1, ClosesOthers, SeenStays DEF ReadablesSeen
<1> QED BY <1>2, <1>3, <1>4 DEF DialOpens, DialEnds

LEMMA ListenEventSees ==
  ASSUME ConnInv, ReadablesSeen, NEW e \in batch, ListenEvent(e), NEW g \in Fds, Readable(g)'
  PROVE  Seen(g)'
<1>1. /\ Running /\ e = Listener /\ batch' = batch \ {e}
      /\ UNCHANGED <<sock, fds, edge, ready>>
  BY EventTypes DEF ConnInv, ListenEvent, AtEvent, Running, kernelVars, routineVars
<1>2. Readable(g)
  BY <1>1 DEF Readable
<1>3. e.fd # g
  BY <1>1, SomeDescriptors DEF Listener
<1>4. \A b \in batch : b.fd = g => b \in batch'
  BY <1>1, <1>3
<1> QED BY <1>1, <1>2, <1>4, SeenStays DEF ReadablesSeen

LEMMA ResumeRelaySees ==
  ASSUME ConnInv, ReadablesSeen, ResumeRelay, NEW g \in Fds, Readable(g)'
  PROVE  Seen(g)'
<1>0. LoopTypes /\ Running
  BY DEF ConnInv, ResumeRelay, Running
<1>1. /\ Head(ready).at = "relay" /\ ready' = Append(Tail(ready), Head(ready))
      /\ UNCHANGED <<sock, fds, edge, batch>>
  BY DEF ResumeRelay, kernelVars, loopVars
<1>2. Readable(g)
  BY <1>1 DEF Readable
<1>3. Body(g) # Head(ready)
  BY <1>1 DEF Body
<1>4. Head(ready) \in Routines
  BY <1>0, ReadyTypes
<1>5. Listed(ready, Body(g)) => Listed(Tail(ready), Body(g))
  BY <1>0, <1>3, QueueGoesOn
<1>6. Listed(Tail(ready), Body(g)) => Listed(ready', Body(g))
  BY <1>0, <1>1, <1>4, QueueGoesOn
<1> QED BY <1>0, <1>1, <1>2, <1>5, <1>6, SeenStays DEF ReadablesSeen

LEMMA LeaveLoopSees ==
  ASSUME ConnInv, ReadablesSeen, LeaveLoop, NEW g \in Fds, Readable(g)'
  PROVE  Seen(g)'
<1>1. Running /\ UNCHANGED <<sock, edge, batch, ready>>
  BY DEF LeaveLoop, Running, routineVars
<1>2. fds'[g] = "free" \/ fds'[g] = fds[g]
  BY DEF LeaveLoop
<1>3. fds'[g] = fds[g] /\ Readable(g)
  BY <1>1, <1>2, ConnsAssumption DEF Readable
<1> QED BY <1>1, <1>3, SeenStays DEF ReadablesSeen

LEMMA NextKeepsReadables == ConnInv /\ ReadablesSeen /\ [Next]_vars => ReadablesSeen'
<1> SUFFICES ASSUME ConnInv, ReadablesSeen, [Next]_vars, Running', NEW g \in Fds, Readable(g)'
             PROVE  Seen(g)'
  BY DEF ReadablesSeen
<1>1. Running
  BY NextKeepsQueue DEF ConnInv
<1>2. CASE UNCHANGED <<sock, fds, batch, ready>> /\ edge \subseteq edge'
  <2>1. Readable(g)
    BY <1>2 DEF Readable
  <2> QED BY <1>1, <1>2, <2>1, SeenStays DEF ReadablesSeen
<1>3. ASSUME AcceptFails \/ NextRound \/ Interrupt \/ UNCHANGED vars
      PROVE  UNCHANGED <<sock, fds, edge, batch, ready>>
  BY <1>3 DEF AcceptFails, NextRound, Interrupt, vars, kernelVars, loopVars, routineVars
<1>4. ASSUME NEW c \in Conns, Connect(c) \/ HangUp(c) \/ (\E r \in Requests : SendRequest(c, r))
      PROVE  UNCHANGED <<sock, fds, batch, ready>> /\ edge \subseteq edge'
  BY <1>4 DEF Connect, HangUp, SendRequest, loopVars, routineVars
<1>5. ~(DeadlineOver \/ FieldMissing \/ Shutdown)
  BY DEF DeadlineOver, FieldMissing, Shutdown, Die, Running
<1>6. CASE DaemonStep
  <2>1. CASE \E e \in batch : ErrorEvent(e) \/ ListenEvent(e) \/ ReadEvent(e)
    BY <2>1, ErrorEventSees, ListenEventSees, ReadEventSees
  <2>2. CASE Poll \/ AcceptOne \/ ResumeBody \/ ResumeRelay \/ LeaveLoop
    BY <2>2, PollSees, AcceptSees, ResumeBodySees, ResumeRelaySees, LeaveLoopSees
  <2> QED BY <1>2, <1>3, <1>5, <1>6, <2>1, <2>2 DEF DaemonStep
<1>7. CASE \E c \in Conns : Deliver(c)
  BY <1>1, <1>7, DeliverSees
<1>8. CASE ThreadStep
  BY <1>1, <1>8, DialSees DEF ThreadStep
<1>9. CASE ClientStep
  BY <1>2, <1>4, <1>9 DEF ClientStep
<1> QED BY <1>2, <1>3, <1>6, <1>7, <1>8, <1>9 DEF Next

\* However few descriptors there are, what arrived on a connection that was
\* accepted is read: its event is pending, or a coroutine waits for it.
THEOREM DaemonSeesReadables == Spec => []ReadablesSeen
<1>1. Init => ReadablesSeen
  <2> SUFFICES ASSUME Init, NEW g \in Fds, Readable(g) PROVE FALSE
    BY DEF ReadablesSeen
  <2>1. fds[g] \in Conns /\ sock[fds[g]].avail > 0
    BY DEF Readable
  <2>2. fds[g] \notin Conns
    BY ConnsAssumption DEF Init
  <2> QED BY <2>1, <2>2
<1> QED BY <1>1, NextKeepsReadables, ConnInvariant, PTL DEF Spec
-----------------------------------------------------------------------------
(* Connections that wait to be accepted.                                   *)

\* The sockets of the dialling threads, and the standard ones.
TorOwned == \A f \in Fds : fds[f] = "tor" =>
               \E c \in Conns : dial[c].at \in {"dialling", "over"} /\ dial[c].fd = f
StdLow == \A f \in Fds : fds[f] = "std" => f \in {0, 1}

\* Whose thread has descriptor f.
Owns(c, f) == dial[c].at \in {"dialling", "over"} /\ dial[c].fd = f

\* A socket of a thread comes from the thread that opens it, and the thread
\* keeps it.
LEMMA TorComes ==
  ASSUME ConnTypes, Places, Traffic, DialSpent, ConnStep, NEW f \in Fds
  PROVE  /\ fds'[f] = "std" => fds[f] = "std"
         /\ fds'[f] = "tor" => fds[f] = "tor" \/ \E c \in Conns : Owns(c, f)'
         /\ fds'[f] = "tor" => \A c \in Conns : Owns(c, f) => Owns(c, f)'
<1> DEFINE Goal ==
         /\ fds'[f] = "std" => fds[f] = "std"
         /\ fds'[f] = "tor" => fds[f] = "tor" \/ \E c \in Conns : Owns(c, f)'
         /\ fds'[f] = "tor" => \A c \in Conns : Owns(c, f) => Owns(c, f)'
<1>0. /\ fds \in [Fds -> Conns \cup {"free", "std", "tor"}] /\ dial \in [Conns -> Dialled]
      /\ "std" \notin Conns /\ "tor" \notin Conns
  BY ConnsAssumption DEF ConnTypes
<1>1. ASSUME dial' = dial, fds'[f] = fds[f] \/ fds'[f] = "free" \/ fds'[f] \in Conns
      PROVE  Goal
  BY <1>0, <1>1 DEF Owns
<1>2. ASSUME NEW c \in Conns, NEW n \in {BodyLen, Units}, Accepted(c), Serves(c, n)
      PROVE  Goal
  <2>1. fds' = fds /\ (dial' = dial \/ dial' = [dial EXCEPT ![c].at = "started"])
    BY <1>2 DEF Serves
  <2>2. dial[c].at = "none"
    BY <1>2, ServesSpent DEF DialSpent
  <2>3. CASE dial' = [dial EXCEPT ![c].at = "started"]
    <3>1. \A d \in Conns : d # c => dial'[d] = dial[d]
      BY <1>0, <2>3, DialFields
    <3> QED BY <2>1, <2>2, <3>1 DEF Owns
  <2> QED BY <1>1, <2>1, <2>3
<1>3. ASSUME NEW c \in Conns, DialOpens(c)
      PROVE  Goal
  <2>0. dial[c].at = "started"
    BY <1>3 DEF DialOpens
  <2>1. CASE dial' = [dial EXCEPT ![c].at = "over"] /\ fds' = fds
    <3>1. \A d \in Conns : d # c => dial'[d] = dial[d]
      BY <1>0, <2>1, DialFields
    <3> QED BY <2>0, <2>1, <3>1 DEF Owns
  <2>2. ASSUME FreeFds # {},
               dial' = [dial EXCEPT ![c] = [at |-> "dialling", fd |-> Lowest(FreeFds)]],
               fds' = [fds EXCEPT ![Lowest(FreeFds)] = "tor"]
        PROVE  Goal
    <3>0. PICK fd \in Fds : fd = Lowest(FreeFds)
      BY <2>2, OpenFd
    <3>1. /\ dial'[c] = [at |-> "dialling", fd |-> fd]
          /\ \A d \in Conns : d # c => dial'[d] = dial[d]
      BY <1>0, <2>2, <3>0
    <3>2. /\ f # fd => fds'[f] = fds[f]
          /\ f = fd => fds'[f] = "tor"
      BY <1>0, <2>2, <3>0
    <3>3. f = fd => Owns(c, f)'
      BY <3>1 DEF Owns
    <3>4. \A d \in Conns : Owns(d, f) => Owns(d, f)'
      BY <2>0, <3>1 DEF Owns
    <3> QED BY <3>2, <3>3, <3>4
  <2> QED BY <1>3, <2>1, <2>2 DEF DialOpens
<1>4. ASSUME NEW c \in Conns, DialEnds(c)
      PROVE  Goal
  <2>0. dial[c].at = "dialling" /\ dial' = [dial EXCEPT ![c].at = "over"]
    BY <1>4 DEF DialEnds
  <2>1. /\ \A d \in Conns : d # c => dial'[d] = dial[d]
        /\ dial'[c].at = "over" /\ dial'[c].fd = dial[c].fd
    BY <1>0, <2>0, DialFields
  <2>2. fds'[f] = fds[f] \/ fds'[f] = "free"
    BY <1>0, <1>4 DEF DialEnds, CloseFd
  <2>3. \A d \in Conns : Owns(d, f) => Owns(d, f)'
    BY <2>0, <2>1 DEF Owns
  <2> QED BY <2>2, <2>3
<1>5. ASSUME NEW fd \in Fds, Closes(fd)
      PROVE  fds'[f] = fds[f] \/ fds'[f] = "free"
  BY <1>0, <1>5 DEF Closes, CloseFd
<1>6. ASSUME AcceptOne
      PROVE  dial' = dial /\ (fds'[f] = fds[f] \/ fds'[f] \in Conns)
  <2>1. FreeFds # {} /\ dial' = dial /\ fds' = [fds EXCEPT ![Lowest(FreeFds)] = Head(backlog)]
    BY <1>6 DEF AcceptOne, routineVars
  <2>2. Head(backlog) \in Conns
    BY <1>6, HeadTailProperties DEF AcceptOne, ConnTypes
  <2> QED BY <1>0, <2>1, <2>2
<1>7. ASSUME LeaveLoop
      PROVE  dial' = dial /\ (fds'[f] = fds[f] \/ fds'[f] = "free")
  BY <1>7 DEF LeaveLoop, routineVars
<1>8. ASSUME NEW how, Die(how)
      PROVE  fds'[f] = "free"
  BY <1>8 DEF Die
<1>9. ASSUME NEW c \in Conns, \/ Connect(c) \/ HangUp(c) \/ Deliver(c)
                              \/ (\E r \in Requests : SendRequest(c, r)) \/ (\E n : Takes(c, n))
      PROVE  UNCHANGED <<fds, dial>>
  BY <1>9 DEF Connect, HangUp, Deliver, SendRequest, Takes, routineVars
<1>10. \/ UNCHANGED <<fds, dial>> \/ AcceptOne \/ LeaveLoop \/ (\E how : Die(how))
       \/ (\E fd \in Fds : Closes(fd) /\ dial' = dial)
       \/ (\E c \in Conns : DialOpens(c) \/ DialEnds(c))
       \/ \E c \in Conns : \E n \in {BodyLen, Units} : Accepted(c) /\ Serves(c, n)
  BY <1>9 DEF ConnStep
<1> HIDE DEF Goal
<1>11. ASSUME fds'[f] = "free" PROVE Goal
  BY <1>11 DEF Goal
<1>12. Goal
  BY <1>1, <1>2, <1>3, <1>4, <1>5, <1>6, <1>7, <1>8, <1>10, <1>11
<1> QED BY <1>12 DEF Goal

LEMMA StepKeepsTorOwned ==
  ASSUME ConnTypes, Places, Traffic, DialSpent, ConnStep, TorOwned, StdLow
  PROVE  TorOwned' /\ StdLow'
<1>1. ASSUME NEW f \in Fds, fds'[f] = "tor"
      PROVE  \E c \in Conns : Owns(c, f)'
  <2>1. CASE fds[f] = "tor"
    <3>1. PICK c \in Conns : Owns(c, f)
      BY <2>1 DEF TorOwned, Owns
    <3> QED BY <1>1, <3>1, TorComes
  <2>2. CASE fds[f] # "tor"
    BY <1>1, <2>2, TorComes
  <2> QED BY <2>1, <2>2
<1>2. TorOwned'
  BY <1>1 DEF TorOwned, Owns
<1>3. StdLow'
  BY TorComes DEF StdLow
<1> QED BY <1>2, <1>3

\* A thread dials for a SEND.
DialMeant == \A c \in Conns : dial[c].at # "none" => request[c].cmd = "SEND"

LEMMA StepKeepsDialMeant ==
  ASSUME ConnTypes, DialMeant, ConnStep
  PROVE  DialMeant'
<1> SUFFICES ASSUME NEW c \in Conns, dial'[c].at # "none"
             PROVE  request'[c].cmd = "SEND"
  BY DEF DialMeant
<1>1. request[c].cmd = "SEND" => request'[c] = request[c]
  <2>1. NoRequest.cmd # "SEND"
    BY DEF NoRequest
  <2> QED BY <2>1, ClientsGoOn
<1>2. CASE dial[c].at # "none"
  BY <1>1, <1>2 DEF DialMeant
<1>3. CASE dial[c].at = "none"
  <2>1. PICK n \in {BodyLen, Units} : Serves(c, n)
    BY <1>3, DialStep
  <2>2. dial' # dial
    BY <1>3
  <2> QED BY <1>1, <2>1, <2>2 DEF Serves
<1> QED BY <1>2, <1>3

\* At most so many threads have a descriptor while a connection waits.
Threads == IF \E r \in Requests : r.cmd = "SEND" THEN Cardinality(Conns) - 1 ELSE 0

\* All descriptors of a set are in use only if there are as many connections
\* and threads: one that waits to be accepted has neither.
LEMMA DescriptorsTaken ==
  ASSUME ConnInv, TorOwned, StdLow, DialMeant, FreeFds = {}, NEW c \in Conns, Queued(c)
  PROVE  MaxFd - FirstFd + 1 <= Cardinality(Conns) - 1 + Threads
<1> DEFINE D == FirstFd..MaxFd
           Others == Conns \ {c}
           A == {f \in D : fds[f] \in Conns}
           T == {f \in D : fds[f] = "tor"}
<1>0. /\ ConnTypes /\ OneDescriptor /\ QueuedOnce /\ DialSpent
      /\ FirstFd \in Nat /\ MaxFd \in Nat /\ 1 < FirstFd /\ FirstFd <= MaxFd
  BY DescriptorsAssumption DEF ConnInv, Places
<1>1. D \subseteq Fds /\ 0 \notin D /\ 1 \notin D
  BY <1>0 DEF Fds
<1>2. /\ IsFiniteSet(Others) /\ Cardinality(Others) = Cardinality(Conns) - 1
      /\ Cardinality(Conns) \in Nat
  BY FS_RemoveElement, FS_CardinalityType, ConnsAssumption
<1>3. IsFiniteSet(D) /\ Cardinality(D) = MaxFd - FirstFd + 1
  <2>1. FirstFd \in Int /\ MaxFd \in Int /\ ~(FirstFd > MaxFd)
    BY <1>0
  <2> QED BY <2>1, FS_Interval
<1>4. IsFiniteSet(A) /\ IsFiniteSet(T)
  BY <1>3, FS_Subset
<1>5. D \subseteq A \cup T
  <2> SUFFICES ASSUME NEW f \in D PROVE f \in A \/ f \in T
    OBVIOUS
  <2>1. f \in Fds /\ fds[f] \in Conns \cup {"free", "std", "tor"}
    BY <1>0, <1>1 DEF ConnTypes
  <2>2. fds[f] # "free"
    BY <2>1 DEF FreeFds
  <2>3. fds[f] # "std"
    BY <1>1, <2>1 DEF StdLow
  <2> QED BY <2>1, <2>2, <2>3
<1>6. Cardinality(A) <= Cardinality(Others)
  <2> DEFINE g == [f \in A |-> fds[f]]
  <2>1. ~Accepted(c)
    BY <1>0 DEF QueuedOnce
  <2>2. \A f \in A : fds[f] \in Others
    BY <1>1, <2>1 DEF Accepted
  <2>3. \A f1, f2 \in A : fds[f1] = fds[f2] => f1 = f2
    BY <1>0, <1>1 DEF OneDescriptor
  <2>4. g \in Injection(A, Others)
    BY <2>2, <2>3 DEF Injection, IsInjective
  <2> HIDE DEF g, A, Others
  <2> QED BY <1>2, <2>4, FS_Injection
<1>7. Cardinality(T) <= Threads
  <2>1. \A f \in T : \E d \in Others : dial[d].fd = f /\ request[d].cmd = "SEND"
    <3> SUFFICES ASSUME NEW f \in T
                 PROVE  \E d \in Others : dial[d].fd = f /\ request[d].cmd = "SEND"
      OBVIOUS
    <3>1. PICK d \in Conns : dial[d].at \in {"dialling", "over"} /\ dial[d].fd = f
      BY <1>1 DEF TorOwned
    <3>2. d # c
      BY <1>0, <3>1 DEF DialSpent, Spent
    <3>3. request[d].cmd = "SEND"
      BY <3>1 DEF DialMeant
    <3> QED BY <3>1, <3>2, <3>3
  <2>2. CASE \E r \in Requests : r.cmd = "SEND"
    <3> DEFINE g == [f \in T |-> CHOOSE d \in Others : dial[d].fd = f]
    <3>1. \A f \in T : g[f] \in Others /\ dial[g[f]].fd = f
      BY <2>1
    <3>2. g \in [T -> Others]
      BY <3>1
    <3>3. \A f1, f2 \in T : g[f1] = g[f2] => f1 = f2
      BY <3>1
    <3> HIDE DEF g, T, Others
    <3>4. g \in Injection(T, Others)
      BY <3>2, <3>3 DEF Injection, IsInjective
    <3>5. Cardinality(T) <= Cardinality(Others)
      BY <1>2, <3>4, FS_Injection
    <3> QED BY <1>2, <2>2, <3>5 DEF Threads
  <2>3. CASE ~\E r \in Requests : r.cmd = "SEND"
    <3>1. \A d \in Others : request[d].cmd # "SEND"
      <4>1. NoRequest.cmd # "SEND"
        BY DEF NoRequest
      <4>2. \A d \in Conns : request[d] \in Requests \cup {NoRequest}
        BY <1>0 DEF ConnTypes, RequestInv
      <4> QED BY <2>3, <4>1, <4>2
    <3>2. T = {}
      BY <2>1, <3>1
    <3> HIDE DEF T
    <3>3. Cardinality(T) = 0
      BY <3>2, FS_EmptySet
    <3> QED BY <2>3, <3>3 DEF Threads
  <2> QED BY <2>2, <2>3
<1>8. Cardinality(D) <= Cardinality(A) + Cardinality(T)
  <2>1. /\ IsFiniteSet(A \cup T)
        /\ Cardinality(A \cup T) = Cardinality(A) + Cardinality(T) - Cardinality(A \cap T)
    BY <1>4, FS_Union
  <2>2. Cardinality(D) <= Cardinality(A \cup T)
    BY <1>5, <2>1, FS_Subset
  <2>3. Cardinality(A) \in Nat /\ Cardinality(T) \in Nat /\ Cardinality(A \cap T) \in Nat
    BY <1>4, FS_CardinalityType, FS_Intersection
  <2>4. Cardinality(D) \in Nat
    BY <1>3, FS_CardinalityType
  <2> HIDE DEF D, A, T
  <2> QED BY <2>1, <2>2, <2>3, <2>4
<1>9. Cardinality(A) \in Nat /\ Cardinality(T) \in Nat
  BY <1>4, FS_CardinalityType
<1> HIDE DEF D, A, T, Others
<1>10. Threads \in Int
  BY <1>2 DEF Threads
<1> QED BY <1>0, <1>2, <1>3, <1>6, <1>7, <1>8, <1>9, <1>10

\* A descriptor for every connection and for every thread.
EnoughDescriptors == MaxFd - FirstFd + 1 >= Cardinality(Conns) + Threads

Waiters == Running /\ loop # "left" /\ backlog # <<>> =>
              "listener" \in edge \/ Listener \in batch \/ loop = "accept"

LEMMA WaiterHasDescriptor ==
  ASSUME EnoughDescriptors, ConnInv, TorOwned, StdLow, DialMeant, backlog # <<>>
  PROVE  FreeFds # {}
<1>1. PICK c \in Conns : c = Head(backlog)
  BY HeadTailProperties DEF ConnInv, ConnTypes
<1>2. Queued(c)
  <2>1. backlog \in Seq(Conns)
    BY DEF ConnInv, ConnTypes
  <2> QED BY <1>1, <2>1, ListedTail, QueuedIsListed
<1>3. Cardinality(Conns) \in Nat /\ FirstFd \in Nat /\ MaxFd \in Nat /\ Threads \in Int
  BY ConnsAssumption, DescriptorsAssumption, FS_CardinalityType DEF Threads
<1> QED BY <1>2, <1>3, DescriptorsTaken DEF EnoughDescriptors

\* What a step on connections leaves of the listening socket's edge.
LEMMA ClosesKeepListener ==
  ASSUME ConnTypes, NEW fd \in Fds, CloseFd(fd)
  PROVE  "listener" \in edge => "listener" \in edge'
<1>1. fds[fd] # "listener"
  BY ConnsAssumption DEF ConnTypes
<1> QED BY <1>1 DEF CloseFd

LEMMA NextKeepsWaiters ==
  ASSUME EnoughDescriptors, ConnInv, TorOwned, StdLow, DialMeant, Waiters, [Next]_vars
  PROVE  Waiters'
<1> SUFFICES ASSUME Running', loop' # "left", backlog' # <<>>
             PROVE  "listener" \in edge' \/ Listener \in batch' \/ loop' = "accept"
  BY DEF Waiters
<1> DEFINE Goal == "listener" \in edge' \/ Listener \in batch' \/ loop' = "accept"
<1>0. Running /\ ConnTypes /\ LoopTypes
  BY NextKeepsQueue DEF ConnInv
<1>1. ASSUME backlog' = backlog, loop' = loop, batch' = batch,
             "listener" \in edge => "listener" \in edge'
      PROVE  Goal
  BY <1>0, <1>1 DEF Waiters
<1>2. ASSUME Poll PROVE Goal
  <2>1. batch = {} /\ batch' = Reported /\ backlog' = backlog /\ loop = "wait"
    BY <1>0, <1>2 DEF Poll, LoopTypes
  <2>2. "listener" \in edge
    BY <1>0, <2>1 DEF Waiters
  <2> QED BY <2>1, <2>2 DEF Reported
<1>3. ASSUME NEW e \in batch, ErrorEvent(e) PROVE Goal
  <2>1. e.fd \in Fds /\ CloseFd(e.fd) /\ e # Listener
    BY <1>0, <1>3, EventTypes DEF ErrorEvent, Listener
  <2>2. UNCHANGED <<backlog, loop>> /\ batch' = batch \ {e}
    BY <1>3 DEF ErrorEvent
  <2>3. "listener" \in edge => "listener" \in edge'
    BY <1>0, <2>1, ClosesKeepListener
  <2> QED BY <1>0, <2>1, <2>2, <2>3 DEF Waiters
<1>4. ASSUME NEW e \in batch, ListenEvent(e) PROVE Goal
  BY <1>4 DEF ListenEvent
<1>5. ASSUME NEW e \in batch, ReadEvent(e) PROVE Goal
  <2>1. e.fd \in Fds /\ e # Listener
    BY <1>0, <1>5, EventTypes DEF ReadEvent, AtEvent, Listener
  <2>2. loop' = loop /\ batch' = batch \ {e}
    BY <1>5 DEF ReadEvent
  <2>3. backlog' = backlog /\ ("listener" \in edge => "listener" \in edge')
    <3>1. CASE \E n : Takes(fds[e.fd], n) \/ Serves(fds[e.fd], n)
      BY <3>1 DEF Takes, Serves
    <3>2. CASE Closes(e.fd)
      BY <1>0, <2>1, <3>2, ClosesKeepListener DEF Closes
    <3> QED BY <1>0, <1>5, <3>1, <3>2, ReadEventDoes DEF RecvDoes
  <2> QED BY <1>0, <2>1, <2>2, <2>3 DEF Waiters
<1>6. ASSUME AcceptOne PROVE Goal
  BY <1>6 DEF AcceptOne
<1>7. ASSUME AcceptFails PROVE Goal
  <2>1. backlog' = backlog
    BY <1>7 DEF AcceptFails, kernelVars
  <2> QED BY <1>7, <2>1, WaiterHasDescriptor DEF AcceptFails
<1>8. ASSUME ResumeBody PROVE Goal
  <2> DEFINE fd == Head(ready).fd
  <2>1. fd \in Fds /\ UNCHANGED <<loop, batch>>
    BY <1>0, <1>8, ResumeBodyDoes DEF ResumeBody, loopVars
  <2>2. backlog' = backlog /\ ("listener" \in edge => "listener" \in edge')
    <3>1. CASE \E n : Takes(fds[fd], n) \/ Serves(fds[fd], n)
      BY <3>1 DEF Takes, Serves
    <3>2. CASE Closes(fd)
      BY <1>0, <2>1, <3>2, ClosesKeepListener DEF Closes
    <3>3. CASE UNCHANGED <<clientVars, kernelVars, dial>>
      BY <3>3 DEF kernelVars
    <3> QED BY <1>0, <1>8, <3>1, <3>2, <3>3, ResumeBodyDoes DEF RecvDoes
  <2> QED BY <1>1, <2>1, <2>2
<1>9. ASSUME ResumeRelay PROVE Goal
  BY <1>1, <1>9 DEF ResumeRelay, kernelVars, loopVars
<1>10. ASSUME NextRound PROVE Goal
  BY <1>0, <1>10 DEF NextRound, kernelVars, Waiters
<1>11. ~(DeadlineOver \/ FieldMissing \/ Shutdown \/ LeaveLoop)
  BY DEF DeadlineOver, FieldMissing, Shutdown, LeaveLoop, Die, Running
<1>12. ASSUME NEW c \in Conns, DialOpens(c) \/ DialEnds(c) PROVE Goal
  <2>1. UNCHANGED <<backlog, loop, batch>>
    BY <1>12 DEF DialOpens, DialEnds, loopVars
  <2>2. "listener" \in edge => "listener" \in edge'
    <3>1. ASSUME dial[c].at = "dialling", CloseFd(dial[c].fd)
          PROVE  "listener" \in edge => "listener" \in edge'
      <4>1. dial[c].fd \in Fds
        BY <1>0, <3>1 DEF ConnTypes
      <4> QED BY <1>0, <3>1, <4>1, ClosesKeepListener
    <3> QED BY <1>12, <3>1 DEF DialOpens, DialEnds
  <2> QED BY <1>1, <2>1, <2>2
<1>13. ASSUME NEW c \in Conns, Connect(c) PROVE Goal
  BY <1>13 DEF Connect
<1>14. ASSUME NEW c \in Conns,
              HangUp(c) \/ Deliver(c) \/ (\E r \in Requests : SendRequest(c, r))
       PROVE  Goal
  <2>1. UNCHANGED <<backlog, loop, batch>> /\ edge \subseteq edge'
    BY <1>14 DEF HangUp, Deliver, SendRequest, loopVars
  <2> QED BY <1>1, <2>1
<1>15. ASSUME Interrupt \/ UNCHANGED vars PROVE Goal
  BY <1>1, <1>15 DEF Interrupt, vars, kernelVars, loopVars
<1> HIDE DEF Goal
<1>16. ASSUME DaemonStep PROVE Goal
  BY <1>2, <1>3, <1>4, <1>5, <1>6, <1>7, <1>8, <1>9, <1>10, <1>11, <1>16 DEF DaemonStep
<1>17. Goal
  BY <1>12, <1>13, <1>14, <1>15, <1>16 DEF Next, ThreadStep, ClientStep
<1> QED BY <1>17 DEF Goal

\* NoLostWakeup: no event is lost, neither of a connection with something to
\* read nor of one that waits to be accepted, as long as accept() has a
\* descriptor to give.
THEOREM DaemonNoLostWakeup == EnoughDescriptors => (Spec => []NoLostWakeup)
<1> SUFFICES ASSUME EnoughDescriptors PROVE Spec => []NoLostWakeup
  OBVIOUS
<1> DEFINE WakeupInv == TorOwned /\ StdLow /\ DialMeant /\ Waiters
<1>1. Init => WakeupInv
  <2> SUFFICES ASSUME Init PROVE WakeupInv
    OBVIOUS
  <2>1. \A f \in Fds : fds[f] = IF f \in {0, 1} THEN "std" ELSE "free"
    BY DEF Init
  <2>2. TorOwned /\ StdLow
    BY <2>1 DEF TorOwned, StdLow
  <2>3. DialMeant
    <3>1. NoDial.at = "none"
      BY DEF NoDial
    <3> QED BY <3>1 DEF Init, DialMeant
  <2> QED BY <2>2, <2>3 DEF Init, Waiters
<1>2. ConnInv /\ WakeupInv /\ [Next]_vars => WakeupInv'
  <2> SUFFICES ASSUME ConnInv, WakeupInv, [Next]_vars PROVE WakeupInv'
    OBVIOUS
  <2>1. TorOwned' /\ StdLow'
    BY NextIsConnStep, StepKeepsTorOwned DEF ConnInv
  <2>2. DialMeant'
    BY NextIsConnStep, StepKeepsDialMeant DEF ConnInv
  <2> QED BY <2>1, <2>2, NextKeepsWaiters
<1>3. ReadablesSeen /\ WakeupInv => NoLostWakeup
  BY DEF ReadablesSeen, Readable, Seen, Listed, Waiters, NoLostWakeup
<1> QED BY <1>1, <1>2, <1>3, ConnInvariant, DaemonSeesReadables, PTL DEF Spec
-----------------------------------------------------------------------------
(* Clients that are gone.                                                  *)

\* Only a client that hung up ends the traffic on its connection, with a FIN
\* or with the reset that an answer to it meets.
Hangs(c) == sock[c].fin \/ sock[c].rst \/ \E i \in 1..Len(wire[c]) : wire[c][i] <= 0
EndsAnnounced == \A c \in Conns : Hangs(c) => client[c] = "closed"

\* The segments of w under way, and those of what follows from it.
LEMMA EndsOf ==
  ASSUME NEW w \in Seq(Rst..Units)
  PROVE  /\ \A end \in {Fin, Rst} : Append(w, end) \in Seq(Rst..Units)
         /\ w # <<>> => /\ Head(w) \in Rst..Units
                        /\ \A i \in 1..Len(Tail(w)) : \E j \in 1..Len(w) : Tail(w)[i] = w[j]
                        /\ \E j \in 1..Len(w) : Head(w) = w[j]
<1>1. Fin \in Rst..Units /\ Rst \in Rst..Units
  BY DEF Fin, Rst, Units, HeadLen, BodyLen
<1>2. \A end \in {Fin, Rst} : Append(w, end) \in Seq(Rst..Units)
  BY <1>1, AppendedSeq
<1>3. ASSUME w # <<>>
      PROVE  /\ Head(w) \in Rst..Units
             /\ \A i \in 1..Len(Tail(w)) : \E j \in 1..Len(w) : Tail(w)[i] = w[j]
             /\ \E j \in 1..Len(w) : Head(w) = w[j]
  <2>1. /\ Len(Tail(w)) = Len(w) - 1 /\ Len(w) \in Nat /\ Len(w) > 0 /\ Head(w) = w[1]
        /\ \A i \in 1..(Len(w) - 1) : Tail(w)[i] = w[i + 1]
        /\ Head(w) \in Rst..Units
    BY <1>3, TailProperties
  <2>2. \A i \in 1..(Len(w) - 1) : i + 1 \in 1..Len(w)
    BY <2>1
  <2>3. 1 \in 1..Len(w)
    BY <2>1
  <2> QED BY <2>1, <2>2, <2>3
<1> QED BY <1>2, <1>3

LEMMA StepKeepsEndsAnnounced ==
  ASSUME ConnTypes, Places, Unasked, EndsAnnounced, ConnStep, NEW c \in Conns, Hangs(c)'
  PROVE  client'[c] = "closed"
<1>0. /\ wire[c] \in Seq(Rst..Units) /\ client[c] \in {"idle", "open", "closed"}
      /\ sock[c].fin \in BOOLEAN /\ sock[c].rst \in BOOLEAN
  BY SockTypes DEF ConnTypes
<1>1. client[c] = "closed" => client'[c] = "closed"
  BY ClientsGoOn
<1>2. ASSUME sock'[c].fin => sock[c].fin, sock'[c].rst => sock[c].rst, wire'[c] = wire[c]
      PROVE  Hangs(c)
  BY <1>2 DEF Hangs
<1>3. CASE Still(c) \/ Gone(c)
  <2>1. sock'[c].fin => sock[c].fin
    BY <1>3 DEF Still, Gone, EmptySock
  <2>2. sock'[c].rst => sock[c].rst
    BY <1>3 DEF Still, Gone, EmptySock
  <2>3. wire'[c] = wire[c]
    BY <1>3 DEF Still, Gone
  <2> QED BY <1>1, <1>2, <2>1, <2>2, <2>3 DEF EndsAnnounced
<1>4. CASE Sends(c)
  <2>1. PICK cut \in Segmentations : wire'[c] = wire[c] \o cut
    BY <1>4 DEF Sends
  <2>2. wire[c] = <<>> /\ sock[c] = EmptySock /\ sock'[c] = sock[c]
    BY <1>4 DEF Unasked, Sends
  <2>3. cut \in Seq(1..Units)
    BY SegmentationsAssumption DEF Units
  <2>4. wire'[c] = cut
    BY <2>1, <2>2, <2>3, ConcatEmptySeq
  <2>5. \A i \in 1..Len(cut) : cut[i] \in 1..Units
    BY <2>3, ElementOfSeq
  <2>6. \A i \in 1..Len(cut) : ~(cut[i] <= 0)
    BY <2>5 DEF Units, HeadLen, BodyLen
  <2>7. ~sock'[c].fin /\ ~sock'[c].rst
    BY <2>2 DEF EmptySock
  <2> QED BY <2>4, <2>6, <2>7 DEF Hangs
<1>5. CASE Ended(c)
  BY <1>5 DEF Ended
<1>6. CASE Arrives(c)
  <2> DEFINE s == Head(wire[c])
  <2>1. /\ wire[c] # <<>> /\ wire'[c] = Tail(wire[c])
        /\ sock'[c].fin = (sock[c].fin \/ s = Fin)
        /\ sock'[c].rst = (sock[c].rst \/ s = Rst)
    BY <1>6 DEF Arrives
  <2>a. (sock'[c].fin => sock[c].fin \/ s = Fin) /\ (sock'[c].rst => sock[c].rst \/ s = Rst)
    BY <2>1, Zenon
  <2>b. (s = Fin => s <= 0) /\ (s = Rst => s <= 0)
    BY DEF Fin, Rst
  <2>2. /\ \A i \in 1..Len(Tail(wire[c])) : \E j \in 1..Len(wire[c]) : Tail(wire[c])[i] = wire[c][j]
        /\ \E j \in 1..Len(wire[c]) : s = wire[c][j]
    BY <1>0, <2>1, EndsOf
  <2>3. sock'[c].fin => sock[c].fin \/ s <= 0
    BY <2>a, <2>b
  <2>4. sock'[c].rst => sock[c].rst \/ s <= 0
    BY <2>a, <2>b
  <2> HIDE DEF s
  <2>5. Hangs(c)
    BY <2>1, <2>2, <2>3, <2>4 DEF Hangs
  <2> QED BY <1>1, <2>5 DEF EndsAnnounced
<1>7. ASSUME NEW n \in Nat, Taken(c, n)
      PROVE  client'[c] = "closed"
  <2>1. sock'[c].fin = sock[c].fin /\ sock'[c].rst = sock[c].rst
    BY <1>7 DEF Taken
  <2>2. CASE wire'[c] = wire[c]
    BY <1>1, <1>2, <2>1, <2>2 DEF EndsAnnounced
  <2>3. CASE client[c] # "open"
    <3>1. client[c] # "idle"
      BY <1>7 DEF Taken, Places, Unborn
    <3> QED BY <1>0, <1>1, <2>3, <3>1
  <2> QED BY <1>7, <2>2, <2>3 DEF Taken
<1> QED BY <1>3, <1>4, <1>5, <1>6, <1>7, StepOnConns DEF StepOn

LEMMA HangUpsAnnounced == Spec => []EndsAnnounced
<1>1. Init => EndsAnnounced
  <2> SUFFICES ASSUME Init, NEW c \in Conns PROVE ~Hangs(c)
    BY DEF EndsAnnounced
  <2>1. wire[c] = <<>> /\ sock[c] = EmptySock
    BY DEF Init
  <2>2. ~(\E i \in 1..Len(wire[c]) : wire[c][i] <= 0)
    BY <2>1
  <2> QED BY <2>1, <2>2 DEF Hangs, EmptySock
<1>2. ConnInv /\ EndsAnnounced /\ [Next]_vars => EndsAnnounced'
  BY NextIsConnStep, StepKeepsEndsAnnounced DEF EndsAnnounced, ConnInv
<1> QED BY <1>1, <1>2, ConnInvariant, PTL DEF Spec
-----------------------------------------------------------------------------
(* Descriptors that change hands.                                          *)

\* What can change a descriptor: it is given to a connection or a thread, the
\* loop is at its event, a coroutine that waits for a body on it runs, its
\* thread ends, or the process cleans up.
Stays(f) == fds'[f] = fds[f]
Opens(f) == fds[f] = "free"
EventAt(f) == \E e \in batch : (ErrorEvent(e) \/ ReadEvent(e)) /\ e.fd = f
BodyAt(f) == ResumeBody /\ Head(ready) = Body(f)
ThreadAt(f) == \E c \in Conns : DialEnds(c) /\ dial[c].fd = f
DescriptorStep(f) ==
    \/ Stays(f) \/ Opens(f) \/ EventAt(f) \/ BodyAt(f) \/ ThreadAt(f)
    \/ LeaveLoop /\ f \in {0, 1}
    \/ DeadlineOver \/ FieldMissing \/ Shutdown

LEMMA StepOnDescriptors ==
  ASSUME ConnTypes, LoopTypes, [Next]_vars, NEW f \in Fds
  PROVE  DescriptorStep(f)
<1>0. fds \in [Fds -> Conns \cup {"free", "std", "tor"}]
  BY DEF ConnTypes
<1>1. ASSUME NEW g \in Fds, CloseFd(g), g # f
      PROVE  Stays(f)
  BY <1>0, <1>1 DEF CloseFd, Stays
<1>2. ASSUME NEW g \in Fds, NEW skip, NEW rest, RecvDoes(g, skip, rest)
      PROVE  Closes(g) \/ Stays(f)
  BY <1>2 DEF RecvDoes, Takes, Serves, Stays
<1>3. ASSUME NEW e \in batch, ErrorEvent(e)
      PROVE  DescriptorStep(f)
  <2>1. e.fd \in Fds /\ CloseFd(e.fd)
    BY <1>3, EventTypes DEF ErrorEvent
  <2> QED BY <1>1, <1>3, <2>1 DEF DescriptorStep, EventAt
<1>4. ASSUME NEW e \in batch, ReadEvent(e)
      PROVE  DescriptorStep(f)
  <2>1. e.fd \in Fds
    BY <1>4, ReadEventDoes
  <2>2. Closes(e.fd) \/ Stays(f)
    BY <1>2, <1>4, <2>1, ReadEventDoes
  <2> QED BY <1>1, <1>4, <2>1, <2>2 DEF DescriptorStep, EventAt, Closes
<1>5. ASSUME ResumeBody
      PROVE  DescriptorStep(f)
  <2>1. PICK g \in Fds : g = Head(ready).fd /\ Head(ready) = Body(g)
    BY <1>5, ResumeBodyDoes
  <2>2. Closes(g) \/ Stays(f)
    <3>1. CASE UNCHANGED <<clientVars, kernelVars, dial>>
      BY <3>1 DEF kernelVars, Stays
    <3> QED BY <1>2, <1>5, <2>1, <3>1, ResumeBodyDoes
  <2> QED BY <1>1, <1>5, <2>1, <2>2 DEF DescriptorStep, BodyAt, Closes
<1>6. ASSUME NEW c \in Conns, DialEnds(c)
      PROVE  DescriptorStep(f)
  <2>1. dial[c].fd \in Fds
    BY <1>6 DEF DialEnds, ConnTypes
  <2>2. CASE fds' = fds
    BY <2>2 DEF DescriptorStep, Stays
  <2>3. CASE CloseFd(dial[c].fd)
    BY <1>1, <1>6, <2>1, <2>3 DEF DescriptorStep, ThreadAt
  <2> QED BY <1>6, <2>2, <2>3 DEF DialEnds
<1>7. ASSUME NEW x, FreeFds # {}, fds' = [fds EXCEPT ![Lowest(FreeFds)] = x]
      PROVE  DescriptorStep(f)
  <2>1. CASE f = Lowest(FreeFds)
    BY <1>7, <2>1, OpenFd DEF DescriptorStep, Opens
  <2>2. CASE f # Lowest(FreeFds)
    BY <1>0, <1>7, <2>2 DEF DescriptorStep, Stays
  <2> QED BY <2>1, <2>2
<1>8. ASSUME AcceptOne \/ (\E c \in Conns : DialOpens(c))
      PROVE  DescriptorStep(f)
  BY <1>7, <1>8 DEF AcceptOne, DialOpens, DescriptorStep, Stays
<1>9. ASSUME LeaveLoop
      PROVE  DescriptorStep(f)
  <2>1. CASE f \in {0, 1}
    BY <1>9, <2>1 DEF DescriptorStep
  <2>2. CASE f \notin {0, 1}
    <3> DEFINE closed == {IF i \in trackFd THEN 1 ELSE 0 : i \in 0..(nConn - 1)}
    <3>1. f \notin closed
      BY <2>2
    <3>2. fds' = [fd \in Fds |-> IF fd \in closed THEN "free" ELSE fds[fd]]
      BY <1>9 DEF LeaveLoop
    <3> HIDE DEF closed
    <3> QED BY <3>1, <3>2 DEF DescriptorStep, Stays
  <2> QED BY <2>1, <2>2
<1>10. ASSUME \/ Poll \/ AcceptFails \/ ResumeRelay \/ NextRound \/ Interrupt
              \/ (\E e \in batch : ListenEvent(e)) \/ UNCHANGED vars
              \/ (\E d \in Conns, r \in Requests : SendRequest(d, r))
              \/ (\E d \in Conns : Connect(d) \/ HangUp(d) \/ Deliver(d))
       PROVE  Stays(f)
  BY <1>10 DEF Poll, AcceptFails, ResumeRelay, NextRound, Interrupt, ListenEvent, SendRequest,
               Connect, HangUp, Deliver, vars, kernelVars, Stays
<1>11. CASE DaemonStep
  BY <1>3, <1>4, <1>5, <1>8, <1>9, <1>10, <1>11 DEF DaemonStep, DescriptorStep
<1>12. CASE ThreadStep \/ ClientStep \/ (\E d \in Conns : Deliver(d))
  BY <1>6, <1>8, <1>10, <1>12 DEF ThreadStep, ClientStep, DescriptorStep
<1> QED BY <1>10, <1>11, <1>12 DEF Next, DescriptorStep

\* A batch has one event for a descriptor, and error events only for clients
\* that are gone.
OneEvent == \A e, f \in batch \ {Listener} : e.fd = f.fd => e = f
ErrorsAnnounced == \A e \in batch \ {Listener} : e.kind = "err" => client[e.of] = "closed"

LEMMA ReportedOnce ==
  ASSUME ConnTypes, LoopTypes, EndsAnnounced, Poll
  PROVE  OneEvent' /\ ErrorsAnnounced'
<1>1. batch' = Reported /\ UNCHANGED client
  BY DEF Poll, clientVars
<1>2. ASSUME NEW e \in Reported, e # Listener
      PROVE  /\ e = [fd |-> e.fd, kind |-> IF sock[fds[e.fd]].rst THEN "err" ELSE "in",
                     of |-> fds[e.fd]]
             /\ e.kind = "err" => client[e.of] = "closed"
  <2>1. PICK fd \in {f \in Fds : fds[f] \in edge /\ HasEvent(fds[f])} :
           e = [fd |-> fd, kind |-> IF sock[fds[fd]].rst THEN "err" ELSE "in", of |-> fds[fd]]
    BY <1>2 DEF Reported
  <2>2. e.fd = fd /\ e.of = fds[fd] /\ e.kind = IF sock[fds[fd]].rst THEN "err" ELSE "in"
    BY <2>1
  <2>3. fds[fd] \in Conns
    BY ConnsAssumption DEF ConnTypes, LoopTypes
  <2>4. sock[fds[fd]].rst => client[fds[fd]] = "closed"
    BY <2>3 DEF EndsAnnounced, Hangs
  <2>5. e.kind = "err" => sock[fds[fd]].rst
    BY <2>2
  <2> QED BY <2>1, <2>2, <2>4, <2>5
<1>3. \A e, f \in batch' \ {Listener} : e.fd = f.fd => e = f
  BY <1>1, <1>2
<1>4. \A e \in batch' \ {Listener} : e.kind = "err" => client'[e.of] = "closed"
  BY <1>1, <1>2
<1> QED BY <1>3, <1>4 DEF OneEvent, ErrorsAnnounced

\* Until the loop polls again events are only taken out of the batch.
LEMMA BatchShrinks ==
  ASSUME ConnTypes, LoopTypes, [Next]_vars, ~Poll
  PROVE  batch' \subseteq batch
<1>1. ASSUME NEW e \in batch, ErrorEvent(e) \/ ListenEvent(e) \/ ReadEvent(e)
      PROVE  batch' \subseteq batch
  BY <1>1 DEF ErrorEvent, ListenEvent, ReadEvent
<1>2. ASSUME \/ AcceptOne \/ AcceptFails \/ NextRound \/ LeaveLoop \/ ResumeBody \/ ResumeRelay
             \/ DeadlineOver \/ FieldMissing \/ Shutdown \/ Interrupt \/ UNCHANGED vars
             \/ (\E d \in Conns, r \in Requests : SendRequest(d, r))
             \/ (\E d \in Conns : \/ Connect(d) \/ HangUp(d) \/ DialOpens(d) \/ DialEnds(d)
                                  \/ Deliver(d))
      PROVE  batch' \subseteq batch
  BY <1>2 DEF AcceptOne, AcceptFails, NextRound, LeaveLoop, ResumeBody, ResumeRelay, DeadlineOver,
              FieldMissing, Shutdown, Interrupt, SendRequest, Connect, HangUp, DialOpens, DialEnds,
              Deliver, vars, loopVars
<1>3. CASE DaemonStep
  BY <1>1, <1>2, <1>3 DEF DaemonStep
<1> QED BY <1>2, <1>3 DEF Next, ThreadStep, ClientStep

LEMMA NextKeepsBatch ==
  ASSUME ConnTypes, LoopTypes, EndsAnnounced, OneEvent, ErrorsAnnounced, [Next]_vars
  PROVE  OneEvent' /\ ErrorsAnnounced'
<1>1. CASE Poll
  BY <1>1, ReportedOnce
<1>2. CASE ~Poll
  <2>1. batch' \subseteq batch
    BY <1>2, BatchShrinks
  <2>2. \A e \in batch \ {Listener} : e.of \in Conns
    BY EventTypes DEF Listener
  <2>3. \A c \in Conns : client[c] = "closed" => client'[c] = "closed"
    BY NextIsConnStep, ClientsGoOn
  <2> QED BY <2>1, <2>2, <2>3 DEF OneEvent, ErrorsAnnounced
<1> QED BY <1>1, <1>2
-----------------------------------------------------------------------------
(* Descriptors 0 and 1, which the loop closes when it is left.             *)

StdHeld ==
    Running /\ loop # "left" =>
        /\ fds[0] = "std" /\ fds[1] = "std"
        /\ \A e \in batch \ {Listener} : e.fd \notin {0, 1}
        /\ \A f \in {0, 1} : ~Listed(ready, Body(f))
        /\ \A c \in Conns : dial[c].at = "dialling" => dial[c].fd \notin {0, 1}

\* A thread that dials does so on the descriptor it had, or on one that was free.
LEMMA DialsOn ==
  ASSUME ConnTypes, ConnStep, NEW c \in Conns, dial'[c].at = "dialling"
  PROVE  \/ dial[c].at = "dialling" /\ dial'[c].fd = dial[c].fd
         \/ fds[dial'[c].fd] = "free"
<1> DEFINE Goal == \/ dial[c].at = "dialling" /\ dial'[c].fd = dial[c].fd
                   \/ fds[dial'[c].fd] = "free"
<1>0. dial \in [Conns -> Dialled]
  BY DEF ConnTypes
<1>1. ASSUME dial' = dial PROVE Goal
  BY <1>1
<1>2. ASSUME NEW d \in Conns, NEW at \in {"started", "over"}, dial' = [dial EXCEPT ![d].at = at]
      PROVE  Goal
  <2>1. d # c
    BY <1>0, <1>2, DialFields
  <2>2. dial'[c] = dial[c]
    BY <1>0, <1>2, <2>1, DialFields
  <2> QED BY <2>2
<1>3. ASSUME NEW d \in Conns, FreeFds # {},
             dial' = [dial EXCEPT ![d] = [at |-> "dialling", fd |-> Lowest(FreeFds)]]
      PROVE  Goal
  <2>1. PICK fd \in Fds : fd = Lowest(FreeFds) /\ fds[fd] = "free"
    BY <1>3, OpenFd
  <2>2. dial'[d].fd = fd /\ \A b \in Conns : b # d => dial'[b] = dial[b]
    BY <1>0, <1>3, <2>1
  <2> QED BY <2>1, <2>2
<1>4. ASSUME NEW d \in Conns, DialOpens(d) \/ DialEnds(d)
      PROVE  Goal
  BY <1>2, <1>3, <1>4 DEF DialOpens, DialEnds
<1>5. ASSUME NEW d \in Conns, NEW n \in {BodyLen, Units}, Serves(d, n)
      PROVE  Goal
  BY <1>1, <1>2, <1>5 DEF Serves
<1>6. ~(\E how : Die(how))
  BY DEF Die, NoDial
<1>7. ASSUME NEW d \in Conns, \/ Connect(d) \/ HangUp(d) \/ Deliver(d)
                              \/ (\E r \in Requests : SendRequest(d, r)) \/ (\E n : Takes(d, n))
      PROVE  dial' = dial
  BY <1>7 DEF Connect, HangUp, Deliver, SendRequest, Takes, routineVars
<1>8. ASSUME AcceptOne \/ LeaveLoop
      PROVE  dial' = dial
  BY <1>8 DEF AcceptOne, LeaveLoop, routineVars
<1> HIDE DEF Goal
<1>9. Goal
  BY <1>1, <1>4, <1>5, <1>6, <1>7, <1>8 DEF ConnStep
<1> QED BY <1>9 DEF Goal

\* No coroutine comes to wait for a body on a descriptor that is not one of a
\* connection or of such a coroutine.
LEMMA NextKeepsBodies ==
  ASSUME ConnTypes, LoopTypes, StdHeld, loop # "left", [Next]_vars, Running', NEW f \in {0, 1}
  PROVE  ~Listed(ready', Body(f))
<1> DEFINE Free(s) == ~Listed(s, Body(f))
<1>0. Running /\ f \in Fds /\ Main \in Routines /\ Main # Body(f)
  BY NextKeepsQueue DEF Fds, Routines, Main, Body
<1>1. Free(ready)
  BY <1>0 DEF StdHeld
<1>2. ASSUME NEW s \in Seq(Routines), Free(s), NEW x \in Routines, x # Body(f)
      PROVE  Free(Append(s, x))
  BY <1>2, ListedAppend
<1>3. /\ Tail(ready) \in Seq(Routines) /\ Free(Tail(ready))
      /\ Head(ready) \in Routines /\ Head(ready) # Body(f)
  <2>1. ready \in Seq(Routines) /\ ready # <<>> /\ Tail(ready) \in Seq(Routines)
    BY <1>0, ReadyTypes DEF LoopTypes
  <2> QED BY <1>1, <2>1, ListedTail
<1>4. /\ Append(Tail(ready), Main) \in Seq(Routines) /\ Free(Append(Tail(ready), Main))
      /\ Free(Append(Tail(ready), Head(ready)))
  BY <1>0, <1>2, <1>3, AppendedSeq
<1> HIDE DEF Free
<1>5. ASSUME NEW g \in Fds, g # f, NEW skip, NEW s \in Seq(Routines), Free(s), RecvDoes(g, skip, s)
      PROVE  Free(ready')
  <2>1. Body(g) \in Routines /\ Relay(g) \in Routines
    BY DEF Routines
  <2>2. Body(g) # Body(f) /\ Relay(g) # Body(f)
    BY <1>0, <1>5, DifferentBodies DEF Relay, Body
  <2>3. ready' = s \/ ready' = Append(s, Body(g)) \/ ready' = Append(s, Relay(g))
    BY <1>5 DEF RecvDoes
  <2> QED BY <1>2, <1>5, <2>1, <2>2, <2>3
<1>6. ASSUME NEW e \in batch, ReadEvent(e)
      PROVE  Free(ready')
  <2>1. e.fd \in Fds /\ e # Listener
    BY <1>6, ReadEventDoes DEF Listener
  <2>2. e.fd # f
    BY <1>0, <2>1 DEF StdHeld
  <2> QED BY <1>4, <1>5, <1>6, <2>1, <2>2, ReadEventDoes
<1>7. ASSUME ResumeBody
      PROVE  Free(ready')
  <2>1. PICK g \in Fds : g = Head(ready).fd /\ Head(ready) = Body(g)
    BY <1>7, ResumeBodyDoes
  <2>2. g # f
    BY <1>3, <2>1
  <2> QED BY <1>3, <1>4, <1>5, <1>7, <2>1, <2>2, ResumeBodyDoes
<1>8. ASSUME Poll \/ ResumeRelay
      PROVE  Free(ready')
  BY <1>4, <1>8 DEF Poll, ResumeRelay
<1>9. ~(DeadlineOver \/ FieldMissing \/ Shutdown)
  BY DEF DeadlineOver, FieldMissing, Shutdown, Die, Running
<1>10. ASSUME \/ AcceptOne \/ AcceptFails \/ NextRound \/ LeaveLoop
              \/ Interrupt \/ (\E e \in batch : ErrorEvent(e) \/ ListenEvent(e)) \/ UNCHANGED vars
              \/ (\E d \in Conns, r \in Requests : SendRequest(d, r))
              \/ (\E d \in Conns : \/ Connect(d) \/ HangUp(d) \/ DialOpens(d) \/ DialEnds(d)
                                   \/ Deliver(d))
       PROVE  ready' = ready
  BY <1>10 DEF AcceptOne, AcceptFails, NextRound, LeaveLoop, Interrupt, ErrorEvent, ListenEvent,
               SendRequest, Connect, HangUp, DialOpens, DialEnds, Deliver, vars, routineVars
<1>11. ASSUME DaemonStep
       PROVE  Free(ready')
  BY <1>1, <1>6, <1>7, <1>8, <1>9, <1>10, <1>11 DEF DaemonStep
<1>12. Free(ready')
  BY <1>1, <1>10, <1>11 DEF Next, ThreadStep, ClientStep
<1> QED BY <1>12 DEF Free

\* The loop that was left is not entered again.
LEMMA LeftStays ==
  ASSUME [Next]_vars, loop = "left", Running'
  PROVE  loop' = "left"
<1>1. ~DaemonStep
  <2>1. ~(\E e \in batch : ErrorEvent(e) \/ ListenEvent(e) \/ ReadEvent(e))
    BY DEF ErrorEvent, ListenEvent, ReadEvent, AtEvent
  <2>2. ~(Poll \/ AcceptOne \/ AcceptFails \/ ResumeBody \/ ResumeRelay \/ NextRound \/ LeaveLoop)
    BY DEF Poll, AcceptOne, AcceptFails, ResumeBody, ResumeRelay, NextRound, LeaveLoop
  <2>3. ~(DeadlineOver \/ FieldMissing \/ Shutdown)
    BY DEF DeadlineOver, FieldMissing, Shutdown, Die, Running
  <2> QED BY <2>1, <2>2, <2>3 DEF DaemonStep
<1>2. ASSUME NEW c \in Conns, Deliver(c) \/ DialOpens(c) \/ DialEnds(c) \/ Connect(c)
                              \/ HangUp(c) \/ (\E r \in Requests : SendRequest(c, r))
      PROVE  loop' = loop
  BY <1>2 DEF Deliver, DialOpens, DialEnds, Connect, HangUp, SendRequest, loopVars
<1>3. ASSUME Interrupt \/ UNCHANGED vars PROVE loop' = loop
  BY <1>3 DEF Interrupt, vars, loopVars
<1> QED BY <1>1, <1>2, <1>3 DEF Next, ThreadStep, ClientStep

LEMMA NextKeepsStdHeld ==
  ASSUME ConnTypes, LoopTypes, StdHeld, [Next]_vars
  PROVE  StdHeld'
<1> SUFFICES ASSUME Running', loop' # "left"
             PROVE  /\ fds'[0] = "std" /\ fds'[1] = "std"
                    /\ \A e \in batch' \ {Listener} : e.fd \notin {0, 1}
                    /\ \A f \in {0, 1} : ~Listed(ready', Body(f))
                    /\ \A c \in Conns : dial'[c].at = "dialling" => dial'[c].fd \notin {0, 1}
  BY DEF StdHeld, Listed, Body
<1>1. Running /\ loop # "left" /\ ~LeaveLoop /\ ~(DeadlineOver \/ FieldMissing \/ Shutdown)
  <2>1. ~LeaveLoop /\ ~(DeadlineOver \/ FieldMissing \/ Shutdown)
    BY DEF DeadlineOver, FieldMissing, Shutdown, LeaveLoop, Die, Running
  <2> QED BY <2>1, NextKeepsQueue, LeftStays
<1>2. /\ fds[0] = "std" /\ fds[1] = "std" /\ 0 \in Fds /\ 1 \in Fds
      /\ \A e \in batch \ {Listener} : e.fd \notin {0, 1}
      /\ \A f \in {0, 1} : ~Listed(ready, Body(f))
      /\ \A c \in Conns : dial[c].at = "dialling" => dial[c].fd \notin {0, 1}
  BY <1>1 DEF StdHeld, Fds
<1>3. ASSUME NEW f \in {0, 1} PROVE fds'[f] = "std"
  <2>1. f \in Fds /\ fds[f] = "std"
    BY <1>2
  <2>2. ~EventAt(f)
    BY <1>2 DEF EventAt, ErrorEvent, ReadEvent, Listener
  <2>3. ~BodyAt(f)
    <3>1. ready \in Seq(Routines) /\ ready # <<>>
      BY <1>1, ReadyTypes DEF LoopTypes
    <3>2. Listed(ready, Head(ready))
      BY <3>1, ListedTail
    <3> QED BY <1>2, <3>2 DEF BodyAt
  <2>4. ~ThreadAt(f)
    BY <1>2 DEF ThreadAt, DialEnds
  <2> QED BY <1>1, <2>1, <2>2, <2>3, <2>4, StepOnDescriptors DEF DescriptorStep, Stays, Opens
<1>4. ASSUME NEW e \in batch' \ {Listener} PROVE e.fd \notin {0, 1}
  <2>1. CASE Poll
    <3>1. e \in Reported
      BY <1>4, <2>1 DEF Poll
    <3>2. PICK fd \in {f \in Fds : fds[f] \in edge /\ HasEvent(fds[f])} :
             e = [fd |-> fd, kind |-> IF sock[fds[fd]].rst THEN "err" ELSE "in", of |-> fds[fd]]
      BY <1>4, <3>1 DEF Reported
    <3>3. e.fd = fd /\ fds[fd] # "std"
      BY <3>2, ConnsAssumption DEF LoopTypes
    <3> QED BY <1>2, <3>3
  <2>2. CASE ~Poll
    BY <1>2, <1>4, <2>2, BatchShrinks
  <2> QED BY <2>1, <2>2
<1>5. ASSUME NEW f \in {0, 1} PROVE ~Listed(ready', Body(f))
  BY <1>1, NextKeepsBodies
<1>6. ASSUME NEW c \in Conns, dial'[c].at = "dialling" PROVE dial'[c].fd \notin {0, 1}
  BY <1>2, <1>6, NextIsConnStep, DialsOn
<1> QED BY <1>3, <1>4, <1>5, <1>6
-----------------------------------------------------------------------------
(* What closes a descriptor.                                               *)

EventsInv == OneEvent /\ ErrorsAnnounced /\ StdHeld

LEMMA EventsInvariant == Spec => []EventsInv
<1>1. Init => EventsInv
  <2> SUFFICES ASSUME Init PROVE EventsInv
    OBVIOUS
  <2>1. batch = {} /\ \A c \in Conns : dial[c].at = "none"
    BY DEF Init, NoDial
  <2>2. fds[0] = "std" /\ fds[1] = "std"
    BY DEF Init, Fds
  <2>3. \A f \in {0, 1} : ~Listed(ready, Body(f))
    <3>1. ready = <<Main>> /\ Len(ready) = 1 /\ \A i \in 1..1 : ready[i] = Main
      BY DEF Init
    <3> QED BY <3>1, DifferentBodies DEF Listed, Fds
  <2> QED BY <2>1, <2>2, <2>3 DEF EventsInv, OneEvent, ErrorsAnnounced, StdHeld
<1>2. ConnInv /\ EndsAnnounced /\ EventsInv /\ [Next]_vars => EventsInv'
  BY NextKeepsBatch, NextKeepsStdHeld DEF ConnInv, EventsInv
<1> QED BY <1>1, <1>2, ConnInvariant, HangUpsAnnounced, PTL DEF Spec

\* The step of StaleByBodyOnly.
StalesByBody ==
    \A e \in batch \ {Listener} :
        fds[e.fd] = e.of /\ e \in batch' /\ fds'[e.fd] # e.of => Waiting(e.fd) \/ Dialling(e.fd)

LEMMA StepStalesByBody ==
  ASSUME ConnTypes, LoopTypes, OneEvent, [Next]_vars
  PROVE  StalesByBody
<1> SUFFICES ASSUME NEW e \in batch \ {Listener},
                    fds[e.fd] = e.of, e \in batch', fds'[e.fd] # e.of
             PROVE  Waiting(e.fd) \/ Dialling(e.fd)
  BY DEF StalesByBody
<1>1. PICK f \in Fds : f = e.fd /\ fds[f] \in Conns
  BY EventTypes DEF Listener
<1>2. ~Stays(f) /\ ~Opens(f)
  BY <1>1, ConnsAssumption DEF Stays, Opens
<1>3. ~EventAt(f)
  <2> SUFFICES ASSUME NEW b \in batch, ErrorEvent(b) \/ ReadEvent(b), b.fd = f
               PROVE  FALSE
    BY DEF EventAt
  <2>1. b # Listener /\ batch' = batch \ {b}
    BY DEF ErrorEvent, ReadEvent, Listener
  <2> QED BY <1>1, <2>1 DEF OneEvent
<1>4. ~(LeaveLoop \/ DeadlineOver \/ FieldMissing)
  BY DEF LeaveLoop, DeadlineOver, FieldMissing
<1>5. ~Shutdown
  BY DEF Shutdown, LoopTypes
<1>6. BodyAt(f) => Waiting(f)
  BY DEF BodyAt, Waiting
<1>7. ThreadAt(f) => Dialling(f)
  BY DEF ThreadAt, DialEnds, Dialling
<1> QED BY <1>1, <1>2, <1>3, <1>4, <1>5, <1>6, <1>7, StepOnDescriptors DEF DescriptorStep

\* StaleByBodyOnly: however TCP cuts the frames, the descriptor of an event
\* that is still to be handled is closed by a coroutine that waits for a body
\* on it, or by a thread that dials on it, and by nothing else.
THEOREM DaemonStaleByBodyOnly == Spec => StaleByBodyOnly
<1>1. ConnInv /\ EventsInv /\ [Next]_vars => StalesByBody
  BY StepStalesByBody DEF ConnInv, EventsInv
<1>2. Spec => [][StalesByBody]_vars
  BY <1>1, ConnInvariant, EventsInvariant, PTL DEF Spec
<1> QED BY <1>2, PTL DEF StaleByBodyOnly, StalesByBody

\* A coroutine that starts and finds all of a valid request serves it.
LEMMA WholeIsServed ==
  ASSUME NEW e \in batch, ReadEvent(e), fds[e.fd] \in Conns, WholeRequest(fds[e.fd])
  PROVE  Stays(e.fd)
<1> DEFINE fd == e.fd
           rest == Append(Tail(ready), Main)
<1>1. PICK c \in Conns : c = fds[fd]
  OBVIOUS
<1>2. /\ sock[c].avail = HeadLen + BodyLen /\ sock[c].taken = 0
      /\ request[c].cmd \notin {"NOT_JSON", "NO_HEAD"}
  BY <1>1 DEF WholeRequest
<1>3. GoodHead(c)
  BY <1>2 DEF GoodHead, HeadLen, BodyLen
<1>4. Received(fd, HeadLen) = BodyLen
  BY <1>1, <1>2 DEF Received, Least, HeadLen, BodyLen
<1>5. IsJson(fd, HeadLen)
  BY <1>1, <1>2, <1>4 DEF IsJson, HeadLen
<1>6. Dispatch(fd, request[c], rest) => Stays(fd)
  BY DEF Dispatch, Stays
<1>7. BodyLen # 0 /\ ~(BodyLen < BodyLen)
  BY DEF BodyLen
<1> QED BY <1>1, <1>3, <1>4, <1>5, <1>6, <1>7 DEF ReadEvent, RecvBody

\* The step of SparesUnread.
SparesWhole ==
    \A fd \in Fds :
        Running' /\ fds[fd] \in Conns /\ WholeRequest(fds[fd]) /\ fds'[fd] # fds[fd] =>
            \/ Waiting(fd) \/ Dialling(fd)
            \/ \E e \in batch : e.fd = fd /\ e.of # fds[fd]

LEMMA StepSparesWhole ==
  ASSUME ConnTypes, LoopTypes, EventsInv, [Next]_vars
  PROVE  SparesWhole
<1> SUFFICES ASSUME NEW f \in Fds, Running', fds[f] \in Conns, WholeRequest(fds[f]), ~Stays(f)
             PROVE  \/ Waiting(f) \/ Dialling(f)
                    \/ \E e \in batch : e.fd = f /\ e.of # fds[f]
  BY DEF SparesWhole, Stays
<1>1. ~Opens(f)
  BY ConnsAssumption DEF Opens
<1>2. ~(DeadlineOver \/ FieldMissing \/ Shutdown)
  BY DEF DeadlineOver, FieldMissing, Shutdown, Die, Running
<1>3. ~(LeaveLoop /\ f \in {0, 1})
  BY ConnsAssumption DEF EventsInv, StdHeld, LeaveLoop, Running
<1>4. EventAt(f) => \E e \in batch : e.fd = f /\ e.of # fds[f]
  <2> SUFFICES ASSUME NEW e \in batch, ErrorEvent(e) \/ ReadEvent(e), e.fd = f, e.of = fds[f]
               PROVE  FALSE
    BY DEF EventAt
  <2>1. CASE ReadEvent(e)
    BY <2>1, WholeIsServed
  <2>2. CASE ErrorEvent(e)
    <3>1. e # Listener /\ e.kind = "err"
      BY <2>2 DEF ErrorEvent, Listener
    <3>2. client[fds[f]] = "closed"
      BY <3>1 DEF EventsInv, ErrorsAnnounced
    <3> QED BY <3>2 DEF WholeRequest
  <2> QED BY <2>1, <2>2
<1>5. BodyAt(f) => Waiting(f)
  BY DEF BodyAt, Waiting
<1>6. ThreadAt(f) => Dialling(f)
  BY DEF ThreadAt, DialEnds, Dialling
<1> QED BY <1>1, <1>2, <1>3, <1>4, <1>5, <1>6, StepOnDescriptors DEF DescriptorStep

\* SparesUnread: however TCP cuts the frames, and however coroutines, events
\* and threads meet on a descriptor, a connection whose whole valid request is
\* there to be read is closed by one of the three only: a coroutine that waits
\* on its number, a thread that dials on it, an event of an earlier owner.
THEOREM DaemonSparesUnread == Spec => SparesUnread
<1>1. ConnInv /\ EventsInv /\ [Next]_vars => SparesWhole
  BY StepSparesWhole DEF ConnInv
<1>2. Spec => [][SparesWhole]_vars
  BY <1>1, ConnInvariant, EventsInvariant, PTL DEF Spec
<1> QED BY <1>2, PTL DEF SparesUnread, SparesWhole
=============================================================================
