----------------------------- MODULE Socks_proofs -----------------------------
(***************************************************************************)
(* The handshake of proxysocket.c, for any number of threads and of        *)
(* descriptors: its types, that no way out of it loses a descriptor, that  *)
(* a connection is returned only after the proxy said SUCCESS, when        *)
(* SIGPIPE can end the daemon, and that it implements the dialling threads *)
(* of Relay.                                                               *)
(***************************************************************************)
EXTENDS Socks, WellFoundedInduction, TLAPS

-----------------------------------------------------------------------------
(* The proxy's answers and the descriptors.                                *)

LEMMA FdsAreNotNoFd == NoFd \notin Fds
  BY SocksAssumption DEF NoFd, Fds

LEMMA LowestIsFree == ASSUME FreeFds # {}
                      PROVE  Lowest(FreeFds) \in FreeFds
<1>1. FreeFds \subseteq Nat
  BY SocksAssumption DEF FreeFds, Fds
<1> DEFINE R == {p \in Nat \X Nat : p[1] < p[2]}
<1>2. IsWellFoundedOn(R, Nat)
  BY NatLessThanWellFounded DEF OpToRel
<1>3. \E n \in FreeFds : \A m \in FreeFds : <<m, n>> \notin R
  BY <1>1, <1>2, WFMin
<1>4. ASSUME NEW m \in Nat, NEW n \in Nat, <<m, n>> \notin R
      PROVE  n <= m
  <2>1. <<m, n>> \in Nat \X Nat /\ ~(<<m, n>>[1] < <<m, n>>[2])
    BY <1>4
  <2> QED BY <2>1
<1> HIDE DEF R
<1>5. \E n \in FreeFds : \A m \in FreeFds : n <= m
  BY <1>1, <1>3, <1>4
<1> QED BY <1>5 DEF Lowest
-----------------------------------------------------------------------------
(* Descriptors: a thread has one from socket() on, and none before.        *)

Places == Dialling \cup {"idle", "lookup", "socket", "over", "exited"}
Before == {"idle", "lookup", "socket"}

OwnInv == /\ at \in [Dials -> Places]
          /\ sockOf \in [Dials -> Fds \cup {NoFd}]
          /\ fds \in [Fds -> Dials \cup {"free"}]
          /\ \A d \in Dials : at[d] \in Before => sockOf[d] = NoFd
          /\ OwnSocket

\* What a step of the thread of d does to the descriptors and to where it is.
Opens(d) == /\ at[d] = "socket" /\ FreeFds # {}
            /\ at' = [at EXCEPT ![d] = "connect"]
            /\ sockOf' = [sockOf EXCEPT ![d] = Lowest(FreeFds)]
            /\ fds' = [fds EXCEPT ![Lowest(FreeFds)] = d]
GoesOn(d) == \E place \in Places :
                /\ Goes(d, place)
                /\ \/ at[d] \in Dialling /\ place \in Dialling \cup {"over"}
                   \/ at[d] \in Before /\ place \in Before \cup {"over"}
                   \/ at[d] = "over" /\ place = "exited"
Moves(d) == \/ Opens(d) \/ GoesOn(d)
            \/ at[d] \in Dialling /\ Aborts(d)
            \/ UNCHANGED <<at, sockOf, fds>>

LEMMA PlacesApart == /\ Dialling \cap Before = {}
                     /\ {"over", "exited"} \cap (Dialling \cup Before) = {}
  BY DEF Dialling, Connected, Before

LEMMA ThreadMoves ==
  ASSUME NEW d \in Dials, Start(d) \/ ThreadStep(d) \/ ProxyStep(d)
  PROVE  Moves(d)
<1> USE DEF Moves, GoesOn, Places, Before, Dialling, Connected
<1>1. CASE Start(d) \/ Lookup(d) \/ ThreadExit(d)
  BY <1>1 DEF Start, Lookup, ThreadExit
<1>2. CASE Socket(d)
  BY <1>2 DEF Socket, Opens
<1>3. CASE Connect(d) \/ SendGreeting(d)
  BY <1>3 DEF Connect, SendGreeting
<1>4. CASE RecvMethod(d) \/ RecvGrant(d) \/ RecvStatus(d)
  BY <1>4 DEF RecvMethod, RecvGrant, RecvStatus, LosesConnection
<1>5. CASE SendLogin(d) \/ SendRequest(d)
  BY <1>5 DEF SendLogin, SendRequest, Killed
<1>6. CASE RecvAddressType(d) \/ RecvAddress(d) \/ RecvPort(d)
  BY <1>6 DEF RecvAddressType, RecvAddress, RecvPort, LosesConnection
<1>7. CASE RecvLength(d) \/ RecvName(d) \/ RecvEmptyName(d)
  BY <1>7 DEF RecvLength, RecvName, RecvEmptyName, LosesConnection
<1>8. CASE ProxyStep(d)
  BY <1>8 DEF ProxyStep, Answer, Drop
<1> QED BY <1>1, <1>2, <1>3, <1>4, <1>5, <1>6, <1>7, <1>8 DEF ThreadStep

LEMMA InitOwnInv == Init => OwnInv
  BY FdsAreNotNoFd DEF Init, OwnInv, OwnSocket, Places, Before, Dialling, Connected

\* However the threads interleave, what one opens or closes is its own.
LEMMA MovesKeepOwnInv ==
  ASSUME OwnInv, NEW d \in Dials, Moves(d)
  PROVE  OwnInv'
<1> USE FdsAreNotNoFd, SocksAssumption, PlacesApart
<1>1. CASE Opens(d)
  <2>1. Lowest(FreeFds) \in Fds /\ fds[Lowest(FreeFds)] = "free"
    BY <1>1, LowestIsFree DEF Opens, FreeFds
  <2>2. \A e \in Dials : sockOf[e] # Lowest(FreeFds)
    BY <2>1 DEF OwnInv, OwnSocket
  <2>3. "connect" \in Places /\ "connect" \in Dialling /\ "connect" \notin Before
    BY DEF Places, Dialling, Before
  <2> HIDE PlacesApart
  <2> QED BY <1>1, <2>1, <2>2, <2>3 DEF Opens, OwnInv, OwnSocket, Before
<1>2. CASE GoesOn(d)
  <2>1. PICK place \in Places :
          /\ Goes(d, place)
          /\ place \in Dialling => at[d] \in Dialling
          /\ place \in Before => at[d] \in Before
    BY <1>2 DEF GoesOn
  <2>2. sockOf' = sockOf /\ fds' = fds /\ at' \in [Dials -> Places]
    BY <2>1 DEF Goes, OwnInv
  <2>3. \A e \in Dials : /\ at'[e] \in Dialling => at[e] \in Dialling
                         /\ at'[e] \in Before => at[e] \in Before
    BY <2>1 DEF Goes, OwnInv
  <2> QED BY <2>2, <2>3 DEF OwnInv, OwnSocket
<1>3. CASE at[d] \in Dialling /\ Aborts(d)
  <2>1. sockOf[d] \in Fds /\ fds[sockOf[d]] = d
    BY <1>3 DEF OwnInv, OwnSocket
  <2>2. "over" \in Places
    BY DEF Places
  <2> QED BY <1>3, <2>1, <2>2 DEF Aborts, OwnInv, OwnSocket
<1>4. CASE UNCHANGED <<at, sockOf, fds>>
  BY <1>4 DEF OwnInv, OwnSocket
<1> QED BY <1>1, <1>2, <1>3, <1>4 DEF Moves

LEMMA OwnInvariant == Spec => []OwnInv
<1>1. OwnInv /\ [Next]_vars => OwnInv'
  <2> SUFFICES ASSUME OwnInv, [Next]_vars PROVE OwnInv'
    OBVIOUS
  <2>1. CASE Next
    BY <2>1, ThreadMoves, MovesKeepOwnInv DEF Next
  <2>2. CASE UNCHANGED vars
    BY <2>2 DEF vars, OwnInv, OwnSocket
  <2> QED BY <2>1, <2>2
<1> QED BY InitOwnInv, <1>1, PTL DEF Spec

\* Whatever the proxy does and however many threads dial, each descriptor is
\* open for the thread that works with it or returned it, and for no other.
THEOREM SocksOwnSocket == Spec => []OwnSocket
<1>1. OwnInv => OwnSocket
  BY DEF OwnInv
<1> QED BY <1>1, OwnInvariant, PTL
-----------------------------------------------------------------------------
(* Types.                                                                  *)

Items == Pairs \cup {Cut}

TrafficOK == /\ conn \in [Dials -> {"none", "open", "closed", "reset", "broken"}]
             /\ stream \in [Dials -> Seq(Items)]
             /\ asked \in [Dials -> {"nothing", "method", "grant", "connect"}]
             /\ initrecv \in [Dials -> Pairs]
             /\ granted \in [Dials -> BOOLEAN]
             /\ alive \in BOOLEAN

LEMMA OpaqueIsPair == Opaque \in Pairs
  BY SocksAssumption DEF Opaque, Pairs

LEMMA RepliesTyped ==
  ASSUME NEW question \in {"method", "grant", "connect"}, NEW reply \in Replies(question)
  PROVE  /\ reply \in Seq(Pairs) /\ Len(reply) > 0
         /\ question # "connect" => Len(reply) = 1
<1>1. \A a, b \in 0..5 \cup {255} : <<a, b>> \in Pairs
  <2>1. \A b \in 0..5 \cup {255} : b \in Bytes
    BY SocksAssumption
  <2> QED BY <2>1 DEF Pairs
<1>2. ASSUME NEW p \in Pairs, reply = <<p>>
      PROVE  reply \in Seq(Pairs) /\ Len(reply) = 1
  <2>1. <<p>> \in Seq(Pairs) /\ Len(<<p>>) = 1
    OBVIOUS
  <2> QED BY <1>2, <2>1
<1>3. ASSUME NEW p \in Pairs, NEW q \in Pairs, NEW r \in Pairs, NEW s \in Pairs, NEW u \in Pairs,
             reply = <<p, q, r, s>> \/ reply = <<p, q, r, s, u>>
      PROVE  reply \in Seq(Pairs) /\ Len(reply) > 0
  <2>1. <<p, q, r, s>> \in Seq(Pairs) /\ Len(<<p, q, r, s>>) > 0
    OBVIOUS
  <2>2. <<p, q, r, s, u>> \in Seq(Pairs) /\ Len(<<p, q, r, s, u>>) > 0
    OBVIOUS
  <2>3. CASE reply = <<p, q, r, s>>
    BY <2>1, <2>3
  <2>4. CASE reply = <<p, q, r, s, u>>
    BY <2>2, <2>4
  <2> QED BY <1>3, <2>3, <2>4
<1>4. CASE question \in {"method", "grant"}
  <2>1. \E p \in {<<5, 0>>, <<5, 2>>, <<5, 255>>, <<4, 0>>, <<1, 0>>, <<1, 5>>, <<1, 1>>} :
           reply = <<p>>
    BY <1>4 DEF Replies
  <2>2. /\ <<5, 0>> \in Pairs /\ <<5, 2>> \in Pairs /\ <<5, 255>> \in Pairs /\ <<4, 0>> \in Pairs
        /\ <<1, 0>> \in Pairs /\ <<1, 5>> \in Pairs /\ <<1, 1>> \in Pairs
    BY <1>1
  <2> QED BY <1>2, <2>1, <2>2
<1>5. CASE question = "connect"
  <2>1. \/ \E p \in {<<5, 1>>, <<5, 5>>, <<4, 0>>} : reply = <<p, <<0, 1>>, Opaque, Opaque>>
        \/ \E q \in {<<0, 1>>, <<0, 2>>, <<0, 4>>} : reply = <<<<5, 0>>, q, Opaque, Opaque>>
        \/ reply = <<<<5, 0>>, <<0, 3>>, <<0, 1>>, Opaque, Opaque>>
        \/ reply = <<<<5, 0>>, <<0, 3>>, <<0, 0>>, Opaque>>
    BY <1>5 DEF Replies
  <2>2. /\ <<5, 1>> \in Pairs /\ <<5, 5>> \in Pairs /\ <<4, 0>> \in Pairs
        /\ <<0, 1>> \in Pairs /\ <<0, 2>> \in Pairs /\ <<0, 4>> \in Pairs
    BY <1>1
  <2>3. <<5, 0>> \in Pairs /\ <<0, 3>> \in Pairs /\ <<0, 1>> \in Pairs /\ <<0, 0>> \in Pairs
    BY <1>1
  <2>4. CASE \E p \in {<<5, 1>>, <<5, 5>>, <<4, 0>>} : reply = <<p, <<0, 1>>, Opaque, Opaque>>
    BY <1>3, <1>5, <2>2, <2>4, OpaqueIsPair
  <2>5. CASE \E q \in {<<0, 1>>, <<0, 2>>, <<0, 4>>} : reply = <<<<5, 0>>, q, Opaque, Opaque>>
    BY <1>3, <1>5, <2>2, <2>3, <2>5, OpaqueIsPair
  <2>6. CASE reply = <<<<5, 0>>, <<0, 3>>, <<0, 1>>, Opaque, Opaque>>
    BY <1>3, <1>5, <2>3, <2>6, OpaqueIsPair
  <2>7. CASE reply = <<<<5, 0>>, <<0, 3>>, <<0, 0>>, Opaque>>
    BY <1>3, <1>5, <2>3, <2>7, OpaqueIsPair
  <2> QED BY <2>1, <2>4, <2>5, <2>6, <2>7
<1> QED BY <1>4, <1>5

\* What arrives of a reply that TCP may have cut.
Arrives(reply, whole) == IF whole = Len(reply) THEN reply
                         ELSE Append(SubSeq(reply, 1, whole), Cut)

LEMMA ArrivesTyped ==
  ASSUME NEW reply \in Seq(Pairs), Len(reply) > 0, NEW whole \in 0..Len(reply)
  PROVE  /\ Arrives(reply, whole) \in Seq(Items) /\ Arrives(reply, whole) # <<>>
         /\ Head(Arrives(reply, whole)) = IF whole > 0 THEN reply[1] ELSE Cut
         /\ Len(reply) = 1 => Len(Arrives(reply, whole)) = 1
<1>1. reply \in Seq(Items) /\ Cut \in Items /\ Len(reply) \in Nat
  BY DEF Items
<1>2. CASE whole = Len(reply)
  BY <1>1, <1>2 DEF Arrives
<1>3. CASE whole # Len(reply) /\ whole > 0
  <2>1. SubSeq(reply, 1, whole) \in Seq(Items) /\ Len(SubSeq(reply, 1, whole)) = whole
    BY <1>1, <1>3
  <2>2. SubSeq(reply, 1, whole)[1] = reply[1]
    BY <1>3
  <2>3. Len(reply) # 1
    <3>1. \A k \in Nat : whole \in 0..k /\ whole # k /\ whole > 0 => k # 1
      OBVIOUS
    <3> QED BY <1>1, <1>3, <3>1
  <2> QED BY <1>1, <1>3, <2>1, <2>2, <2>3 DEF Arrives
<1>4. CASE whole = 0
  <2>1. SubSeq(reply, 1, whole) = <<>>
    BY <1>4
  <2>2. Append(<<>>, Cut) = <<Cut>>
    OBVIOUS
  <2>3. Arrives(reply, whole) = Append(SubSeq(reply, 1, whole), Cut)
    BY <1>4 DEF Arrives
  <2>4. Arrives(reply, whole) = <<Cut>>
    BY <2>1, <2>2, <2>3, Zenon
  <2>5. <<Cut>> \in Seq(Items) /\ <<Cut>> # <<>> /\ Head(<<Cut>>) = Cut /\ Len(<<Cut>>) = 1
    BY <1>1
  <2>6. (IF whole > 0 THEN reply[1] ELSE Cut) = Cut
    BY <1>4
  <2> QED BY <2>4, <2>5, <2>6, Zenon
<1> QED BY <1>2, <1>3, <1>4

\* The bytes a thread takes, and what it keeps of them.
LEMMA ReadsTyped ==
  ASSUME TrafficOK, NEW d \in Dials
  PROVE  /\ Reads(d) => /\ Head(stream[d]) \in Pairs /\ conn' = conn
                        /\ stream' \in [Dials -> Seq(Items)]
         /\ FailsUnseen(d) => /\ conn' = [conn EXCEPT ![d] = "broken"]
                              /\ stream' = stream
         /\ LosesConnection(d) => UNCHANGED <<conn, stream, initrecv>>
         /\ ReadsPair(d) => initrecv' \in [Dials -> Pairs]
<1>1. stream[d] \in Seq(Items)
  BY DEF TrafficOK
<1>2. ASSUME Reads(d)
      PROVE  Head(stream[d]) \in Pairs /\ Tail(stream[d]) \in Seq(Items)
  BY <1>1, <1>2 DEF Reads, Items
<1> QED BY <1>2 DEF TrafficOK, Reads, Fails, FailsUnseen, FallsShort, LosesConnection, ReadsPair

LEMMA InitTrafficOK == Init => TrafficOK
<1>1. <<>> \in Seq(Items)
  OBVIOUS
<1> QED BY <1>1, OpaqueIsPair DEF Init, TrafficOK

LEMMA ThreadKeepsTrafficOK ==
  ASSUME TrafficOK, NEW d \in Dials, Start(d) \/ ThreadStep(d)
  PROVE  TrafficOK'
<1>1. CASE Start(d) \/ Lookup(d) \/ Socket(d) \/ ThreadExit(d)
  BY <1>1 DEF Start, Lookup, Socket, ThreadExit, TrafficOK
<1>2. CASE Connect(d)
  BY <1>2 DEF Connect, TrafficOK
<1>3. CASE SendGreeting(d) \/ SendLogin(d) \/ SendRequest(d)
  BY <1>3 DEF SendGreeting, SendLogin, SendRequest, Sent, Fails, Killed, TrafficOK
<1>4. CASE RecvMethod(d) \/ RecvGrant(d) \/ RecvStatus(d) \/ RecvAddressType(d)
  <2>1. LosesConnection(d) \/ ReadsPair(d)
    BY <1>4 DEF RecvMethod, RecvGrant, RecvStatus, RecvAddressType
  <2>2. UNCHANGED <<asked, granted, alive>>
    BY <1>4 DEF RecvMethod, RecvGrant, RecvStatus, RecvAddressType
  <2>3. ReadsPair(d) => Reads(d) \/ FailsUnseen(d)
    BY DEF ReadsPair
  <2> QED BY <2>1, <2>2, <2>3, ReadsTyped DEF TrafficOK
<1>5. CASE RecvAddress(d) \/ RecvLength(d) \/ RecvName(d) \/ RecvPort(d)
  <2>1. LosesConnection(d) \/ Reads(d) \/ FailsUnseen(d)
    BY <1>5 DEF RecvAddress, RecvLength, RecvName, RecvPort
  <2>2. UNCHANGED <<asked, initrecv, granted, alive>>
    BY <1>5 DEF RecvAddress, RecvLength, RecvName, RecvPort
  <2> QED BY <2>1, <2>2, ReadsTyped DEF TrafficOK
<1>6. CASE RecvEmptyName(d)
  BY <1>6, ReadsTyped DEF RecvEmptyName, TrafficOK
<1> QED BY <1>1, <1>2, <1>3, <1>4, <1>5, <1>6 DEF ThreadStep

\* What an answer adds to the stream.
LEMMA AnswerArrives ==
  ASSUME TrafficOK, NEW d \in Dials, Answer(d)
  PROVE  \E reply \in Replies(asked[d]) : \E whole \in 0..Len(reply) :
           /\ reply \in Seq(Pairs) /\ Len(reply) > 0
           /\ asked[d] # "connect" => Len(reply) = 1
           /\ stream' = [stream EXCEPT ![d] = @ \o Arrives(reply, whole)]
           /\ granted' = [granted EXCEPT
                  ![d] = @ \/ (asked[d] = "connect" /\ reply[1] = <<5, 0>> /\ whole > 0)]
<1>1. asked[d] \in {"method", "grant", "connect"}
  BY DEF Answer, TrafficOK
<1> QED BY <1>1, RepliesTyped DEF Answer, Arrives

LEMMA ProxyKeepsTrafficOK ==
  ASSUME TrafficOK, NEW d \in Dials, ProxyStep(d)
  PROVE  TrafficOK'
<1>1. CASE Drop(d)
  BY <1>1 DEF Drop, TrafficOK
<1>2. CASE Answer(d)
  <2>1. \E reply \in Seq(Pairs) : \E whole \in 0..Len(reply) :
          /\ Len(reply) > 0
          /\ stream' = [stream EXCEPT ![d] = @ \o Arrives(reply, whole)]
          /\ granted' \in [Dials -> BOOLEAN]
    BY <1>2, AnswerArrives DEF TrafficOK
  <2>2. PICK more \in Seq(Items) : stream' = [stream EXCEPT ![d] = @ \o more]
    BY <2>1, ArrivesTyped
  <2>3. stream[d] \o more \in Seq(Items)
    BY DEF TrafficOK
  <2>4. stream' \in [Dials -> Seq(Items)]
    BY <2>2, <2>3 DEF TrafficOK
  <2> QED BY <1>2, <2>1, <2>4 DEF Answer, TrafficOK
<1> QED BY <1>1, <1>2 DEF ProxyStep

LEMMA TrafficInvariant == Spec => []TrafficOK
<1>1. TrafficOK /\ [Next]_vars => TrafficOK'
  <2> SUFFICES ASSUME TrafficOK, [Next]_vars PROVE TrafficOK'
    OBVIOUS
  <2>1. CASE Next
    BY <2>1, ThreadKeepsTrafficOK, ProxyKeepsTrafficOK DEF Next
  <2>2. CASE UNCHANGED vars
    BY <2>2 DEF vars, TrafficOK
  <2> QED BY <2>1, <2>2
<1> QED BY InitTrafficOK, <1>1, PTL DEF Spec

\* Every variable of the handshake keeps its type.
THEOREM SocksTypeCorrect == Spec => []TypeOK
<1>1. OwnInv /\ TrafficOK => TypeOK
  BY DEF OwnInv, TrafficOK, TypeOK, Places, Items
<1> QED BY <1>1, OwnInvariant, TrafficInvariant, PTL
-----------------------------------------------------------------------------
(* Answers: what can be under way at each place of the handshake.          *)

Unasked == {"idle", "lookup", "socket", "connect", "greet"}
Granted == {"atyp", "address", "length", "name", "empty", "port"}

\* The thread has sent nothing that the proxy could answer.
Silent(d) == stream[d] = <<>> /\ asked[d] = "nothing"
\* Behind the method, a lost connection shows by the answer that never came.
Sends(d) == /\ stream[d] = <<>>
            /\ asked[d] = IF conn[d] = "broken" THEN "method" ELSE "nothing"
\* The answer to the question is under way, has arrived, or will not come.
Waits(d) == \/ stream[d] = <<>> /\ conn[d] # "broken" /\ asked[d] = at[d]
            \/ stream[d] = <<>> /\ conn[d] = "broken" /\ asked[d] = "nothing"
            \/ Len(stream[d]) = 1 /\ conn[d] # "broken" /\ asked[d] = "nothing"
\* So for the command, whose answer begins with SUCCESS only if it is granted.
WaitsForStatus(d) ==
    /\ asked[d] \in {"connect", "nothing"}
    /\ \/ stream[d] = <<>>
       \/ asked[d] = "nothing" /\ (granted[d] \/ Head(stream[d]) # <<5, 0>>)
\* Behind the status nothing more can be read when it was stale.
GrantedOrLost(d) == granted[d] \/ (conn[d] = "broken" /\ stream[d] = <<>>)

Stage(d) == /\ at[d] \in Unasked => Silent(d)
            /\ at[d] \in {"login", "request"} => Sends(d)
            /\ at[d] \in {"method", "grant"} => Waits(d)
            /\ at[d] \in {"login", "grant"} => initrecv[d][2] = SOCKS5_METHOD_LOGIN
            /\ at[d] = "status" => WaitsForStatus(d)
            /\ at[d] \in Granted => GrantedOrLost(d)
            /\ at[d] \in {"over", "exited"} => (sockOf[d] = NoFd \/ granted[d])

TypesInv == OwnInv /\ TrafficOK
StageInv == \A d \in Dials : Stage(d)

\* A thread touches what is its own, and so does the proxy for it.
LEMMA StepIsLocal ==
  ASSUME TypesInv, NEW d \in Dials, NEW e \in Dials, e # d,
         Start(d) \/ ThreadStep(d) \/ ProxyStep(d)
  PROVE  /\ at'[e] = at[e] /\ sockOf'[e] = sockOf[e] /\ conn'[e] = conn[e]
         /\ stream'[e] = stream[e] /\ asked'[e] = asked[e]
         /\ initrecv'[e] = initrecv[e] /\ granted'[e] = granted[e]
<1>1. at'[e] = at[e] /\ sockOf'[e] = sockOf[e]
  BY ThreadMoves DEF TypesInv, OwnInv, Moves, Opens, GoesOn, Goes, Aborts
<1> HIDE DEF TypesInv
<1>t. TrafficOK
  BY DEF TypesInv
<1>2. CASE Start(d) \/ Lookup(d) \/ Socket(d) \/ ThreadExit(d) \/ Connect(d)
  BY <1>t, <1>1, <1>2 DEF Start, Lookup, Socket, ThreadExit, Connect, TrafficOK
<1>3. CASE SendGreeting(d) \/ SendLogin(d) \/ SendRequest(d)
  BY <1>t, <1>1, <1>3 DEF SendGreeting, SendLogin, SendRequest, Sent, Fails, Killed, TrafficOK
<1>4. CASE RecvMethod(d) \/ RecvGrant(d) \/ RecvStatus(d) \/ RecvAddressType(d)
  BY <1>t, <1>1, <1>4 DEF RecvMethod, RecvGrant, RecvStatus, RecvAddressType, LosesConnection,
       FallsShort, ReadsPair, Reads, FailsUnseen, Fails, TrafficOK
<1>5. CASE RecvAddress(d) \/ RecvLength(d) \/ RecvName(d) \/ RecvPort(d) \/ RecvEmptyName(d)
  BY <1>t, <1>1, <1>5 DEF RecvAddress, RecvLength, RecvName, RecvPort, RecvEmptyName,
       LosesConnection, FallsShort, Reads, FailsUnseen, Fails, TrafficOK
<1>6. CASE ProxyStep(d)
  BY <1>t, <1>1, <1>6 DEF ProxyStep, Answer, Drop, TrafficOK
<1> QED BY <1>2, <1>3, <1>4, <1>5, <1>6 DEF ThreadStep

LEMMA OthersKeepStage ==
  ASSUME TypesInv, StageInv, NEW d \in Dials, Start(d) \/ ThreadStep(d) \/ ProxyStep(d),
         NEW e \in Dials, e # d
  PROVE  Stage(e)'
<1>1. Stage(e)
  BY DEF StageInv
<1> QED BY <1>1, StepIsLocal
        DEF Stage, Silent, Sends, Waits, WaitsForStatus, GrantedOrLost
\* Where the thread of d is after a step that goes on to place.
LEMMA GoesStage ==
  ASSUME TypesInv, NEW d \in Dials, NEW place, Goes(d, place)
  PROVE  at'[d] = place /\ sockOf'[d] = sockOf[d]
  BY DEF TypesInv, OwnInv, Goes

\* A way out with the socket closed keeps every promise.
LEMMA AbortsStage ==
  ASSUME TypesInv, NEW d \in Dials, Aborts(d)
  PROVE  Stage(d)'
<1>1. at'[d] = "over" /\ sockOf'[d] = NoFd
  BY DEF TypesInv, OwnInv, Aborts
<1> QED BY <1>1 DEF Stage, Unasked, Granted

\* What a recv() does to the connection of d.
LEMMA ReadsStage ==
  ASSUME TypesInv, NEW d \in Dials
  PROVE  /\ Reads(d) => /\ stream[d] # <<>> /\ stream'[d] = Tail(stream[d])
                        /\ conn'[d] = conn[d]
                        /\ Len(stream[d]) = 1 => stream'[d] = <<>>
         /\ FailsUnseen(d) => /\ stream[d] = <<>> /\ stream'[d] = <<>>
                              /\ conn[d] = "reset" /\ conn'[d] = "broken"
         /\ ReadsPair(d) => \/ Reads(d) /\ initrecv'[d] = Head(stream[d])
                            \/ FailsUnseen(d) /\ (initrecv'[d] = initrecv[d] \/ at[d] = "method")
<1>1. stream[d] \in Seq(Items) /\ Len(stream[d]) \in Nat
  BY DEF TypesInv, TrafficOK
<1>2. Len(stream[d]) = 1 => Tail(stream[d]) = <<>>
  <2>1. ASSUME NEW s \in Seq(Items), Len(s) = 0 PROVE s = <<>>
    BY <2>1
  <2>2. ASSUME NEW s \in Seq(Items), Len(s) = 1 PROVE Tail(s) \in Seq(Items) /\ Len(Tail(s)) = 0
    <3>1. s # <<>>
      BY <2>2
    <3>2. Len(Tail(s)) = Len(s) - 1 /\ Tail(s) \in Seq(Items)
      BY <3>1
    <3> QED BY <2>2, <3>2
  <2> QED BY <1>1, <2>1, <2>2
<1> QED BY <1>1, <1>2 DEF TypesInv, TrafficOK, Reads, FailsUnseen, Fails, ReadsPair

LEMMA StartStage ==
  ASSUME TypesInv, NEW d \in Dials, Stage(d),
         Start(d) \/ Lookup(d) \/ Socket(d) \/ Connect(d) \/ ThreadExit(d)
  PROVE  Stage(d)'
<1> USE DEF Unasked, Granted
<1>1. CASE Start(d)
  BY <1>1, GoesStage DEF Start, Stage, Silent
<1>2. CASE Lookup(d)
  <2>1. sockOf[d] = NoFd
    BY <1>2 DEF Lookup, TypesInv, OwnInv, Before
  <2> QED BY <1>2, <2>1, GoesStage DEF Lookup, Stage, Silent
<1>3. CASE Socket(d)
  <2>1. sockOf[d] = NoFd
    BY <1>3 DEF Socket, TypesInv, OwnInv, Before
  <2>2. CASE Goes(d, "over")
    BY <1>3, <2>1, <2>2, GoesStage DEF Socket, Stage
  <2>3. CASE at' = [at EXCEPT ![d] = "connect"]
    <3>1. at'[d] = "connect"
      BY <2>3 DEF TypesInv, OwnInv
    <3> QED BY <1>3, <3>1 DEF Socket, Stage, Silent
  <2> QED BY <1>3, <2>2, <2>3 DEF Socket
<1>4. CASE Connect(d)
  <2>1. CASE Goes(d, "greet")
    BY <1>4, <2>1, GoesStage DEF Connect, Stage, Silent
  <2> QED BY <1>4, <2>1, AbortsStage DEF Connect
<1>5. CASE ThreadExit(d)
  BY <1>5, GoesStage DEF ThreadExit, Stage
<1> QED BY <1>1, <1>2, <1>3, <1>4, <1>5

LEMMA SendStage ==
  ASSUME TypesInv, NEW d \in Dials, Stage(d), SendGreeting(d) \/ SendLogin(d) \/ SendRequest(d)
  PROVE  Stage(d)'
<1> USE DEF Unasked, Granted
<1>1. /\ \A question : Sent(d, question) => asked'[d] = question /\ conn'[d] = conn[d]
                                            /\ conn[d] # "broken"
      /\ Fails(d) => conn[d] = "reset" /\ conn'[d] = "broken"
  BY DEF Sent, Fails, TypesInv, TrafficOK
<1>2. CASE SendGreeting(d)
  BY <1>1, <1>2, GoesStage DEF SendGreeting, Stage, Silent, Waits
<1>3. CASE SendLogin(d)
  <2>1. CASE Killed(d)
    BY <1>3, <2>1 DEF SendLogin, Killed, Stage, Sends
  <2>2. CASE Goes(d, "grant")
    BY <1>1, <1>3, <2>2, GoesStage DEF SendLogin, Stage, Sends, Waits, Killed
  <2> QED BY <1>3, <2>1, <2>2 DEF SendLogin
<1>4. CASE SendRequest(d)
  <2>1. CASE Killed(d)
    BY <1>4, <2>1 DEF SendRequest, Killed, Stage, Sends
  <2>2. CASE Goes(d, "status") /\ Sent(d, "connect")
    BY <1>1, <1>4, <2>2, GoesStage DEF SendRequest, Stage, Sends, WaitsForStatus
  <2> QED BY <1>4, <2>1, <2>2, AbortsStage DEF SendRequest
<1> QED BY <1>2, <1>3, <1>4

LEMMA RecvStage ==
  ASSUME TypesInv, NEW d \in Dials, Stage(d), RecvMethod(d) \/ RecvGrant(d) \/ RecvStatus(d)
  PROVE  Stage(d)'
<1> USE DEF Unasked, Granted
<1>1. CASE LosesConnection(d)
  BY <1>1, AbortsStage DEF LosesConnection
<1>2. CASE Aborts(d)
  BY <1>2, AbortsStage
<1>3. CASE RecvMethod(d) /\ ReadsPair(d) /\ ~Aborts(d)
  <2>1. Waits(d) /\ asked'[d] = asked[d] /\ at[d] = "method"
    BY <1>3 DEF RecvMethod, Stage
  <2>2. Sends(d)'
    BY <1>3, <2>1, ReadsStage DEF Waits, Sends
  <2>3. CASE Goes(d, "request")
    BY <2>2, <2>3, GoesStage DEF Stage
  <2>4. CASE initrecv'[d][2] = SOCKS5_METHOD_LOGIN /\ Goes(d, "login")
    BY <2>2, <2>4, GoesStage DEF Stage
  <2> QED BY <1>1, <1>3, <2>3, <2>4 DEF RecvMethod
<1>4. CASE RecvGrant(d) /\ ReadsPair(d) /\ ~Aborts(d)
  <2>1. /\ Waits(d) /\ asked'[d] = asked[d] /\ at[d] = "grant"
        /\ initrecv[d][2] = SOCKS5_METHOD_LOGIN
    BY <1>4 DEF RecvGrant, Stage
  <2>2. CASE Goes(d, "request") /\ initrecv'[d] = <<1, 0>>
    <3>1. initrecv'[d] # initrecv[d]
      BY <2>1, <2>2 DEF SOCKS5_METHOD_LOGIN
    <3>2. Sends(d)'
      BY <1>4, <2>1, <3>1, ReadsStage DEF Waits, Sends
    <3> QED BY <2>2, <3>2, GoesStage DEF Stage
  <2> QED BY <1>1, <1>4, <2>2 DEF RecvGrant
<1>5. CASE RecvStatus(d) /\ ReadsPair(d) /\ ~Aborts(d)
  <2>1. WaitsForStatus(d) /\ granted'[d] = granted[d]
    BY <1>5 DEF RecvStatus, Stage
  <2>2. CASE Goes(d, "atyp") /\ initrecv'[d] = <<5, 0>>
    <3>1. GrantedOrLost(d)'
      BY <1>5, <2>1, <2>2, ReadsStage DEF WaitsForStatus, GrantedOrLost
    <3> QED BY <2>2, <3>1, GoesStage DEF Stage
  <2> QED BY <1>1, <1>5, <2>2 DEF RecvStatus, SOCKS5_VERSION, SOCKS5_STATUS_SUCCESS
<1> QED BY <1>1, <1>2, <1>3, <1>4, <1>5 DEF RecvMethod, RecvGrant, RecvStatus

LEMMA RecvAddressStage ==
  ASSUME TypesInv, NEW d \in Dials, Stage(d),
         \/ RecvAddressType(d) \/ RecvAddress(d) \/ RecvLength(d)
         \/ RecvName(d) \/ RecvEmptyName(d) \/ RecvPort(d)
  PROVE  Stage(d)'
<1> USE DEF Granted
<1>1. at[d] \in Granted /\ GrantedOrLost(d) /\ granted'[d] = granted[d]
  BY DEF RecvAddressType, RecvAddress, RecvLength, RecvName, RecvEmptyName, RecvPort, Stage
<1>2. CASE Aborts(d)
  BY <1>2, AbortsStage
<1>3. CASE ~Aborts(d)
  <2>1. \/ Reads(d) \/ FailsUnseen(d)
        \/ at[d] = "empty" /\ Goes(d, "port") /\ UNCHANGED <<stream, conn>>
    BY <1>3 DEF RecvAddressType, RecvAddress, RecvLength, RecvName, RecvEmptyName, RecvPort,
                LosesConnection, ReadsPair
  <2>2. GrantedOrLost(d)'
    BY <1>1, <2>1, ReadsStage DEF GrantedOrLost
  <2>3. Goes(d, "over") => Reads(d) \/ FailsUnseen(d)
    BY <2>1, GoesStage
  <2>4. \E place \in Granted \cup {"over"} : Goes(d, place)
    BY <1>3 DEF RecvAddressType, RecvAddress, RecvLength, RecvName, RecvEmptyName, RecvPort,
                LosesConnection
  <2>5. Goes(d, "over") => granted'[d]
    BY <1>1, <2>3, ReadsStage DEF GrantedOrLost
  <2> QED BY <2>2, <2>4, <2>5, GoesStage DEF Stage, Unasked
<1> QED BY <1>2, <1>3

LEMMA ProxyStage ==
  ASSUME TypesInv, NEW d \in Dials, Stage(d), ProxyStep(d)
  PROVE  Stage(d)'
<1> USE DEF Unasked, Granted
<1>1. CASE Drop(d)
  <2>1. conn[d] = "open" /\ conn'[d] # "broken"
    BY <1>1 DEF Drop, TypesInv, TrafficOK
  <2> QED BY <1>1, <2>1 DEF Drop, Stage, Silent, Sends, Waits, WaitsForStatus, GrantedOrLost
<1>2. CASE Answer(d)
  <2>1. /\ conn[d] = "open" /\ conn' = conn /\ asked[d] # "nothing" /\ asked'[d] = "nothing"
        /\ at' = at /\ sockOf' = sockOf /\ initrecv' = initrecv
    BY <1>2 DEF Answer, TypesInv, TrafficOK
  <2>2. PICK reply \in Replies(asked[d]) : \E whole \in 0..Len(reply) :
           /\ reply \in Seq(Pairs) /\ Len(reply) > 0
           /\ asked[d] # "connect" => Len(reply) = 1
           /\ stream' = [stream EXCEPT ![d] = @ \o Arrives(reply, whole)]
           /\ granted' = [granted EXCEPT
                  ![d] = @ \/ (asked[d] = "connect" /\ reply[1] = <<5, 0>> /\ whole > 0)]
    BY <1>2, AnswerArrives DEF TypesInv
  <2>3. PICK whole \in 0..Len(reply) :
           /\ stream' = [stream EXCEPT ![d] = @ \o Arrives(reply, whole)]
           /\ granted' = [granted EXCEPT
                  ![d] = @ \/ (asked[d] = "connect" /\ reply[1] = <<5, 0>> /\ whole > 0)]
    BY <2>2
  <2>4. /\ stream'[d] = stream[d] \o Arrives(reply, whole)
        /\ granted[d] => granted'[d]
        /\ asked[d] = "connect" /\ reply[1] = <<5, 0>> /\ whole > 0 => granted'[d]
    BY <2>3 DEF TypesInv, TrafficOK
  <2>5. /\ Arrives(reply, whole) \in Seq(Items) /\ Arrives(reply, whole) # <<>>
        /\ Head(Arrives(reply, whole)) = IF whole > 0 THEN reply[1] ELSE Cut
        /\ asked[d] # "connect" => Len(Arrives(reply, whole)) = 1
    BY <2>2, <2>3, ArrivesTyped
  <2>6. stream[d] = <<>> => stream'[d] = Arrives(reply, whole)
    BY <2>4, <2>5
  <2>7. Cut # <<5, 0>>
    BY DEF Cut
  <2>8. at[d] \notin Unasked \cup {"login", "request"}
    BY <2>1 DEF Stage, Silent, Sends
  <2>9. at[d] \in {"method", "grant"} => Waits(d)'
    BY <2>1, <2>5, <2>6 DEF Stage, Waits
  <2>10. at[d] = "status" => WaitsForStatus(d)'
    BY <2>1, <2>4, <2>5, <2>6, <2>7 DEF Stage, WaitsForStatus
  <2>11. at[d] \in Granted => GrantedOrLost(d)'
    BY <2>1, <2>4 DEF Stage, GrantedOrLost
  <2> QED BY <2>1, <2>4, <2>8, <2>9, <2>10, <2>11 DEF Stage
<1> QED BY <1>1, <1>2 DEF ProxyStep

LEMMA StageInvariant == Spec => [](TypesInv /\ StageInv)
<1>1. Init => StageInv
  <2> SUFFICES ASSUME Init, NEW d \in Dials PROVE Stage(d)
    BY DEF StageInv
  <2>1. at[d] = "idle" /\ stream[d] = <<>> /\ asked[d] = "nothing"
    BY DEF Init
  <2>2. at[d] \in Unasked /\ at[d] \notin Granted
    BY <2>1 DEF Unasked, Granted
  <2> QED BY <2>1, <2>2 DEF Stage, Silent
<1>2. TypesInv /\ StageInv /\ [Next]_vars => StageInv'
  <2> SUFFICES ASSUME TypesInv, StageInv, [Next]_vars PROVE StageInv'
    OBVIOUS
  <2>1. ASSUME NEW d \in Dials, Start(d) \/ ThreadStep(d) \/ ProxyStep(d)
        PROVE  Stage(d)'
    <3>1. Stage(d)
      BY DEF StageInv
    <3> QED BY <2>1, <3>1, StartStage, SendStage, RecvStage, RecvAddressStage, ProxyStage
            DEF ThreadStep
  <2>2. CASE Next
    BY <2>1, <2>2, OthersKeepStage DEF Next, StageInv
  <2>3. CASE UNCHANGED vars
    BY <2>3 DEF vars, StageInv, Stage, Silent, Sends, Waits, WaitsForStatus, GrantedOrLost
  <2> QED BY <2>2, <2>3
<1>3. OwnInv /\ TrafficOK => TypesInv
  BY DEF TypesInv
<1> QED BY <1>1, <1>2, <1>3, OwnInvariant, TrafficInvariant, PTL DEF Spec

\* A connection is returned only after the proxy said SUCCESS to this thread,
\* though a recv() that fails goes unseen and leaves old bytes in its place.
THEOREM SocksOnlyAfterSuccess == Spec => []OnlyAfterSuccess
<1>1. StageInv => OnlyAfterSuccess
  BY DEF StageInv, Stage, OnlyAfterSuccess
<1> QED BY <1>1, StageInvariant, PTL
-----------------------------------------------------------------------------
(* SIGPIPE.                                                                *)

\* A thread whose next send() kills the process lost its connection before
\* the method came.
LEMMA KilledByMethod ==
  ASSUME StageInv, NEW d \in Dials, Start(d) \/ ThreadStep(d) \/ ProxyStep(d), alive, ~alive'
  PROVE  KilledByMethodOnly'
<1>1. Killed(d) /\ at[d] \in {"login", "request"}
  BY DEF Start, ThreadStep, Lookup, Socket, Connect, SendGreeting, RecvMethod, SendLogin,
         RecvGrant, SendRequest, RecvStatus, RecvAddressType, RecvAddress, RecvLength, RecvName,
         RecvEmptyName, RecvPort, ThreadExit, ProxyStep, Answer, Drop, Sent
<1>2. conn[d] = "broken" /\ asked[d] = "method"
  BY <1>1 DEF Killed, StageInv, Stage, Sends
<1> QED BY <1>1, <1>2 DEF Killed, KilledByMethodOnly

\* Wherever the proxy dies, only a connection lost before its method was chosen
\* can end the daemon.
THEOREM SocksKilledByMethodOnly == Spec => []KilledByMethodOnly
<1>1. Init => KilledByMethodOnly
  BY DEF Init, KilledByMethodOnly
<1>2. StageInv /\ KilledByMethodOnly /\ [Next]_vars => KilledByMethodOnly'
  <2> SUFFICES ASSUME StageInv, KilledByMethodOnly, [Next]_vars PROVE KilledByMethodOnly'
    OBVIOUS
  <2>1. CASE Next
    <3>1. CASE alive'
      BY <3>1 DEF KilledByMethodOnly
    <3> QED BY <2>1, <3>1, KilledByMethod DEF Next
  <2>2. CASE UNCHANGED vars
    BY <2>2 DEF vars, KilledByMethodOnly
  <2> QED BY <2>1, <2>2
<1> QED BY <1>1, <1>2, StageInvariant, PTL DEF Spec
-----------------------------------------------------------------------------
(* The handshake as one step of the relay's thread.                        *)

RoutineAt(place) == IF place = "idle" THEN "idle" ELSE "waiting"
PointerAt(place) == IF place = "idle" THEN "NULL" ELSE "set"
OwnAt(place) == IF place \in {"idle", "exited"} THEN "NULL" ELSE "set"
ThreadAt(place) == CASE place = "idle" -> "none"
                     [] place \in {"lookup", "socket"} -> "started"
                     [] place \in Dialling -> "dialling"
                     [] place = "over" -> "dialled"
                     [] place = "exited" -> "exited"

\* The variables of Relay, as Socks has them.
Routine == [d \in Dials |-> RoutineAt(at[d])]
Pointer == [d \in Dials |-> PointerAt(at[d])]
Own == [d \in Dials |-> OwnAt(at[d])]
Thread == [d \in Dials |-> ThreadAt(at[d])]

LEMMA ThreadPlaces == /\ ThreadAt("idle") = "none" /\ ThreadAt("lookup") = "started"
                      /\ ThreadAt("socket") = "started"
                      /\ \A place \in Dialling : ThreadAt(place) = "dialling"
                      /\ ThreadAt("over") = "dialled" /\ ThreadAt("exited") = "exited"
  BY DEF ThreadAt, Dialling, Connected

LEMMA MapFollows ==
  ASSUME OwnInv, NEW d \in Dials, NEW place, at' = [at EXCEPT ![d] = place]
  PROVE  /\ Routine' = [Routine EXCEPT ![d] = RoutineAt(place)]
         /\ Pointer' = [Pointer EXCEPT ![d] = PointerAt(place)]
         /\ Own' = [Own EXCEPT ![d] = OwnAt(place)]
         /\ Thread' = [Thread EXCEPT ![d] = ThreadAt(place)]
<1> at \in [Dials -> Places] /\ \A e \in Dials : at'[e] = IF e = d THEN place ELSE at[e]
  BY DEF OwnInv
<1> QED BY DEF Routine, Pointer, Own, Thread

LEMMA MapMoves ==
  ASSUME OwnInv, NEW d \in Dials, NEW place, at[d] # "idle", place # "idle",
         at' = [at EXCEPT ![d] = place]
  PROVE  /\ Routine' = Routine /\ Pointer' = Pointer
         /\ at[d] # "exited" /\ place # "exited" => Own' = Own
         /\ Thread' = [Thread EXCEPT ![d] = ThreadAt(place)]
<1>1. \A e \in Dials : RoutineAt(at[e])' = RoutineAt(at[e]) /\ PointerAt(at[e])' = PointerAt(at[e])
  BY DEF OwnInv, RoutineAt, PointerAt
<1>2. Routine' = Routine /\ Pointer' = Pointer
  BY <1>1 DEF Routine, Pointer
<1>3. ASSUME at[d] # "exited", place # "exited" PROVE Own' = Own
  <2>1. \A e \in Dials : OwnAt(at[e])' = OwnAt(at[e])
    BY <1>3 DEF OwnInv, OwnAt
  <2> QED BY <2>1 DEF Own
<1> QED BY <1>2, <1>3, MapFollows

\* The steps of Relay on these variables.
LEMMA RelaySteps ==
  ASSUME NEW d \in Dials, Routine' = Routine, Pointer' = Pointer
  PROVE  /\ Own' = Own =>
              /\ Thread[d] = "started" /\ Thread' = [Thread EXCEPT ![d] = "dialled"]
                   /\ UNCHANGED <<sockOf, fds>> => Tor!DialOpens(d)
              /\ Thread[d] = "started" /\ Thread' = [Thread EXCEPT ![d] = "dialling"]
                   /\ FreeFds # {} /\ sockOf' = [sockOf EXCEPT ![d] = Lowest(FreeFds)]
                   /\ fds' = [fds EXCEPT ![Lowest(FreeFds)] = d] => Tor!DialOpens(d)
              /\ Thread[d] = "dialling" /\ Thread' = [Thread EXCEPT ![d] = "dialled"]
                   /\ UNCHANGED <<sockOf, fds>> => Tor!DialSucceeds(d)
              /\ Thread[d] = "dialling" /\ Thread' = [Thread EXCEPT ![d] = "dialled"]
                   /\ fds' = [fds EXCEPT ![sockOf[d]] = "free"]
                   /\ sockOf' = [sockOf EXCEPT ![d] = NoFd] => Tor!DialFails(d)
              /\ Thread' = Thread /\ UNCHANGED <<sockOf, fds>> => UNCHANGED Tor!vars
         /\ Thread[d] = "dialled" /\ Thread' = [Thread EXCEPT ![d] = "exited"]
              /\ Own' = [Own EXCEPT ![d] = "NULL"]
              /\ UNCHANGED <<sockOf, fds>> => Tor!ThreadExit(d)
<1> USE DEF Routine, Pointer, Own, Thread, RoutineAt, PointerAt, OwnAt, ThreadAt
<1>1. /\ Tor!FreeFds = FreeFds /\ Tor!NoFd = NoFd
      /\ Tor!Lowest(FreeFds) = Lowest(FreeFds)
  BY DEF Tor!FreeFds, FreeFds, Tor!Fds, Fds, Tor!NoFd, NoFd, Tor!Lowest, Lowest
<1>2. Own' = Own /\ Thread[d] = "started" /\ Thread' = [Thread EXCEPT ![d] = "dialled"]
              /\ UNCHANGED <<sockOf, fds>> => Tor!DialOpens(d)
  BY DEF Tor!DialOpens
<1>3. Own' = Own /\ Thread[d] = "started" /\ Thread' = [Thread EXCEPT ![d] = "dialling"]
              /\ FreeFds # {} /\ sockOf' = [sockOf EXCEPT ![d] = Lowest(FreeFds)]
              /\ fds' = [fds EXCEPT ![Lowest(FreeFds)] = d] => Tor!DialOpens(d)
  BY <1>1 DEF Tor!DialOpens
<1>4. Own' = Own /\ Thread[d] = "dialling" /\ Thread' = [Thread EXCEPT ![d] = "dialled"]
              /\ UNCHANGED <<sockOf, fds>> => Tor!DialSucceeds(d)
  BY DEF Tor!DialSucceeds
<1>5. Own' = Own /\ Thread[d] = "dialling" /\ Thread' = [Thread EXCEPT ![d] = "dialled"]
              /\ fds' = [fds EXCEPT ![sockOf[d]] = "free"]
              /\ sockOf' = [sockOf EXCEPT ![d] = NoFd] => Tor!DialFails(d)
  BY <1>1 DEF Tor!DialFails
<1>6. Thread[d] = "dialled" /\ Thread' = [Thread EXCEPT ![d] = "exited"]
              /\ Own' = [Own EXCEPT ![d] = "NULL"]
              /\ UNCHANGED <<sockOf, fds>> => Tor!ThreadExit(d)
  BY DEF Tor!ThreadExit
<1>7. Own' = Own /\ Thread' = Thread /\ UNCHANGED <<sockOf, fds>> => UNCHANGED Tor!vars
  BY DEF Tor!vars
<1> QED BY <1>2, <1>3, <1>4, <1>5, <1>6, <1>7

\* A step of a thread is a step of the relay's thread, or none.
LEMMA StepImplementsRelay ==
  ASSUME OwnInv, NEW d \in Dials, Start(d) \/ ThreadStep(d) \/ ProxyStep(d)
  PROVE  Tor!Next \/ UNCHANGED Tor!vars
<1>t. Thread[d] = ThreadAt(at[d]) /\ Routine[d] = RoutineAt(at[d])
  BY DEF Thread, Routine
<1>n. /\ Tor!Start(d) => Tor!Next
      /\ Tor!DialOpens(d) \/ Tor!DialSucceeds(d) \/ Tor!DialFails(d) \/ Tor!ThreadExit(d)
            => Tor!Next
  BY DEF Tor!Next, Tor!ThreadStep
<1>over. ASSUME at[d] # "idle", at[d] # "exited", at' = [at EXCEPT ![d] = "over"]
         PROVE  /\ Routine' = Routine /\ Pointer' = Pointer /\ Own' = Own
                /\ Thread' = [Thread EXCEPT ![d] = "dialled"]
  <2>1. "over" # "idle" /\ "over" # "exited" /\ ThreadAt("over") = "dialled"
    BY ThreadPlaces
  <2>2. /\ Thread' = [Thread EXCEPT ![d] = ThreadAt("over")]
        /\ Routine' = Routine /\ Pointer' = Pointer /\ Own' = Own
    BY <1>over, <2>1, MapMoves
  <2> QED BY <2>1, <2>2
<1>1. CASE Start(d)
  <2>1. at[d] = "idle" /\ at' = [at EXCEPT ![d] = "lookup"] /\ UNCHANGED <<sockOf, fds>>
    BY <1>1 DEF Start, Goes
  <2>2. /\ Routine[d] = "idle" /\ Routine' = [Routine EXCEPT ![d] = "waiting"]
        /\ Pointer' = [Pointer EXCEPT ![d] = "set"] /\ Own' = [Own EXCEPT ![d] = "set"]
        /\ Thread' = [Thread EXCEPT ![d] = "started"]
    <3>1. /\ RoutineAt("idle") = "idle" /\ RoutineAt("lookup") = "waiting"
          /\ PointerAt("lookup") = "set" /\ OwnAt("lookup") = "set"
      BY DEF RoutineAt, PointerAt, OwnAt
    <3>2. /\ Routine' = [Routine EXCEPT ![d] = RoutineAt("lookup")]
          /\ Pointer' = [Pointer EXCEPT ![d] = PointerAt("lookup")]
          /\ Own' = [Own EXCEPT ![d] = OwnAt("lookup")]
          /\ Thread' = [Thread EXCEPT ![d] = ThreadAt("lookup")]
      BY <2>1, MapFollows
    <3> QED BY <2>1, <1>t, <3>1, <3>2, ThreadPlaces
  <2>3. Tor!Start(d)
    BY <2>1, <2>2
       DEF Tor!Start, Routine, Pointer, Own, Thread, RoutineAt, PointerAt, OwnAt, ThreadAt
  <2> QED BY <2>3, <1>n
<1>2. ASSUME at[d] \in {"lookup", "socket"}, Goes(d, "over")
      PROVE  Tor!Next
  <2>1. /\ at[d] # "idle" /\ at[d] # "exited"
        /\ at' = [at EXCEPT ![d] = "over"] /\ UNCHANGED <<sockOf, fds>>
    BY <1>2 DEF Goes
  <2>2. ThreadAt(at[d]) = "started"
    BY <1>2, ThreadPlaces
  <2>3. /\ Routine' = Routine /\ Pointer' = Pointer /\ Own' = Own
        /\ Thread' = [Thread EXCEPT ![d] = "dialled"]
    BY <2>1, <1>over
  <2>4. Tor!DialOpens(d)
    BY <2>1, <2>2, <2>3, <1>t, RelaySteps
  <2> QED BY <2>4, <1>n
<1>3. ASSUME at[d] = "lookup", Goes(d, "socket")
      PROVE  UNCHANGED Tor!vars
  <2>0. /\ at[d] # "idle" /\ "socket" # "idle" /\ at[d] # "exited" /\ "socket" # "exited"
        /\ at' = [at EXCEPT ![d] = "socket"]
    BY <1>3 DEF Goes
  <2>1. /\ Routine' = Routine /\ Pointer' = Pointer /\ Own' = Own
        /\ Thread' = [Thread EXCEPT ![d] = ThreadAt("socket")] /\ ThreadAt("socket") = Thread[d]
    BY <1>3, <1>t, <2>0, MapMoves, ThreadPlaces
  <2>2. Thread' = Thread
    BY <2>1 DEF Thread
  <2> QED BY <1>3, <2>1, <2>2, RelaySteps DEF Goes
<1>4. CASE Opens(d)
  <2>1. /\ at[d] # "idle" /\ "connect" # "idle" /\ at[d] # "exited" /\ "connect" # "exited"
        /\ at' = [at EXCEPT ![d] = "connect"]
        /\ ThreadAt("connect") = "dialling" /\ Thread[d] = "started"
    BY <1>4, <1>t, ThreadPlaces DEF Opens, Dialling
  <2>2. /\ Routine' = Routine /\ Pointer' = Pointer /\ Own' = Own
        /\ Thread' = [Thread EXCEPT ![d] = ThreadAt("connect")]
    BY <2>1, MapMoves
  <2> QED BY <1>4, <2>1, <2>2, <1>n, RelaySteps DEF Opens
<1>5. ASSUME at[d] \in Dialling, NEW place \in Dialling, Goes(d, place)
      PROVE  UNCHANGED Tor!vars
  <2>1. at[d] # "idle" /\ place # "idle" /\ at[d] # "exited" /\ place # "exited"
    BY <1>5 DEF Dialling, Connected
  <2>0. at' = [at EXCEPT ![d] = place] /\ ThreadAt(place) = Thread[d]
    BY <1>5, <1>t, ThreadPlaces DEF Goes
  <2>2. /\ Routine' = Routine /\ Pointer' = Pointer /\ Own' = Own
        /\ Thread' = [Thread EXCEPT ![d] = ThreadAt(place)]
    BY <2>0, <2>1, MapMoves
  <2>3. Thread' = Thread
    BY <2>0, <2>2 DEF Thread
  <2> QED BY <1>5, <2>2, <2>3, RelaySteps DEF Goes
<1>6. ASSUME at[d] \in Dialling, Goes(d, "over") \/ Aborts(d)
      PROVE  Tor!Next
  <2>1. at[d] # "idle" /\ at[d] # "exited"
    BY <1>6 DEF Dialling, Connected
  <2>2. ThreadAt(at[d]) = "dialling"
    BY <1>6, ThreadPlaces
  <2>3. at' = [at EXCEPT ![d] = "over"]
    BY <1>6 DEF Goes, Aborts
  <2>4. /\ Routine' = Routine /\ Pointer' = Pointer /\ Own' = Own
        /\ Thread' = [Thread EXCEPT ![d] = "dialled"]
    BY <2>1, <2>3, <1>over
  <2>5. CASE Goes(d, "over")
    <3>1. UNCHANGED <<sockOf, fds>>
      BY <2>5 DEF Goes
    <3>2. Tor!DialSucceeds(d)
      BY <2>2, <2>4, <3>1, <1>t, RelaySteps
    <3> QED BY <3>2, <1>n
  <2>6. CASE Aborts(d)
    <3>1. fds' = [fds EXCEPT ![sockOf[d]] = "free"] /\ sockOf' = [sockOf EXCEPT ![d] = NoFd]
      BY <2>6 DEF Aborts
    <3>2. Tor!DialFails(d)
      BY <2>2, <2>4, <3>1, <1>t, RelaySteps
    <3> QED BY <3>2, <1>n
  <2> QED BY <1>6, <2>5, <2>6
<1>7. CASE ThreadExit(d)
  <2>1. at[d] = "over" /\ at' = [at EXCEPT ![d] = "exited"] /\ UNCHANGED <<sockOf, fds>>
    BY <1>7 DEF ThreadExit, Goes
  <2>2. at[d] # "idle" /\ "exited" # "idle" /\ ThreadAt(at[d]) = "dialled"
        /\ ThreadAt("exited") = "exited"
    BY <2>1, ThreadPlaces
  <2>3. /\ Routine' = Routine /\ Pointer' = Pointer
        /\ Thread' = [Thread EXCEPT ![d] = ThreadAt("exited")]
    BY <2>1, <2>2, MapMoves
  <2>5. Own' = [Own EXCEPT ![d] = "NULL"]
    <3>1. Own' = [Own EXCEPT ![d] = OwnAt("exited")] /\ OwnAt("exited") = "NULL"
      BY <2>1, MapFollows DEF OwnAt
    <3> QED BY <3>1
  <2>4. Tor!ThreadExit(d)
    BY <2>1, <2>2, <2>3, <2>5, <1>t, RelaySteps
  <2> QED BY <2>4, <1>n
<1>8. CASE UNCHANGED <<at, sockOf, fds>>
  <2>1. Thread' = Thread /\ Own' = Own /\ Routine' = Routine /\ Pointer' = Pointer
    BY <1>8 DEF Thread, Own, Routine, Pointer
  <2> QED BY <1>8, <2>1, RelaySteps
<1>9. CASE at[d] \in Dialling /\ Moves(d)
  <2>1. at[d] \notin Before /\ at[d] # "over" /\ at[d] # "socket"
    BY <1>9, PlacesApart DEF Before
  <2>2. CASE GoesOn(d)
    <3>1. \E place \in Dialling \cup {"over"} : Goes(d, place)
      BY <2>1, <2>2 DEF GoesOn
    <3> QED BY <1>5, <1>6, <1>9, <3>1
  <2> QED BY <1>6, <1>8, <1>9, <2>1, <2>2 DEF Moves, Opens
<1>10. CASE Lookup(d)
  BY <1>2, <1>3, <1>10 DEF Lookup
<1>11. CASE Socket(d)
  BY <1>2, <1>4, <1>11 DEF Socket, Opens
<1>12. Start(d) \/ Lookup(d) \/ Socket(d) \/ ThreadExit(d) \/ at[d] \in Dialling
  BY DEF ThreadStep, ProxyStep, Answer, Drop, Dialling, Connected, Connect, SendGreeting,
         RecvMethod, SendLogin, RecvGrant, SendRequest, RecvStatus, RecvAddressType, RecvAddress,
         RecvLength, RecvName, RecvEmptyName, RecvPort
<1> QED BY <1>1, <1>7, <1>9, <1>10, <1>11, <1>12, ThreadMoves

LEMMA InitImplementsRelay == Init => Tor!Init
<1> SUFFICES ASSUME Init PROVE Tor!Init
  OBVIOUS
<1>1. \A d \in Dials : at[d] = "idle"
  BY DEF Init
<1>2. /\ Routine = [d \in Dials |-> "idle"] /\ Pointer = [d \in Dials |-> "NULL"]
      /\ Own = [d \in Dials |-> "NULL"] /\ Thread = [d \in Dials |-> "none"]
  BY <1>1, ThreadPlaces DEF Routine, Pointer, Own, Thread, RoutineAt, PointerAt, OwnAt
<1>3. sockOf = [d \in Dials |-> Tor!NoFd] /\ fds = [fd \in Tor!Fds |-> "free"]
  BY DEF Init, Tor!NoFd, NoFd, Tor!Fds, Fds
<1> QED BY <1>2, <1>3
        DEF Tor!Init, Routine, Pointer, Own, Thread, RoutineAt, PointerAt, OwnAt, ThreadAt

\* However the proxy behaves and the threads interleave, the handshake is what
\* Relay takes for the dialling of its threads.
THEOREM SocksImplementsRelay == Spec => ImplementsRelay
<1>1. OwnInv /\ [Next]_vars => [Tor!Next]_(Tor!vars)
  <2> SUFFICES ASSUME OwnInv, [Next]_vars PROVE Tor!Next \/ UNCHANGED Tor!vars
    OBVIOUS
  <2>1. CASE Next
    BY <2>1, StepImplementsRelay DEF Next
  <2>2. CASE UNCHANGED vars
    BY <2>2 DEF vars, Tor!vars
  <2> QED BY <2>1, <2>2
<1> QED BY InitImplementsRelay, <1>1, OwnInvariant, PTL DEF Spec, ImplementsRelay, Tor!Spec
=============================================================================
