-------------------------- MODULE DaemonConns_proofs --------------------------
(***************************************************************************)
(* The connections of the daemon: its types, the requests that are served  *)
(* and the messages they bring or fetch, for any peers, texts, connections,         *)
(* requests, cuts of frames and descriptors.                               *)
(*                                                                         *)
(* ConnInv is the inductive invariant.  A connection is in the backlog, or *)
(* has one descriptor, or neither, and once it lost its place it gets none *)
(* (Places); what is in its socket, was taken and is under way is one      *)
(* frame at most (Traffic), so that a request is served when the whole     *)
(* frame was taken, and never again (Spent).                               *)
(***************************************************************************)
EXTENDS Daemon_proofs, SequenceTheorems, FiniteSetTheorems, WellFoundedInduction

-----------------------------------------------------------------------------
(* Queues.                                                                 *)

Listed(s, x) == \E i \in 1..Len(s) : s[i] = x
Distinct(s) == \A i, j \in 1..Len(s) : s[i] = s[j] => i = j

LEMMA AppendedSeq ==
  ASSUME NEW S, NEW s \in Seq(S), NEW x \in S
  PROVE  /\ Append(s, x) \in Seq(S) /\ Len(Append(s, x)) = Len(s) + 1 /\ Len(s) \in Nat
         /\ \A i \in 1..Len(s) : Append(s, x)[i] = s[i]
         /\ Append(s, x)[Len(s) + 1] = x
  OBVIOUS

LEMMA TailProperties ==
  ASSUME NEW S, NEW s \in Seq(S), s # <<>>
  PROVE  /\ Tail(s) \in Seq(S) /\ Len(Tail(s)) = Len(s) - 1 /\ Len(s) \in Nat /\ Len(s) > 0
         /\ \A i \in 1..(Len(s) - 1) : Tail(s)[i] = s[i + 1]
         /\ Head(s) = s[1] /\ Head(s) \in S
<1>1. Len(s) \in Nat /\ Len(s) > 0
  BY EmptySeq
<1>2. Tail(s) \in Seq(S) /\ Len(Tail(s)) = Len(s) - 1 /\ Head(s) \in S
  BY HeadTailProperties
<1>3. \A i \in 1..(Len(s) - 1) : Tail(s)[i] = s[i + 1]
  BY <1>2, HeadTailProperties
<1>4. Head(s) = s[1]
  BY <1>1
<1> QED BY <1>1, <1>2, <1>3, <1>4

\* What is listed behind a sequence, and what is behind its head.
LEMMA ListedAppend ==
  ASSUME NEW S, NEW s \in Seq(S), NEW x \in S
  PROVE  /\ \A y : Listed(Append(s, x), y) <=> Listed(s, y) \/ y = x
         /\ Distinct(s) /\ ~Listed(s, x) => Distinct(Append(s, x))
<1> DEFINE t == Append(s, x)
           n == Len(s)
<1>1. /\ Len(t) = n + 1 /\ n \in Nat /\ t[n + 1] = x
      /\ \A i \in 1..n : t[i] = s[i]
  BY AppendedSeq
<1>2. n = Len(s)
  OBVIOUS
<1> HIDE DEF t, n
<1>3. \A i \in 1..(n + 1) : i \in 1..n \/ i = n + 1
  BY <1>1
<1>4. n + 1 \in 1..(n + 1) /\ \A i \in 1..n : i \in 1..(n + 1)
  BY <1>1
<1>5. \A y : Listed(t, y) <=> Listed(s, y) \/ y = x
  BY <1>1, <1>2, <1>3, <1>4 DEF Listed
<1>6. Distinct(s) /\ ~Listed(s, x) => Distinct(t)
  BY <1>1, <1>2, <1>3 DEF Listed, Distinct
<1> QED BY <1>5, <1>6 DEF t

LEMMA ListedTail ==
  ASSUME NEW S, NEW s \in Seq(S), s # <<>>
  PROVE  /\ Listed(s, Head(s)) /\ Head(s) \in S
         /\ \A y : Listed(s, y) <=> Listed(Tail(s), y) \/ y = Head(s)
         /\ Distinct(s) => Distinct(Tail(s)) /\ ~Listed(Tail(s), Head(s))
<1> DEFINE t == Tail(s)
           n == Len(s)
<1>1. /\ Len(t) = n - 1 /\ n \in Nat /\ n > 0 /\ Head(s) = s[1] /\ Head(s) \in S
      /\ \A i \in 1..(n - 1) : t[i] = s[i + 1]
  BY TailProperties
<1>2. n = Len(s)
  OBVIOUS
<1> HIDE DEF t, n
<1>3. 1 \in 1..n /\ \A i \in 1..(n - 1) : i + 1 \in 1..n /\ i + 1 # 1
  BY <1>1
<1>4. \A i \in 1..n : i = 1 \/ (i - 1 \in 1..(n - 1) /\ (i - 1) + 1 = i)
  BY <1>1
<1>5. Listed(s, Head(s))
  BY <1>1, <1>2, <1>3 DEF Listed
<1>6. ASSUME NEW y PROVE Listed(s, y) <=> Listed(t, y) \/ y = Head(s)
  <2>1. ASSUME Listed(t, y) PROVE Listed(s, y)
    BY <1>1, <1>2, <1>3, <2>1 DEF Listed
  <2>2. ASSUME Listed(s, y), y # Head(s) PROVE Listed(t, y)
    <3>1. PICK i \in 1..n : s[i] = y
      BY <1>2, <2>2 DEF Listed
    <3>2. i - 1 \in 1..(n - 1) /\ t[i - 1] = y
      BY <1>1, <1>4, <2>2, <3>1
    <3> QED BY <1>1, <3>2 DEF Listed
  <2> QED BY <1>5, <2>1, <2>2
<1>7. ASSUME Distinct(s) PROVE Distinct(t) /\ ~Listed(t, Head(s))
  <2>1. ASSUME NEW i \in 1..(n - 1), NEW j \in 1..(n - 1), t[i] = t[j] PROVE i = j
    <3>1. s[i + 1] = s[j + 1] /\ i + 1 \in 1..n /\ j + 1 \in 1..n
      BY <1>1, <1>3, <2>1
    <3>2. i + 1 = j + 1
      BY <1>2, <1>7, <3>1 DEF Distinct
    <3> QED BY <3>2
  <2>2. ASSUME NEW i \in 1..(n - 1), t[i] = Head(s) PROVE FALSE
    <3>1. s[i + 1] = s[1] /\ i + 1 \in 1..n /\ 1 \in 1..n /\ i + 1 # 1
      BY <1>1, <1>3, <2>2
    <3> QED BY <1>2, <1>7, <3>1 DEF Distinct
  <2> QED BY <1>1, <2>1, <2>2 DEF Distinct, Listed
<1> QED BY <1>1, <1>5, <1>6, <1>7 DEF t
-----------------------------------------------------------------------------
(* Segments under way.                                                     *)

LEMMA CarriesNothing == ASSUME NEW n \in Nat PROVE Carries(<<>>, n)
<1> DEFINE left == [i \in 1..(Len(<<>>) + 1) |-> 0]
<1>1. left \in [1..(Len(<<>>) + 1) -> 0..n]
  OBVIOUS
<1>2. \A i \in 1..Len(<<>>) : FALSE
  OBVIOUS
<1> QED BY <1>1, <1>2, Zenon DEF Carries

\* An end of the connection carries nothing of the frame.
LEMMA CarriesEnd ==
  ASSUME NEW S, S \subseteq Int, NEW w \in Seq(S), NEW n \in Nat, Carries(w, n),
         NEW e \in S, e <= 0
  PROVE  Carries(Append(w, e), n)
<1> DEFINE m == Len(w)
           v == Append(w, e)
<1>1. m \in Nat /\ Len(v) = m + 1 /\ v[m + 1] = e /\ \A i \in 1..m : v[i] = w[i]
  BY AppendedSeq
<1>2. PICK left \in [1..(m + 1) -> 0..n] :
         \A i \in 1..m, j \in 1..(m + 1) :
            i < j => left[j] <= left[i] /\ (w[i] > 0 => left[j] + w[i] <= left[i])
  BY DEF Carries
<1> HIDE DEF m, v
<1> DEFINE more == [i \in 1..((m + 1) + 1) |-> IF i = m + 2 THEN left[m + 1] ELSE left[i]]
<1>3. \A i \in 1..((m + 1) + 1) :
         /\ i = m + 2 => more[i] = left[m + 1]
         /\ i # m + 2 => i \in 1..(m + 1) /\ more[i] = left[i]
  BY <1>1
<1>4. ASSUME NEW i \in 1..(m + 1), NEW j \in 1..((m + 1) + 1), i < j
      PROVE  more[j] <= more[i] /\ (v[i] > 0 => more[j] + v[i] <= more[i])
  <2>1. CASE i = m + 1
    <3>1. j = m + 2 /\ i # m + 2 /\ left[m + 1] \in 0..n
      BY <1>1, <1>4, <2>1
    <3>2. more[j] = left[m + 1] /\ more[i] = left[m + 1] /\ ~(v[i] > 0)
      BY <1>1, <1>3, <2>1, <3>1
    <3> QED BY <3>1, <3>2
  <2>2. CASE i # m + 1
    <3>1. i \in 1..m /\ i # m + 2 /\ v[i] = w[i]
      BY <1>1, <2>2
    <3>2. more[i] = left[i]
      BY <1>1, <1>3, <3>1
    <3>3. \E k \in 1..(m + 1) : i < k /\ more[j] = left[k]
      <4>1. CASE j = m + 2
        BY <1>1, <1>3, <3>1, <4>1
      <4>2. CASE j # m + 2
        BY <1>1, <1>3, <1>4, <4>2
      <4> QED BY <4>1, <4>2
    <3> QED BY <1>2, <3>1, <3>2, <3>3
  <2> QED BY <2>1, <2>2
<1>5. more \in [1..((m + 1) + 1) -> 0..n]
  BY <1>1
<1> HIDE DEF more
<1>6. \E l \in [1..((m + 1) + 1) -> 0..n] :
         \A i \in 1..(m + 1), j \in 1..((m + 1) + 1) :
            i < j => l[j] <= l[i] /\ (v[i] > 0 => l[j] + v[i] <= l[i])
  BY <1>4, <1>5
<1> QED BY <1>1, <1>6 DEF Carries, v

\* The first segment arrives: the others carry that much less.
LEMMA CarriesTail ==
  ASSUME NEW S, S \subseteq Int, NEW w \in Seq(S), NEW n \in Nat, Carries(w, n), w # <<>>
  PROVE  /\ Head(w) > 0 => Head(w) <= n /\ Carries(Tail(w), n - Head(w))
         /\ Carries(Tail(w), n)
<1> DEFINE m == Len(w)
           v == Tail(w)
           h == Head(w)
<1>1. /\ m \in Nat /\ m > 0 /\ Len(v) = m - 1 /\ \A i \in 1..(m - 1) : v[i] = w[i + 1]
      /\ h = w[1] /\ h \in Int
  BY TailProperties
<1>2. PICK left \in [1..(m + 1) -> 0..n] :
         \A i \in 1..m, j \in 1..(m + 1) :
            i < j => left[j] <= left[i] /\ (w[i] > 0 => left[j] + w[i] <= left[i])
  BY DEF Carries
<1> HIDE DEF m, v, h
<1> DEFINE Fits(k) == \E l \in [1..((m - 1) + 1) -> 0..k] :
              \A i \in 1..(m - 1), j \in 1..((m - 1) + 1) :
                 i < j => l[j] <= l[i] /\ (v[i] > 0 => l[j] + v[i] <= l[i])
           rest == [i \in 1..((m - 1) + 1) |-> left[i + 1]]
<1>3. \A i \in 1..((m - 1) + 1) : rest[i] = left[i + 1] /\ i + 1 \in 1..(m + 1)
  BY <1>1
<1>4. ASSUME NEW i \in 1..(m - 1), NEW j \in 1..((m - 1) + 1), i < j
      PROVE  rest[j] <= rest[i] /\ (v[i] > 0 => rest[j] + v[i] <= rest[i])
  <2>1. /\ i + 1 \in 1..m /\ j + 1 \in 1..(m + 1) /\ i + 1 < j + 1
        /\ v[i] = w[i + 1]
    BY <1>1, <1>4
  <2>2. rest[j] = left[j + 1] /\ rest[i] = left[i + 1]
    BY <1>1, <1>3
  <2> QED BY <1>2, <2>1, <2>2
<1>5. rest \in [1..((m - 1) + 1) -> 0..n]
  BY <1>3
<1>6. ASSUME h > 0 PROVE h <= n /\ rest \in [1..((m - 1) + 1) -> 0..(n - h)]
  <2>1. 1 \in 1..m /\ 1 \in 1..(m + 1) /\ 2 \in 1..(m + 1) /\ left[1] \in 0..n
    BY <1>1
  <2>2. \A j \in 1..(m + 1) : 1 < j => left[j] + h <= left[1] /\ left[j] \in 0..n
    BY <1>1, <1>2, <1>6, <2>1
  <2>3. h <= n /\ \A j \in 1..(m + 1) : 1 < j => left[j] \in 0..(n - h)
    BY <1>1, <2>1, <2>2
  <2>4. \A i \in 1..((m - 1) + 1) : left[i + 1] \in 0..(n - h)
    BY <1>1, <2>3
  <2> QED BY <2>3, <2>4
<1> HIDE DEF rest
<1>7. Fits(n) /\ (h > 0 => h <= n /\ Fits(n - h))
  BY <1>4, <1>5, <1>6
<1>8. \A k : Fits(k) => Carries(v, k)
  BY <1>1 DEF Carries
<1> QED BY <1>7, <1>8 DEF v, h
-----------------------------------------------------------------------------
(* What a step does to the connections.                                    *)

Units == HeadLen + BodyLen

\* A descriptor is closed.
Closes(fd) == CloseFd(fd) /\ UNCHANGED <<client, request, replies, wire, backlog>>

\* A coroutine took n units of c.
Takes(c, n) == /\ Consume(c, n)
               /\ UNCHANGED <<client, request, replies, wire, backlog, fds, edge, dial>>

\* A coroutine took the last n units of the frame of c, and served the request.
Serves(c, n) ==
    /\ sock[c].taken + n = Units /\ n \in {BodyLen, Units} /\ n <= sock[c].avail
    /\ Consume(c, n)
    /\ \/ UNCHANGED <<replies, wire>>
       \/ \E answer : Reply(c, answer)
    /\ dial' = dial \/ (request[c].cmd = "SEND" /\ dial' = [dial EXCEPT ![c].at = "started"])
    /\ UNCHANGED <<client, request, backlog, fds, edge>>

\* The switch of event_routine answers what was asked, or nothing.
LEMMA DispatchAnswers ==
  ASSUME NEW fd, NEW r, NEW rest, Dispatch(fd, r, rest)
  PROVE  /\ \/ UNCHANGED <<replies, wire>>
            \/ \E answer : Reply(fds[fd], answer)
         /\ dial' = dial \/ (r.cmd = "SEND" /\ dial' = [dial EXCEPT ![fds[fd]].at = "started"])
         /\ ready' = rest \/ ready' = Append(rest, Relay(fd))
         /\ UNCHANGED <<client, request, backlog, fds, edge>>
<1> DEFINE c == fds[fd]
<1>1. CASE StoreIt(r) \/ Exit(r) \/ Ignore(r)
  <2>1. UNCHANGED <<replies, wire, dial>>
    BY <1>1 DEF StoreIt, Exit, Ignore
  <2> QED BY <2>1 DEF Dispatch
<1>2. CASE Send(c, r)
  <2>1. /\ UNCHANGED <<replies, wire>> /\ r.cmd = "SEND"
        /\ dial' = [dial EXCEPT ![c].at = "started"]
    BY <1>2 DEF Send
  <2> QED BY <2>1 DEF Dispatch
<1>3. CASE GetPeers(c, r)
  <2> DEFINE answer == [cmd |-> "GET_PEERS", id |-> r.id, msg |-> Store!GetPeerList]
  <2>1. Reply(c, answer) /\ dial' = dial
    BY <1>3 DEF GetPeers
  <2> HIDE DEF answer
  <2> QED BY <2>1 DEF Dispatch
<1>4. CASE Host(c, r)
  <2> DEFINE answer == [cmd |-> "HOST", id |-> r.id, msg |-> "hostname"]
  <2>1. Reply(c, answer) /\ dial' = dial
    BY <1>4 DEF Host
  <2> HIDE DEF answer
  <2> QED BY <2>1 DEF Dispatch
<1>5. CASE Update(c, r)
  <2> DEFINE given == [cmd |-> "RECV", id |-> r.msg, msg |-> Head(queue[r.msg])]
             none == [cmd |-> "END", id |-> r.msg, msg |-> r.msg]
  <2>1. (Reply(c, given) \/ Reply(c, none)) /\ dial' = dial
    BY <1>5 DEF Update
  <2> HIDE DEF given, none
  <2> QED BY <2>1 DEF Dispatch
<1> QED BY <1>1, <1>2, <1>3, <1>4, <1>5 DEF Dispatch

\* A turn of torchatproto_mrecv on fd, and where its coroutine goes.
RecvDoes(fd, skip, rest) ==
    \/ Closes(fd) /\ dial' = dial /\ ready' = rest
    \/ \E n \in Nat : /\ n < BodyLen /\ skip + n <= sock[fds[fd]].avail
                      /\ n = Received(fd, skip)
                      /\ Takes(fds[fd], skip + n)
                      /\ ready' = Append(rest, Body(fd))
    \/ /\ Serves(fds[fd], skip + BodyLen)
       /\ ready' = rest \/ ready' = Append(rest, Relay(fd))

LEMMA DispatchServes ==
  ASSUME NEW fd, NEW skip \in {0, HeadLen}, NEW rest,
         sock[fds[fd]].avail \in Nat, skip <= sock[fds[fd]].avail,
         sock[fds[fd]].taken \in Nat, IsJson(fd, skip),
         Consume(fds[fd], skip + Received(fd, skip)), Dispatch(fd, request[fds[fd]], rest)
  PROVE  Serves(fds[fd], skip + BodyLen) /\ (ready' = rest \/ ready' = Append(rest, Relay(fd)))
<1> DEFINE c == fds[fd]
           n == Received(fd, skip)
<1>1. n \in 0..BodyLen /\ skip + n <= sock[c].avail
  BY DEF Received, Least, HeadLen, BodyLen
<1>2. n = BodyLen /\ sock[c].taken + skip = HeadLen
  BY DEF IsJson
<1>3. /\ sock[c].taken + (skip + BodyLen) = Units /\ skip + BodyLen \in {BodyLen, Units}
      /\ skip + BodyLen <= sock[c].avail
  BY <1>1, <1>2 DEF HeadLen, BodyLen, Units
<1>4. Consume(c, skip + BodyLen)
  BY <1>2
<1> QED BY <1>3, <1>4, DispatchAnswers DEF Serves

LEMMA RecvBodyDoes ==
  ASSUME NEW fd, NEW skip \in {0, HeadLen}, NEW rest,
         sock[fds[fd]].avail \in Nat, skip <= sock[fds[fd]].avail,
         sock[fds[fd]].taken \in Nat, RecvBody(fd, skip, rest)
  PROVE  RecvDoes(fd, skip, rest)
<1> DEFINE c == fds[fd]
           n == Received(fd, skip)
<1>1. n \in 0..BodyLen /\ skip + n <= sock[c].avail
  BY DEF Received, Least, HeadLen, BodyLen
<1>2. CASE Refuse(fd, rest)
  BY <1>2 DEF Refuse, RecvDoes, Closes, clientVars
<1>3. CASE /\ n < BodyLen /\ Consume(c, skip + n) /\ ready' = Append(rest, Body(fd))
           /\ UNCHANGED <<clientVars, wire, backlog, fds, edge, exitFlag, dial, storeVars>>
  <2>1. n \in Nat
    BY <1>1 DEF BodyLen
  <2>2. Takes(c, skip + n)
    BY <1>3 DEF Takes, clientVars
  <2> QED BY <1>1, <1>3, <2>1, <2>2 DEF RecvDoes
<1>4. CASE IsJson(fd, skip) /\ Consume(c, skip + n) /\ Dispatch(fd, request[c], rest)
  <2>1. Serves(c, skip + BodyLen) /\ (ready' = rest \/ ready' = Append(rest, Relay(fd)))
    BY <1>4, DispatchServes
  <2> QED BY <2>1 DEF RecvDoes
<1> QED BY <1>2, <1>3, <1>4 DEF RecvBody
-----------------------------------------------------------------------------
(* Types.                                                                  *)

Event(fd, kind, c) == [fd |-> fd, kind |-> kind, of |-> c]
IsEvent(e) == \E fd \in Fds, kind \in {"in", "err"}, c \in Conns : e = Event(fd, kind, c)
Routines == {Main} \cup {Body(fd) : fd \in Fds} \cup {Relay(fd) : fd \in Fds}

Sockets == [avail : Nat, taken : Nat, fin : BOOLEAN, rst : BOOLEAN]

Dialled == [at : {"none", "started", "dialling", "over"}, fd : Fds \cup {-1}]

LoopTypes ==
    /\ loop \in {"wait", "run", "accept", "left", "stopped", "aborted", "threw"}
    /\ edge \subseteq Conns \cup {"listener"}
    /\ \A e \in batch : e = Listener \/ IsEvent(e)
    /\ loop \in {"wait", "left"} => batch = {}
    /\ ready \in Seq(Routines)
    /\ Running => Listed(ready, Main)

ConnTypes ==
    /\ client \in [Conns -> {"idle", "open", "closed"}]
    /\ RequestInv
    /\ replies = [c \in Conns |-> replies[c]]
    /\ wire \in [Conns -> Seq(Rst..Units)]
    /\ sock \in [Conns -> Sockets]
    /\ backlog \in Seq(Conns)
    /\ fds \in [Fds -> Conns \cup {"free", "std", "tor"}]
    /\ dial \in [Conns -> Dialled]
    /\ \A c \in Conns : dial[c].at = "dialling" => dial[c].fd \in Fds

\* What the loop looks at is an event with a descriptor; what it resumes is a
\* coroutine that has one.
LEMMA EventTypes ==
  ASSUME LoopTypes, NEW e \in batch
  PROVE  /\ e.kind \in {"in", "err", "listen"}
         /\ e.kind # "listen" => e.fd \in Fds /\ e.of \in Conns /\ IsEvent(e)
         /\ e.kind = "listen" => e = Listener
<1>1. CASE e = Listener
  BY <1>1 DEF Listener
<1>2. ASSUME NEW fd \in Fds, NEW kind \in {"in", "err"}, NEW c \in Conns, e = Event(fd, kind, c)
      PROVE  e.kind \in {"in", "err"} /\ e.fd \in Fds /\ e.of \in Conns
  BY <1>2 DEF Event
<1>3. CASE IsEvent(e)
  BY <1>2, <1>3 DEF IsEvent
<1> QED BY <1>1, <1>3 DEF LoopTypes

LEMMA ReadyTypes ==
  ASSUME LoopTypes, Running
  PROVE  /\ ready # <<>> /\ Head(ready) \in Routines /\ Tail(ready) \in Seq(Routines)
         /\ Head(ready) # Main => Head(ready).fd \in Fds /\ Listed(Tail(ready), Main)
         /\ Head(ready).at = "main" => Head(ready) = Main
         /\ Head(ready).at = "body" => Head(ready) = Body(Head(ready).fd)
         /\ Head(ready).at = "relay" => Head(ready) = Relay(Head(ready).fd)
<1>1. ready \in Seq(Routines) /\ Listed(ready, Main)
  BY DEF LoopTypes
<1>2. ready # <<>>
  <2> SUFFICES ASSUME ready = <<>> PROVE FALSE
    OBVIOUS
  <2>1. \A i \in 1..Len(ready) : FALSE
    OBVIOUS
  <2> QED BY <1>1, <2>1 DEF Listed
<1>3. Head(ready) \in Routines /\ Tail(ready) \in Seq(Routines)
  BY <1>1, <1>2, HeadTailProperties
<1>4. Head(ready) # Main => Listed(Tail(ready), Main)
  BY <1>1, <1>2, ListedTail
<1>5. /\ Head(ready) # Main => Head(ready).fd \in Fds
      /\ Head(ready).at = "main" => Head(ready) = Main
      /\ Head(ready).at = "body" => Head(ready) = Body(Head(ready).fd)
      /\ Head(ready).at = "relay" => Head(ready) = Relay(Head(ready).fd)
  BY <1>3 DEF Routines, Main, Body, Relay
<1> QED BY <1>2, <1>3, <1>4, <1>5
-----------------------------------------------------------------------------
ConnStep ==
    \/ \E c \in Conns : Connect(c) \/ HangUp(c) \/ Deliver(c)
    \/ \E c \in Conns, r \in Requests : SendRequest(c, r)
    \/ \E fd \in Fds : Closes(fd) /\ dial' = dial
    \/ AcceptOne
    \/ \E c \in Conns, n \in Nat : Accepted(c) /\ n <= sock[c].avail /\ Takes(c, n)
    \/ \E c \in Conns : \E n \in {BodyLen, Units} : Accepted(c) /\ Serves(c, n)
    \/ \E how : Die(how)
    \/ \E c \in Conns : DialOpens(c) \/ DialEnds(c)
    \/ LeaveLoop
    \/ UNCHANGED <<client, request, replies, wire, sock, backlog, fds, dial>>

LEMMA RecvIsConnStep ==
  ASSUME ConnTypes, NEW fd \in Fds, fds[fd] \in Conns, NEW skip \in {0, HeadLen}, NEW rest,
         RecvDoes(fd, skip, rest)
  PROVE  ConnStep
<1> DEFINE c == fds[fd]
<1>1. Accepted(c)
  BY DEF Accepted
<1>2. CASE Closes(fd) /\ dial' = dial
  BY <1>2 DEF ConnStep
<1>3. ASSUME NEW n \in Nat, skip + n <= sock[c].avail, Takes(c, skip + n)
      PROVE  ConnStep
  <2>1. skip + n \in Nat
    BY DEF HeadLen
  <2> QED BY <1>1, <1>3, <2>1 DEF ConnStep
<1>4. CASE Serves(c, skip + BodyLen)
  <2>1. skip + BodyLen \in {BodyLen, Units}
    BY DEF HeadLen, BodyLen, Units
  <2> QED BY <1>1, <1>4, <2>1 DEF ConnStep
<1> QED BY <1>2, <1>3, <1>4 DEF RecvDoes

\* A coroutine that starts reads the frame or closes its connection.
LEMMA ReadEventDoes ==
  ASSUME ConnTypes, LoopTypes, NEW e \in batch, ReadEvent(e)
  PROVE  /\ e.fd \in Fds /\ AtEvent(e) /\ e.kind = "in"
         /\ batch' = batch \ {e} /\ loop' = loop
         /\ \/ fds[e.fd] \in Conns /\ RecvDoes(e.fd, HeadLen, Append(Tail(ready), Main))
            \/ Closes(e.fd) /\ dial' = dial /\ ready' = Append(Tail(ready), Main)
<1> DEFINE fd == e.fd
           rest == Append(Tail(ready), Main)
<1>1. AtEvent(e) /\ e.kind = "in" /\ batch' = batch \ {e} /\ loop' = loop
  BY DEF ReadEvent
<1>2. fd \in Fds
  BY <1>1, EventTypes
<1>3. CASE fds[fd] \in Conns /\ GoodHead(fds[fd]) /\ RecvBody(fd, HeadLen, rest)
  <2>1. /\ sock[fds[fd]].avail \in Nat /\ sock[fds[fd]].taken \in Nat
        /\ HeadLen <= sock[fds[fd]].avail
    BY <1>3 DEF GoodHead, ConnTypes, Sockets
  <2>2. RecvDoes(fd, HeadLen, rest)
    BY <1>3, <2>1, RecvBodyDoes
  <2> QED BY <1>1, <1>2, <1>3, <2>2
<1>4. CASE Refuse(fd, rest)
  BY <1>1, <1>2, <1>4 DEF Refuse, Closes, clientVars
<1> QED BY <1>3, <1>4 DEF ReadEvent

\* One that goes on reads, or closes what its descriptor stands for by now, or
\* waits for bytes from Tor.
LEMMA ResumeBodyDoes ==
  ASSUME ConnTypes, LoopTypes, ResumeBody
  PROVE  LET fd == Head(ready).fd
         IN  /\ fd \in Fds /\ Head(ready) = Body(fd) /\ Running
             /\ loop' = loop /\ batch' = batch
             /\ \/ fds[fd] \in Conns /\ RecvDoes(fd, 0, Tail(ready))
                \/ Closes(fd) /\ dial' = dial /\ ready' = Tail(ready)
                \/ /\ ready' = Append(Tail(ready), Body(fd)) /\ fds[fd] = "tor"
                   /\ UNCHANGED <<clientVars, kernelVars, dial>>
<1> DEFINE fd == Head(ready).fd
<1>1. loop = "run" /\ Running /\ Head(ready).at = "body" /\ loop' = loop /\ batch' = batch
  BY DEF ResumeBody, Running, loopVars
<1>2. fd \in Fds /\ Head(ready) = Body(fd)
  <2>1. Head(ready) # Main
    BY <1>1 DEF Main
  <2> QED BY <1>1, <2>1, ReadyTypes
<1>3. CASE fds[fd] \in Conns /\ RecvBody(fd, 0, Tail(ready))
  <2>1. /\ sock[fds[fd]].avail \in Nat /\ sock[fds[fd]].taken \in Nat
        /\ 0 <= sock[fds[fd]].avail
    BY <1>3 DEF ConnTypes, Sockets
  <2>2. RecvDoes(fd, 0, Tail(ready))
    BY <1>3, <2>1, RecvBodyDoes
  <2> QED BY <1>1, <1>2, <1>3, <2>2
<1>4. CASE Refuse(fd, Tail(ready))
  <2>1. Closes(fd) /\ dial' = dial /\ ready' = Tail(ready)
    BY <1>4 DEF Refuse, Closes, clientVars
  <2> QED BY <1>1, <1>2, <2>1
<1>5. CASE /\ fds[fd] = "tor" /\ ready' = Append(Tail(ready), Head(ready))
           /\ UNCHANGED <<clientVars, kernelVars, exitFlag, dial, storeVars>>
  <2>1. ready' = Append(Tail(ready), Body(fd)) /\ UNCHANGED <<clientVars, kernelVars, dial>>
    BY <1>2, <1>5
  <2> QED BY <1>1, <1>2, <1>5, <2>1
<1> QED BY <1>3, <1>4, <1>5 DEF ResumeBody

LEMMA NextIsConnStep ==
  ASSUME ConnTypes, LoopTypes, [Next]_vars
  PROVE  ConnStep
<1>1. ASSUME NEW e \in batch, ErrorEvent(e)
      PROVE  ConnStep
  <2>1. e.fd \in Fds
    BY <1>1, EventTypes DEF ErrorEvent
  <2>2. Closes(e.fd) /\ dial' = dial
    BY <1>1 DEF ErrorEvent, Closes, clientVars, routineVars
  <2> QED BY <2>1, <2>2 DEF ConnStep
<1>2. ASSUME NEW e \in batch, ReadEvent(e)
      PROVE  ConnStep
  <2>1. HeadLen \in {0, HeadLen}
    OBVIOUS
  <2> QED BY <1>2, <2>1, ReadEventDoes, RecvIsConnStep DEF ConnStep
<1>3. ASSUME ResumeBody
      PROVE  ConnStep
  <2> DEFINE fd == Head(ready).fd
  <2>1. CASE fds[fd] \in Conns /\ RecvDoes(fd, 0, Tail(ready))
    BY <1>3, <2>1, ResumeBodyDoes, RecvIsConnStep
  <2>2. CASE Closes(fd) /\ dial' = dial
    BY <1>3, <2>2, ResumeBodyDoes DEF ConnStep
  <2>3. CASE UNCHANGED <<clientVars, kernelVars, dial>>
    BY <2>3 DEF ConnStep, clientVars, kernelVars
  <2> QED BY <1>3, <2>1, <2>2, <2>3, ResumeBodyDoes
<1>4. ASSUME \/ Poll \/ AcceptFails \/ ResumeRelay \/ NextRound \/ Interrupt
             \/ (\E e \in batch : ListenEvent(e))
      PROVE  UNCHANGED <<client, request, replies, wire, sock, backlog, fds, dial>>
  BY <1>4 DEF Poll, AcceptFails, ResumeRelay, NextRound, Interrupt, ListenEvent, clientVars,
              kernelVars, routineVars
<1>5. ASSUME DeadlineOver \/ FieldMissing \/ Shutdown
      PROVE  \E how : Die(how)
  BY <1>5 DEF DeadlineOver, FieldMissing, Shutdown
<1>6. ASSUME UNCHANGED vars
      PROVE  UNCHANGED <<client, request, replies, wire, sock, backlog, fds, dial>>
  BY <1>6 DEF vars, clientVars, kernelVars, routineVars
<1>7. CASE DaemonStep
  <2>1. CASE AcceptOne \/ LeaveLoop
    BY <2>1 DEF ConnStep
  <2> QED BY <1>1, <1>2, <1>3, <1>4, <1>5, <1>7, <2>1 DEF DaemonStep, ConnStep
<1>8. CASE ThreadStep \/ ClientStep \/ (\E c \in Conns : Deliver(c))
  BY <1>8 DEF ThreadStep, ClientStep, ConnStep
<1> QED BY <1>4, <1>6, <1>7, <1>8 DEF Next, ConnStep
-----------------------------------------------------------------------------
\* The kernel gives the lowest descriptor that is free.
LEMMA LowestIsFree == FreeFds # {} => Lowest(FreeFds) \in FreeFds
<1> SUFFICES ASSUME FreeFds # {} PROVE Lowest(FreeFds) \in FreeFds
  OBVIOUS
<1>1. FreeFds \subseteq Nat
  BY DescriptorsAssumption DEF FreeFds, Fds
<1> DEFINE R == {p \in Nat \X Nat : p[1] < p[2]}
<1>2. IsWellFoundedOn(R, Nat)
  BY NatLessThanWellFounded DEF OpToRel
<1>3. \E n \in FreeFds : \A m \in FreeFds : <<m, n>> \notin R
  BY <1>1, <1>2, WFMin
<1>4. ASSUME NEW m \in Nat, NEW n \in Nat, <<m, n>> \notin R
      PROVE  n <= m
  <2>1. <<m, n>> \in Nat \X Nat /\ ~(<<m, n>>[1] < <<m, n>>[2])
    BY <1>4
  <2> QED BY <2>1
<1> HIDE DEF R
<1>5. \E n \in FreeFds : \A m \in FreeFds : n <= m
  BY <1>1, <1>3, <1>4
<1> QED BY <1>5 DEF Lowest

LEMMA OpenFd ==
  ASSUME FreeFds # {}
  PROVE  Lowest(FreeFds) \in Fds /\ fds[Lowest(FreeFds)] = "free"
  BY LowestIsFree DEF FreeFds

LEMMA SomeDescriptors == -1 \notin Fds /\ Fds \subseteq Nat
  BY DescriptorsAssumption DEF Fds

LEMMA SockTypes ==
  ASSUME ConnTypes, NEW c \in Conns
  PROVE  sock[c].avail \in Nat /\ sock[c].taken \in Nat /\ sock[c].fin \in BOOLEAN
         /\ sock[c].rst \in BOOLEAN
  BY DEF ConnTypes, Sockets

LEMMA ClosesSock ==
  ASSUME NEW fd, Closes(fd)
  PROVE  /\ \A c \in Conns : sock'[c] = IF c = fds[fd] THEN EmptySock ELSE sock[c]
         /\ sock' = [c \in Conns |-> IF c = fds[fd] THEN EmptySock ELSE sock[c]]
         /\ fds' = [fds EXCEPT ![fd] = "free"] /\ edge' = edge \ {fds[fd]}
         /\ UNCHANGED <<client, request, replies, wire, backlog>>
  BY DEF Closes, CloseFd

LEMMA SockFields ==
  ASSUME NEW s \in [Conns -> Sockets], NEW c \in Conns
  PROVE  /\ \A a \in Nat : [s EXCEPT ![c].avail = a] \in [Conns -> Sockets]
         /\ \A a \in Nat : [s EXCEPT ![c].taken = a] \in [Conns -> Sockets]
         /\ \A b \in BOOLEAN : [s EXCEPT ![c].fin = b] \in [Conns -> Sockets]
         /\ \A b \in BOOLEAN : [s EXCEPT ![c].rst = b] \in [Conns -> Sockets]
<1>1. \A a \in Nat : [s EXCEPT ![c].avail = a] \in [Conns -> Sockets]
  BY DEF Sockets
<1>2. \A a \in Nat : [s EXCEPT ![c].taken = a] \in [Conns -> Sockets]
  BY DEF Sockets
<1>3. \A b \in BOOLEAN : [s EXCEPT ![c].fin = b] \in [Conns -> Sockets]
  BY DEF Sockets
<1>4. \A b \in BOOLEAN : [s EXCEPT ![c].rst = b] \in [Conns -> Sockets]
  BY DEF Sockets
<1> QED BY <1>1, <1>2, <1>3, <1>4

LEMMA ConsumeSock ==
  ASSUME ConnTypes, NEW c \in Conns, NEW n \in Nat, n <= sock[c].avail, Consume(c, n)
  PROVE  /\ sock' \in [Conns -> Sockets]
         /\ \A d \in Conns : d # c => sock'[d] = sock[d]
         /\ sock'[c] = [avail |-> sock[c].avail - n, taken |-> sock[c].taken + n,
                        fin |-> sock[c].fin, rst |-> sock[c].rst]
<1>1. sock \in [Conns -> Sockets] /\ sock[c].avail - n \in Nat /\ sock[c].taken + n \in Nat
  BY SockTypes DEF ConnTypes
<1>2. sock' = [sock EXCEPT ![c].avail = @ - n, ![c].taken = @ + n]
  BY DEF Consume
<1>3. /\ \A d \in Conns : d # c => sock'[d] = sock[d]
      /\ sock'[c] = [avail |-> sock[c].avail - n, taken |-> sock[c].taken + n,
                     fin |-> sock[c].fin, rst |-> sock[c].rst]
  BY <1>1, <1>2 DEF Sockets
<1>4. sock' \in [Conns -> Sockets]
  <2> DEFINE left == [sock EXCEPT ![c].avail = sock[c].avail - n]
  <2>1. left \in [Conns -> Sockets]
    BY <1>1, SockFields
  <2>2. sock' = [left EXCEPT ![c].taken = sock[c].taken + n]
    BY <1>1, <1>2 DEF Sockets
  <2> HIDE DEF left
  <2> QED BY <1>1, <2>1, <2>2, SockFields
<1> QED BY <1>3, <1>4

LEMMA DeliverSock ==
  ASSUME ConnTypes, NEW c \in Conns, Deliver(c)
  PROVE  LET s == Head(wire[c])
         IN  /\ wire[c] # <<>> /\ (Accepted(c) \/ Queued(c))
             /\ wire[c] \in Seq(Rst..Units) /\ s \in Rst..Units
             /\ wire' = [wire EXCEPT ![c] = Tail(wire[c])] /\ Tail(wire[c]) \in Seq(Rst..Units)
             /\ sock' \in [Conns -> Sockets]
             /\ \A d \in Conns : d # c => sock'[d] = sock[d]
             /\ sock'[c] = [avail |-> IF s > 0 THEN sock[c].avail + s ELSE sock[c].avail,
                            taken |-> sock[c].taken, fin |-> sock[c].fin \/ s = Fin,
                            rst |-> sock[c].rst \/ s = Rst]
<1> DEFINE s == Head(wire[c])
           a == IF s > 0 THEN sock[c].avail + s ELSE sock[c].avail
           f == sock[c].fin \/ s = Fin
           r == sock[c].rst \/ s = Rst
<1>1. sock \in [Conns -> Sockets] /\ wire[c] \in Seq(Rst..Units) /\ wire[c] # <<>>
  BY DEF ConnTypes, Deliver
<1>2. s \in Rst..Units /\ Tail(wire[c]) \in Seq(Rst..Units)
  BY <1>1, HeadTailProperties
<1>3. sock' = [sock EXCEPT ![c].avail = IF s > 0 THEN @ + s ELSE @, ![c].fin = (@ \/ s = Fin),
                           ![c].rst = (@ \/ s = Rst)]
  BY DEF Deliver
<1>4. wire' = [wire EXCEPT ![c] = Tail(wire[c])] /\ (Accepted(c) \/ Queued(c))
  BY DEF Deliver
<1>5. a \in Nat /\ f \in BOOLEAN /\ r \in BOOLEAN
  BY <1>2, SockTypes DEF Rst, Units, HeadLen, BodyLen
<1> HIDE DEF s
<1>6. /\ \A d \in Conns : d # c => sock'[d] = sock[d]
      /\ sock'[c] = [avail |-> a, taken |-> sock[c].taken, fin |-> f, rst |-> r]
  BY <1>1, <1>3 DEF Sockets
<1>7. sock' \in [Conns -> Sockets]
  <2> DEFINE got == [sock EXCEPT ![c].avail = a]
             ended == [got EXCEPT ![c].fin = f]
  <2>1. got \in [Conns -> Sockets]
    BY <1>1, <1>5, SockFields
  <2>2. sock' = [ended EXCEPT ![c].rst = r]
    BY <1>1, <1>3 DEF Sockets
  <2> HIDE DEF got
  <2>3. ended \in [Conns -> Sockets]
    BY <1>5, <2>1, SockFields
  <2> HIDE DEF ended
  <2> QED BY <1>5, <2>2, <2>3, SockFields
<1> QED BY <1>1, <1>2, <1>4, <1>6, <1>7 DEF s
-----------------------------------------------------------------------------
(* Where the connections are.                                              *)

\* A connection has one descriptor, or waits once in the backlog, or neither;
\* one that was not opened is nowhere.
OneDescriptor == \A f, g \in Fds : fds[f] \in Conns /\ fds[f] = fds[g] => f = g
QueuedOnce == Distinct(backlog) /\ \A c \in Conns : Queued(c) => ~Accepted(c)
Unborn == \A c \in Conns :
             client[c] = "idle" => ~Queued(c) /\ ~Accepted(c) /\ request[c] = NoRequest

Places == OneDescriptor /\ QueuedOnce /\ Unborn

LEMMA QueuedIsListed == \A c : Queued(c) <=> Listed(backlog, c)
  BY DEF Queued, Listed

\* A descriptor is freed, or given to x.
LEMMA FreesPlaces ==
  ASSUME ConnTypes, OneDescriptor, NEW fd \in Fds, fds' = [fds EXCEPT ![fd] = "free"]
  PROVE  /\ OneDescriptor' /\ fds' \in [Fds -> Conns \cup {"free", "std", "tor"}]
         /\ \A c \in Conns : Accepted(c)' <=> Accepted(c) /\ c # fds[fd]
<1>1. fds \in [Fds -> Conns \cup {"free", "std", "tor"}]
  BY DEF ConnTypes
<1>2. \A f \in Fds : fds'[f] = IF f = fd THEN "free" ELSE fds[f]
  BY <1>1
<1>3. "free" \notin Conns
  BY ConnsAssumption
<1>4. OneDescriptor'
  BY <1>2, <1>3 DEF OneDescriptor
<1>5. \A c \in Conns : Accepted(c)' <=> Accepted(c) /\ c # fds[fd]
  BY <1>2, <1>3 DEF OneDescriptor, Accepted
<1> QED BY <1>1, <1>4, <1>5

LEMMA GivesPlaces ==
  ASSUME ConnTypes, OneDescriptor, FreeFds # {}, NEW x \in Conns \cup {"tor"},
         x \in Conns => ~Accepted(x), fds' = [fds EXCEPT ![Lowest(FreeFds)] = x]
  PROVE  /\ OneDescriptor' /\ fds' \in [Fds -> Conns \cup {"free", "std", "tor"}]
         /\ \A c \in Conns : Accepted(c)' <=> Accepted(c) \/ c = x
<1> DEFINE fd == Lowest(FreeFds)
<1>1. fds \in [Fds -> Conns \cup {"free", "std", "tor"}]
  BY DEF ConnTypes
<1>2. fd \in Fds /\ fds[fd] = "free"
  BY OpenFd
<1> HIDE DEF fd
<1>3. \A f \in Fds : fds'[f] = IF f = fd THEN x ELSE fds[f]
  BY <1>1 DEF fd
<1>4. "free" \notin Conns /\ "tor" \notin Conns
  BY ConnsAssumption
<1>5. OneDescriptor'
  BY <1>2, <1>3, <1>4 DEF OneDescriptor, Accepted
<1>6. \A c \in Conns : Accepted(c)' <=> Accepted(c) \/ c = x
  BY <1>2, <1>3, <1>4 DEF Accepted
<1>7. fds' \in [Fds -> Conns \cup {"free", "std", "tor"}]
  BY <1>1, <1>2 DEF fd
<1> QED BY <1>5, <1>6, <1>7

\* What can become of a connection in a step: one that comes to the backlog
\* was idle, one that gets a descriptor was in the backlog.
Moved == /\ \A c \in Conns : Accepted(c)' => Accepted(c) \/ Queued(c)
         /\ \A c \in Conns : Queued(c)' => Queued(c) \/ (client[c] = "idle" /\ client'[c] = "open")
         /\ \A c \in Conns : client[c] # "idle" => client'[c] # "idle"

LEMMA SamePlaces ==
  ASSUME Places, UNCHANGED <<client, request, backlog, fds>>
  PROVE  Places' /\ Moved
  BY DEF Places, OneDescriptor, QueuedOnce, Unborn, Distinct, Queued, Accepted, Moved

LEMMA FewerPlaces ==
  ASSUME Places, UNCHANGED <<client, request, backlog>>, OneDescriptor',
         \A c \in Conns : Accepted(c)' => Accepted(c)
  PROVE  Places' /\ Moved
<1>1. \A c \in Conns : Queued(c)' <=> Queued(c)
  BY DEF Queued
<1>2. Distinct(backlog)'
  BY DEF Places, QueuedOnce, Distinct
<1> QED BY <1>1, <1>2 DEF Places, QueuedOnce, Unborn, Moved

LEMMA ConnectPlaces ==
  ASSUME ConnTypes, Places, NEW c \in Conns, Connect(c)
  PROVE  Places' /\ Moved /\ backlog' \in Seq(Conns)
<1>1. /\ client[c] = "idle" /\ client' = [client EXCEPT ![c] = "open"]
      /\ backlog' = Append(backlog, c) /\ UNCHANGED <<request, fds>>
  BY DEF Connect
<1>2. backlog \in Seq(Conns) /\ client \in [Conns -> {"idle", "open", "closed"}]
  BY DEF ConnTypes
<1>3. ~Queued(c) /\ ~Accepted(c)
  BY <1>1 DEF Places, Unborn
<1>4. /\ \A d : Queued(d)' <=> Queued(d) \/ d = c
      /\ Distinct(backlog)'
  <2>1. /\ \A d : Listed(Append(backlog, c), d) <=> Listed(backlog, d) \/ d = c
        /\ Distinct(backlog) /\ ~Listed(backlog, c) => Distinct(Append(backlog, c))
    BY <1>2, ListedAppend
  <2>2. Distinct(backlog) /\ ~Listed(backlog, c)
    BY <1>3, QueuedIsListed DEF Places, QueuedOnce
  <2>3. \A d : Queued(d)' <=> Listed(Append(backlog, c), d)
    BY <1>1 DEF Queued, Listed
  <2>4. Distinct(backlog)' <=> Distinct(Append(backlog, c))
    BY <1>1 DEF Distinct
  <2> QED BY <2>1, <2>2, <2>3, <2>4, QueuedIsListed
<1>5. \A d \in Conns : Accepted(d)' <=> Accepted(d)
  BY <1>1 DEF Accepted
<1>6. OneDescriptor'
  BY <1>1 DEF Places, OneDescriptor
<1>7. \A d \in Conns : client'[d] = IF d = c THEN "open" ELSE client[d]
  BY <1>1, <1>2
<1>8. QueuedOnce'
  BY <1>3, <1>4, <1>5 DEF Places, QueuedOnce
<1>9. Unborn'
  BY <1>1, <1>4, <1>5, <1>7 DEF Places, Unborn
<1>10. backlog' \in Seq(Conns)
  BY <1>1, <1>2, AppendedSeq
<1> QED BY <1>1, <1>4, <1>5, <1>6, <1>7, <1>8, <1>9, <1>10 DEF Places, Moved

LEMMA AcceptPlaces ==
  ASSUME ConnTypes, Places, AcceptOne
  PROVE  /\ Places' /\ Moved /\ backlog' \in Seq(Conns)
         /\ fds' \in [Fds -> Conns \cup {"free", "std", "tor"}]
<1>0. PICK c : c = Head(backlog)
  OBVIOUS
<1>1. /\ backlog # <<>> /\ FreeFds # {} /\ fds' = [fds EXCEPT ![Lowest(FreeFds)] = c]
      /\ backlog' = Tail(backlog) /\ UNCHANGED <<client, request>>
  BY <1>0 DEF AcceptOne, clientVars
<1>2. backlog \in Seq(Conns)
  BY DEF ConnTypes
<1>3. /\ Listed(backlog, c) /\ c \in Conns
      /\ \A d : Listed(backlog, d) <=> Listed(Tail(backlog), d) \/ d = c
      /\ Distinct(backlog) => Distinct(Tail(backlog)) /\ ~Listed(Tail(backlog), c)
  BY <1>0, <1>1, <1>2, ListedTail
<1>4. /\ Distinct(backlog)' /\ ~Queued(c)' /\ Queued(c)
      /\ \A d : Queued(d) <=> Queued(d)' \/ d = c
  <2>1. \A d : Queued(d)' <=> Listed(Tail(backlog), d)
    BY <1>1 DEF Queued, Listed
  <2>2. Distinct(backlog)' <=> Distinct(Tail(backlog))
    BY <1>1 DEF Distinct
  <2>3. Distinct(backlog)
    BY DEF Places, QueuedOnce
  <2> QED BY <1>3, <2>1, <2>2, <2>3, QueuedIsListed
<1>5. ~Accepted(c)
  BY <1>3, <1>4 DEF Places, QueuedOnce
<1>6. /\ OneDescriptor' /\ fds' \in [Fds -> Conns \cup {"free", "std", "tor"}]
      /\ \A d \in Conns : Accepted(d)' <=> Accepted(d) \/ d = c
  BY <1>1, <1>3, <1>5, GivesPlaces DEF Places
<1>7. backlog' \in Seq(Conns)
  BY <1>1, <1>2, HeadTailProperties
<1>8. QueuedOnce'
  BY <1>4, <1>6 DEF Places, QueuedOnce
<1>9. Unborn'
  BY <1>1, <1>4, <1>6 DEF Places, Unborn
<1> QED BY <1>1, <1>4, <1>6, <1>7, <1>8, <1>9 DEF Places, Moved

LEMMA ClientPlaces ==
  ASSUME Places, UNCHANGED <<backlog, fds>>,
         \A c \in Conns : client'[c] = "idle" => client[c] = "idle" /\ request'[c] = request[c],
         \A c \in Conns : client[c] # "idle" => client'[c] # "idle"
  PROVE  Places' /\ Moved
<1>1. \A c \in Conns : (Queued(c)' <=> Queued(c)) /\ (Accepted(c)' <=> Accepted(c))
  BY DEF Queued, Accepted
<1>2. Distinct(backlog)' /\ OneDescriptor'
  BY DEF Places, QueuedOnce, Distinct, OneDescriptor
<1> QED BY <1>1, <1>2 DEF Places, QueuedOnce, Unborn, Moved

LEMMA DiePlaces ==
  ASSUME Places, NEW how, Die(how)
  PROVE  /\ Places' /\ Moved /\ backlog' \in Seq(Conns)
         /\ fds' \in [Fds -> Conns \cup {"free", "std", "tor"}]
         /\ \A c \in Conns : ~Accepted(c)' /\ ~Queued(c)'
<1>1. /\ fds' = [fd \in Fds |-> "free"] /\ backlog' = <<>> /\ UNCHANGED <<client, request>>
  BY DEF Die, clientVars
<1>2. "free" \notin Conns
  BY ConnsAssumption
<1>3. \A c \in Conns : ~Accepted(c)'
  BY <1>1, <1>2 DEF Accepted
<1>4. \A i \in 1..Len(backlog') : FALSE
  BY <1>1
<1>5. \A c \in Conns : ~Queued(c)'
  BY <1>4 DEF Queued
<1>6. OneDescriptor'
  BY <1>1, <1>2 DEF OneDescriptor
<1>7. Distinct(backlog)'
  BY <1>4 DEF Distinct
<1> QED BY <1>1, <1>3, <1>5, <1>6, <1>7 DEF Places, QueuedOnce, Unborn, Moved

LEMMA ClosesPlaces ==
  ASSUME ConnTypes, Places, NEW fd \in Fds, fds' = [fds EXCEPT ![fd] = "free"],
         UNCHANGED <<client, request, backlog>>
  PROVE  /\ Places' /\ Moved
         /\ fds' \in [Fds -> Conns \cup {"free", "std", "tor"}]
<1>1. /\ OneDescriptor' /\ fds' \in [Fds -> Conns \cup {"free", "std", "tor"}]
      /\ \A c \in Conns : Accepted(c)' => Accepted(c)
  BY FreesPlaces DEF Places
<1> QED BY <1>1, FewerPlaces

LEMMA DialPlaces ==
  ASSUME ConnTypes, Places, NEW c \in Conns, DialOpens(c) \/ DialEnds(c)
  PROVE  /\ Places' /\ Moved
         /\ fds' \in [Fds -> Conns \cup {"free", "std", "tor"}]
<1>1. UNCHANGED <<client, request, backlog>>
  BY DEF DialOpens, DialEnds, clientVars
<1>2. CASE UNCHANGED fds
  BY <1>1, <1>2, SamePlaces DEF ConnTypes
<1>3. ASSUME FreeFds # {}, fds' = [fds EXCEPT ![Lowest(FreeFds)] = "tor"]
      PROVE  /\ Places' /\ Moved
             /\ fds' \in [Fds -> Conns \cup {"free", "std", "tor"}]
  <2>1. "tor" \notin Conns
    BY ConnsAssumption
  <2>2. /\ OneDescriptor' /\ fds' \in [Fds -> Conns \cup {"free", "std", "tor"}]
        /\ \A d \in Conns : Accepted(d)' => Accepted(d)
    BY <1>3, <2>1, GivesPlaces DEF Places
  <2> QED BY <1>1, <2>2, FewerPlaces
<1>4. ASSUME dial[c].at = "dialling", CloseFd(dial[c].fd)
      PROVE  /\ Places' /\ Moved
             /\ fds' \in [Fds -> Conns \cup {"free", "std", "tor"}]
  <2>1. dial[c].fd \in Fds
    BY <1>4 DEF ConnTypes
  <2>2. fds' = [fds EXCEPT ![dial[c].fd] = "free"]
    BY <1>4 DEF CloseFd
  <2> QED BY <1>1, <2>1, <2>2, ClosesPlaces
<1> QED BY <1>2, <1>3, <1>4 DEF DialOpens, DialEnds

LEMMA LeavePlaces ==
  ASSUME ConnTypes, Places, LeaveLoop
  PROVE  /\ Places' /\ Moved
         /\ fds' \in [Fds -> Conns \cup {"free", "std", "tor"}]
<1>1. UNCHANGED <<client, request, backlog>> /\ "free" \notin Conns
  BY ConnsAssumption DEF LeaveLoop, clientVars
<1>2. fds \in [Fds -> Conns \cup {"free", "std", "tor"}]
  BY DEF ConnTypes
<1>3. PICK closed : fds' = [fd \in Fds |-> IF fd \in closed THEN "free" ELSE fds[fd]]
  BY DEF LeaveLoop
<1>4. /\ \A fd \in Fds : fds'[fd] = "free" \/ fds'[fd] = fds[fd]
      /\ fds' \in [Fds -> Conns \cup {"free", "std", "tor"}]
  BY <1>2, <1>3
<1>5. OneDescriptor' /\ \A c \in Conns : Accepted(c)' => Accepted(c)
  BY <1>1, <1>4 DEF Places, OneDescriptor, Accepted
<1> QED BY <1>1, <1>4, <1>5, FewerPlaces

LEMMA RequestPlaces ==
  ASSUME ConnTypes, Places, NEW c \in Conns, HangUp(c) \/ \E r \in Requests : SendRequest(c, r)
  PROVE  Places' /\ Moved
<1>1. /\ client[c] = "open" /\ UNCHANGED <<backlog, fds>>
      /\ client' = client \/ client' = [client EXCEPT ![c] = "closed"]
      /\ \A d \in Conns : d # c => request'[d] = request[d]
  BY DEF HangUp, SendRequest, ConnTypes, RequestInv
<1>2. \A d \in Conns : client'[d] = client[d] \/ (d = c /\ client'[d] = "closed")
  BY <1>1 DEF ConnTypes
<1> QED BY <1>1, <1>2, ClientPlaces

\* Every step keeps the places.
LEMMA StepKeepsPlaces ==
  ASSUME ConnTypes, Places, ConnStep
  PROVE  /\ Places' /\ Moved /\ backlog' \in Seq(Conns)
         /\ fds' \in [Fds -> Conns \cup {"free", "std", "tor"}]
<1>0. backlog \in Seq(Conns) /\ fds \in [Fds -> Conns \cup {"free", "std", "tor"}]
  BY DEF ConnTypes
<1>1. ASSUME NEW c \in Conns, Connect(c)
      PROVE  Places' /\ Moved /\ backlog' \in Seq(Conns) /\ fds' = fds
  BY <1>1, ConnectPlaces DEF Connect
<1>2. ASSUME NEW c \in Conns, HangUp(c) \/ \E r \in Requests : SendRequest(c, r)
      PROVE  Places' /\ Moved /\ UNCHANGED <<backlog, fds>>
  BY <1>2, RequestPlaces DEF HangUp, SendRequest
<1>3. ASSUME UNCHANGED <<client, request, backlog, fds>>
      PROVE  Places' /\ Moved /\ UNCHANGED <<backlog, fds>>
  BY <1>3, SamePlaces
<1>4. ASSUME NEW fd \in Fds, Closes(fd)
      PROVE  /\ Places' /\ Moved /\ UNCHANGED backlog
             /\ fds' \in [Fds -> Conns \cup {"free", "std", "tor"}]
  BY <1>4, ClosesSock, ClosesPlaces
<1>5. ASSUME NEW c \in Conns, \/ Deliver(c) \/ \E n : Takes(c, n) \/ Serves(c, n)
      PROVE  UNCHANGED <<client, request, backlog, fds>>
  BY <1>5 DEF Deliver, Takes, Serves
<1>6. ASSUME NEW c \in Conns, DialOpens(c) \/ DialEnds(c)
      PROVE  UNCHANGED backlog
  BY <1>6 DEF DialOpens, DialEnds
<1>7. ASSUME LeaveLoop PROVE UNCHANGED backlog
  BY <1>7 DEF LeaveLoop
<1>8. CASE AcceptOne \/ LeaveLoop \/ (\E how : Die(how))
           \/ (\E c \in Conns : DialOpens(c) \/ DialEnds(c))
  BY <1>0, <1>6, <1>7, <1>8, AcceptPlaces, LeavePlaces, DiePlaces, DialPlaces
<1> QED BY <1>0, <1>1, <1>2, <1>3, <1>4, <1>5, <1>8 DEF ConnStep
-----------------------------------------------------------------------------
(* The types of the connections are kept.                                  *)

LEMMA StepKeepsClient ==
  ASSUME ConnTypes, ConnStep
  PROVE  client' \in [Conns -> {"idle", "open", "closed"}]
<1>1. client \in [Conns -> {"idle", "open", "closed"}]
  BY DEF ConnTypes
<1>2. ASSUME NEW c \in Conns, Connect(c)
      PROVE  client' = [client EXCEPT ![c] = "open"]
  BY <1>2 DEF Connect
<1>3. ASSUME NEW c \in Conns, HangUp(c)
      PROVE  client' = [client EXCEPT ![c] = "closed"]
  BY <1>3 DEF HangUp
<1>4. ASSUME NEW c \in Conns, Deliver(c) \/ (\E n : Takes(c, n) \/ Serves(c, n))
                              \/ (\E r : SendRequest(c, r)) \/ DialOpens(c) \/ DialEnds(c)
      PROVE  client' = client
  BY <1>4 DEF Deliver, Takes, Serves, SendRequest, DialOpens, DialEnds, clientVars
<1>5. ASSUME AcceptOne \/ LeaveLoop \/ (\E how : Die(how)) \/ (\E fd : Closes(fd))
      PROVE  client' = client
  BY <1>5 DEF AcceptOne, LeaveLoop, Die, Closes, clientVars
<1> QED BY <1>1, <1>2, <1>3, <1>4, <1>5 DEF ConnStep

\* An answer reaches a client that is there; a reset comes back from one that
\* is not.
LEMMA ReplyDoes ==
  ASSUME ConnTypes, NEW c \in Conns, NEW answer, Reply(c, answer)
  PROVE  /\ \A d \in Conns : d # c => replies'[d] = replies[d] /\ wire'[d] = wire[d]
         /\ client[c] = "open" => replies'[c] = Append(replies[c], answer) /\ wire' = wire
         /\ client[c] # "open" => /\ replies' = replies
                                  /\ wire'[c] = wire[c] \/ wire'[c] = Append(wire[c], Rst)
         /\ replies' = [d \in Conns |-> replies'[d]]
         /\ wire' \in [Conns -> Seq(Rst..Units)]
<1>1. /\ replies = [d \in Conns |-> replies[d]] /\ wire \in [Conns -> Seq(Rst..Units)]
      /\ Rst \in Rst..Units
  BY DEF ConnTypes, Rst, Units, HeadLen, BodyLen
<1>2. CASE client[c] = "open"
  <2>1. replies' = [replies EXCEPT ![c] = Append(replies[c], answer)] /\ wire' = wire
    BY <1>1, <1>2 DEF Reply
  <2>2. \A d \in Conns : replies'[d] = IF d = c THEN Append(replies[c], answer) ELSE replies[d]
    BY <1>1, <2>1
  <2>3. replies' = [d \in Conns |-> replies'[d]]
    BY <1>1, <2>1
  <2> QED BY <1>1, <1>2, <2>1, <2>2, <2>3
<1>3. CASE client[c] # "open"
  <2>1. replies' = replies /\ (wire' = wire \/ wire' = [wire EXCEPT ![c] = Append(wire[c], Rst)])
    BY <1>1, <1>3 DEF Reply
  <2>2. Append(wire[c], Rst) \in Seq(Rst..Units)
    BY <1>1, AppendedSeq
  <2> QED BY <1>1, <1>3, <2>1, <2>2
<1> QED BY <1>2, <1>3

\* What a client sends is queued behind what is under way.
LEMMA SendsWire ==
  ASSUME ConnTypes, NEW c \in Conns, NEW r \in Requests, SendRequest(c, r)
  PROVE  /\ client[c] = "open" /\ request[c] = NoRequest /\ request' = [request EXCEPT ![c] = r]
         /\ \E cut \in Segmentations : wire' = [wire EXCEPT ![c] = wire[c] \o cut]
         /\ wire' \in [Conns -> Seq(Rst..Units)]
         /\ UNCHANGED <<client, replies, sock, backlog, fds, dial>>
<1>1. PICK cut \in Segmentations : wire' = [wire EXCEPT ![c] = wire[c] \o cut]
  BY DEF SendRequest, ConnTypes
<1>2. cut \in Seq(1..Units) /\ wire \in [Conns -> Seq(Rst..Units)]
  BY SegmentationsAssumption DEF Units, ConnTypes
<1>3. cut \in Seq(Rst..Units)
  <2>1. 1..Units \subseteq Rst..Units
    BY DEF Rst, Units, HeadLen, BodyLen
  <2> QED BY <1>2, <2>1, SeqMonotonic
<1>4. wire[c] \o cut \in Seq(Rst..Units)
  BY <1>2, <1>3, ConcatProperties
<1> QED BY <1>1, <1>2, <1>4 DEF SendRequest, routineVars

LEMMA HangsUpWire ==
  ASSUME ConnTypes, NEW c \in Conns, HangUp(c)
  PROVE  /\ client[c] = "open" /\ client' = [client EXCEPT ![c] = "closed"]
         /\ \E end \in {Fin, Rst} : wire' = [wire EXCEPT ![c] = Append(wire[c], end)]
         /\ wire' \in [Conns -> Seq(Rst..Units)]
         /\ UNCHANGED <<request, replies, sock, backlog, fds, dial>>
<1>1. PICK end \in {Fin, Rst} : wire' = [wire EXCEPT ![c] = Append(wire[c], end)]
  BY EndsAssumption DEF HangUp, ConnTypes
<1>2. end \in Rst..Units /\ wire \in [Conns -> Seq(Rst..Units)]
  BY DEF ConnTypes, Fin, Rst, Units, HeadLen, BodyLen
<1>3. Append(wire[c], end) \in Seq(Rst..Units)
  BY <1>2, AppendedSeq
<1> QED BY <1>1, <1>2, <1>3 DEF HangUp, routineVars
-----------------------------------------------------------------------------
(* What a step does to what is under way on one connection, and to its     *)
(* socket.                                                                 *)

Still(c) == wire'[c] = wire[c] /\ sock'[c] = sock[c]
Gone(c) == wire'[c] = wire[c] /\ sock'[c] = EmptySock /\ ~Accepted(c)' /\ ~Queued(c)'
Sends(c) == /\ client[c] = "open" /\ request[c] = NoRequest /\ request'[c] \in Requests
            /\ \E cut \in Segmentations : wire'[c] = wire[c] \o cut
            /\ sock'[c] = sock[c]
Ended(c) == /\ client[c] = "open" /\ client'[c] = "closed"
            /\ \E end \in {Fin, Rst} : wire'[c] = Append(wire[c], end)
            /\ sock'[c] = sock[c]
Arrives(c) ==
    LET s == Head(wire[c])
    IN  /\ wire[c] # <<>> /\ (Accepted(c) \/ Queued(c))
        /\ wire'[c] = Tail(wire[c])
        /\ sock'[c] = [avail |-> IF s > 0 THEN sock[c].avail + s ELSE sock[c].avail,
                       taken |-> sock[c].taken, fin |-> sock[c].fin \/ s = Fin,
                       rst |-> sock[c].rst \/ s = Rst]
Taken(c, n) ==
    /\ Accepted(c) /\ n <= sock[c].avail
    /\ sock'[c] = [avail |-> sock[c].avail - n, taken |-> sock[c].taken + n,
                   fin |-> sock[c].fin, rst |-> sock[c].rst]
    /\ \/ wire'[c] = wire[c]
       \/ n >= BodyLen /\ client[c] # "open" /\ wire'[c] = Append(wire[c], Rst)

LEMMA ClosesGone ==
  ASSUME ConnTypes, Places, NEW fd \in Fds, CloseFd(fd), UNCHANGED <<wire, backlog>>,
         NEW c \in Conns
  PROVE  Still(c) \/ Gone(c)
<1>1. /\ sock'[c] = IF c = fds[fd] THEN EmptySock ELSE sock[c]
      /\ fds' = [fds EXCEPT ![fd] = "free"]
  BY DEF CloseFd
<1>2. ASSUME c = fds[fd] PROVE ~Accepted(c)' /\ ~Queued(c)'
  <2>1. ~Accepted(c)'
    BY <1>1, <1>2, FreesPlaces DEF Places
  <2>2. ~Queued(c)
    BY <1>2 DEF Accepted, Places, QueuedOnce
  <2> QED BY <2>1, <2>2 DEF Queued
<1> QED BY <1>1, <1>2 DEF Still, Gone

LEMMA ServesTaken ==
  ASSUME ConnTypes, NEW c \in Conns, NEW n \in {BodyLen, Units}, Accepted(c), Serves(c, n)
  PROVE  /\ Taken(c, n) /\ \A d \in Conns : d # c => Still(d)
         /\ sock' \in [Conns -> Sockets] /\ wire' \in [Conns -> Seq(Rst..Units)]
         /\ replies' = [d \in Conns |-> replies'[d]]
         /\ \A d \in Conns : d # c => replies'[d] = replies[d]
         /\ \/ replies'[c] = replies[c]
            \/ \E answer : client[c] = "open" /\ replies'[c] = Append(replies[c], answer)
<1>1. /\ n \in Nat /\ n >= BodyLen /\ n <= sock[c].avail /\ Consume(c, n)
      /\ \/ UNCHANGED <<replies, wire>>
         \/ \E answer : Reply(c, answer)
  BY DEF Serves, BodyLen, Units, HeadLen
<1>2. /\ sock' \in [Conns -> Sockets]
      /\ \A d \in Conns : d # c => sock'[d] = sock[d]
      /\ sock'[c] = [avail |-> sock[c].avail - n, taken |-> sock[c].taken + n,
                     fin |-> sock[c].fin, rst |-> sock[c].rst]
  BY <1>1, ConsumeSock
<1>3. /\ replies = [d \in Conns |-> replies[d]]
      /\ wire \in [Conns -> Seq(Rst..Units)]
  BY DEF ConnTypes
<1>4. CASE UNCHANGED <<replies, wire>>
  BY <1>1, <1>2, <1>3, <1>4 DEF Taken, Still
<1>5. ASSUME NEW answer, Reply(c, answer)
      PROVE  /\ \A d \in Conns : d # c => replies'[d] = replies[d] /\ wire'[d] = wire[d]
             /\ client[c] = "open" => replies'[c] = Append(replies[c], answer) /\ wire' = wire
             /\ client[c] # "open" => /\ replies' = replies
                                      /\ wire'[c] = wire[c] \/ wire'[c] = Append(wire[c], Rst)
             /\ replies' = [d \in Conns |-> replies'[d]]
             /\ wire' \in [Conns -> Seq(Rst..Units)]
  BY <1>5, ReplyDoes
<1>6. ASSUME NEW answer, Reply(c, answer)
      PROVE  /\ Taken(c, n) /\ \A d \in Conns : d # c => Still(d)
             /\ wire' \in [Conns -> Seq(Rst..Units)]
             /\ replies' = [d \in Conns |-> replies'[d]]
             /\ \A d \in Conns : d # c => replies'[d] = replies[d]
             /\ \/ replies'[c] = replies[c]
                \/ client[c] = "open" /\ replies'[c] = Append(replies[c], answer)
  BY <1>1, <1>2, <1>5, <1>6 DEF Taken, Still
<1> QED BY <1>1, <1>2, <1>4, <1>6

LEMMA TakesTaken ==
  ASSUME ConnTypes, NEW c \in Conns, NEW n \in Nat, Accepted(c), n <= sock[c].avail, Takes(c, n)
  PROVE  /\ Taken(c, n) /\ \A d \in Conns : d # c => Still(d)
         /\ sock' \in [Conns -> Sockets] /\ UNCHANGED <<wire, replies>>
<1>1. Consume(c, n) /\ UNCHANGED <<wire, replies>>
  BY DEF Takes
<1> QED BY <1>1, ConsumeSock DEF Taken, Still

\* Every step does one of these to each connection.
StepOn(c) == \/ Still(c) \/ Gone(c) \/ Sends(c) \/ Ended(c) \/ Arrives(c)
             \/ \E n \in Nat : Taken(c, n)

LEMMA StepOnConns ==
  ASSUME ConnTypes, Places, ConnStep, NEW c \in Conns
  PROVE  StepOn(c)
<1>0. wire \in [Conns -> Seq(Rst..Units)] /\ request \in [Conns -> Requests \cup {NoRequest}]
      /\ client \in [Conns -> {"idle", "open", "closed"}]
  BY DEF ConnTypes, RequestInv
<1>1. ASSUME NEW d \in Conns, Connect(d)
      PROVE  Still(c)
  BY <1>1 DEF Connect, Still
<1>2. ASSUME NEW d \in Conns, HangUp(d)
      PROVE  StepOn(c)
  <2>1. PICK end \in {Fin, Rst} : wire' = [wire EXCEPT ![d] = Append(wire[d], end)]
    BY <1>2, HangsUpWire
  <2>2. client[d] = "open" /\ client' = [client EXCEPT ![d] = "closed"] /\ sock' = sock
    BY <1>2, HangsUpWire
  <2>3. CASE d = c
    <3>1. wire'[c] = Append(wire[c], end) /\ client'[c] = "closed" /\ client[c] = "open"
          /\ sock'[c] = sock[c]
      BY <1>0, <2>1, <2>2, <2>3
    <3> QED BY <3>1 DEF Ended, StepOn
  <2>4. CASE d # c
    BY <1>0, <2>1, <2>2, <2>4 DEF Still, StepOn
  <2> QED BY <2>3, <2>4
<1>3. ASSUME NEW d \in Conns, Deliver(d)
      PROVE  StepOn(c)
  <2>1. CASE d = c
    <3>1. wire'[c] = Tail(wire[c])
      BY <1>0, <1>3, <2>1, DeliverSock
    <3>2. Arrives(c)
      BY <1>3, <2>1, <3>1, DeliverSock DEF Arrives
    <3> QED BY <3>2 DEF StepOn
  <2>2. CASE d # c
    <3>1. wire'[c] = wire[c]
      BY <1>0, <1>3, <2>2, DeliverSock
    <3> QED BY <1>3, <2>2, <3>1, DeliverSock DEF Still, StepOn
  <2> QED BY <2>1, <2>2
<1>4. ASSUME NEW d \in Conns, NEW r \in Requests, SendRequest(d, r)
      PROVE  StepOn(c)
  <2>1. PICK cut \in Segmentations : wire' = [wire EXCEPT ![d] = wire[d] \o cut]
    BY <1>4, SendsWire
  <2>2. /\ client[d] = "open" /\ request[d] = NoRequest /\ request' = [request EXCEPT ![d] = r]
        /\ sock' = sock
    BY <1>4, SendsWire
  <2>3. CASE d = c
    <3>1. wire'[c] = wire[c] \o cut /\ request'[c] = r /\ sock'[c] = sock[c]
      BY <1>0, <2>1, <2>2, <2>3
    <3> QED BY <2>2, <2>3, <3>1 DEF Sends, StepOn
  <2>4. CASE d # c
    BY <1>0, <2>1, <2>2, <2>4 DEF Still, StepOn
  <2> QED BY <2>3, <2>4
<1>5. ASSUME NEW fd \in Fds, Closes(fd)
      PROVE  StepOn(c)
  BY <1>5, ClosesGone DEF Closes, StepOn
<1>6. ASSUME AcceptOne \/ LeaveLoop
      PROVE  Still(c)
  BY <1>6 DEF AcceptOne, LeaveLoop, Still
<1>7. ASSUME NEW d \in Conns, NEW n \in Nat, Accepted(d), n <= sock[d].avail, Takes(d, n)
      PROVE  StepOn(c)
  BY <1>7, TakesTaken DEF StepOn
<1>8. ASSUME NEW d \in Conns, NEW n \in {BodyLen, Units}, Accepted(d), Serves(d, n)
      PROVE  StepOn(c)
  <2>1. n \in Nat
    BY DEF BodyLen, Units, HeadLen
  <2> QED BY <1>8, <2>1, ServesTaken DEF StepOn
<1>9. ASSUME NEW how, Die(how)
      PROVE  StepOn(c)
  <2>1. sock'[c] = EmptySock /\ wire' = wire
    BY <1>9 DEF Die
  <2>2. ~Accepted(c)' /\ ~Queued(c)'
    BY <1>9, DiePlaces
  <2> QED BY <2>1, <2>2 DEF Gone, StepOn
<1>10. ASSUME NEW d \in Conns, DialOpens(d) \/ DialEnds(d)
       PROVE  StepOn(c)
  <2>1. CASE UNCHANGED <<wire, sock>>
    BY <2>1 DEF Still, StepOn
  <2>2. ASSUME dial[d].at = "dialling", CloseFd(dial[d].fd)
        PROVE  StepOn(c)
    <3>1. dial[d].fd \in Fds
      BY <2>2 DEF ConnTypes
    <3>2. UNCHANGED <<wire, backlog>>
      BY <1>10 DEF DialOpens, DialEnds
    <3> QED BY <2>2, <3>1, <3>2, ClosesGone DEF StepOn
  <2> QED BY <1>10, <2>1, <2>2 DEF DialOpens, DialEnds
<1>11. CASE UNCHANGED <<client, request, replies, wire, sock, backlog, fds, dial>>
  BY <1>11 DEF Still, StepOn
<1> QED BY <1>1, <1>2, <1>3, <1>4, <1>5, <1>6, <1>7, <1>8, <1>9, <1>10, <1>11 DEF ConnStep, StepOn

\* What a client has asked and whether it hung up do not change back.
LEMMA ClientsGoOn ==
  ASSUME ConnTypes, ConnStep, NEW c \in Conns
  PROVE  /\ client[c] = "closed" => client'[c] = "closed"
         /\ client'[c] = "open" => client[c] \in {"idle", "open"}
         /\ client'[c] = client[c] \/ (client[c] = "idle" /\ client'[c] = "open")
            \/ (client[c] = "open" /\ client'[c] = "closed")
         /\ request'[c] = request[c] \/ (request[c] = NoRequest /\ Sends(c))
<1>0. request \in [Conns -> Requests \cup {NoRequest}]
      /\ client \in [Conns -> {"idle", "open", "closed"}]
  BY DEF ConnTypes, RequestInv
<1>1. ASSUME NEW d \in Conns, Connect(d)
      PROVE  /\ client'[c] = client[c] \/ (client[c] = "idle" /\ client'[c] = "open")
             /\ request' = request
  BY <1>0, <1>1 DEF Connect
<1>2. ASSUME NEW d \in Conns, HangUp(d)
      PROVE  /\ client'[c] = client[c] \/ (client[c] = "open" /\ client'[c] = "closed")
             /\ request' = request
  BY <1>0, <1>2 DEF HangUp
<1>3. ASSUME NEW d \in Conns, NEW r \in Requests, SendRequest(d, r)
      PROVE  /\ client' = client
             /\ request'[c] = request[c] \/ (request[c] = NoRequest /\ Sends(c))
  <2>1. PICK cut \in Segmentations : wire' = [wire EXCEPT ![d] = wire[d] \o cut]
    BY <1>3, SendsWire
  <2>2. /\ client[d] = "open" /\ request[d] = NoRequest /\ request' = [request EXCEPT ![d] = r]
        /\ UNCHANGED <<sock, client>>
    BY <1>3, SendsWire
  <2>3. CASE d = c
    <3>1. wire'[c] = wire[c] \o cut /\ request'[c] = r /\ sock'[c] = sock[c]
      BY <1>0, <2>1, <2>2, <2>3 DEF ConnTypes
    <3> QED BY <2>2, <2>3, <3>1 DEF Sends
  <2>4. CASE d # c
    BY <1>0, <2>2, <2>4
  <2> QED BY <2>2, <2>3, <2>4
<1>4. ASSUME NEW d \in Conns, Deliver(d) \/ (\E n : Takes(d, n) \/ Serves(d, n))
                              \/ DialOpens(d) \/ DialEnds(d)
      PROVE  UNCHANGED <<client, request>>
  BY <1>4 DEF Deliver, Takes, Serves, DialOpens, DialEnds, clientVars
<1>5. ASSUME AcceptOne \/ LeaveLoop \/ (\E how : Die(how)) \/ (\E fd : Closes(fd))
      PROVE  UNCHANGED <<client, request>>
  BY <1>5 DEF AcceptOne, LeaveLoop, Die, Closes, clientVars
<1>6. /\ client'[c] = client[c] \/ (client[c] = "idle" /\ client'[c] = "open")
         \/ (client[c] = "open" /\ client'[c] = "closed")
      /\ request'[c] = request[c] \/ (request[c] = NoRequest /\ Sends(c))
  BY <1>1, <1>2, <1>3, <1>4, <1>5 DEF ConnStep
<1> QED BY <1>6, <1>0
-----------------------------------------------------------------------------
(* One frame is all a connection carries.                                  *)

Load(c) == sock[c].avail + sock[c].taken

\* Nothing comes from a client that asked nothing, but the end.
Unasked == \A c \in Conns : client[c] # "closed" /\ request[c] = NoRequest =>
              wire[c] = <<>> /\ sock[c] = EmptySock

\* What is in the socket, was taken out of it and is under way is one frame
\* at most.
Traffic == \A c \in Conns :
              /\ Load(c) <= Units
              /\ Queued(c) \/ Accepted(c) => Carries(wire[c], Units - Load(c))

LEMMA StepKeepsUnasked ==
  ASSUME ConnTypes, Places, Unasked, ConnStep, NEW c \in Conns,
         client'[c] # "closed", request'[c] = NoRequest
  PROVE  wire'[c] = <<>> /\ sock'[c] = EmptySock
<1>1. \A r \in Requests : r # NoRequest
  <2>1. NoRequest.cmd = "NONE"
    BY DEF NoRequest
  <2> QED BY <2>1, RequestsAssumption
<1>2. request[c] = NoRequest /\ client[c] # "closed" /\ ~Sends(c) /\ ~Ended(c)
  BY <1>1, ClientsGoOn DEF Sends, Ended
<1>3. wire[c] = <<>> /\ sock[c] = EmptySock
  BY <1>2 DEF Unasked
<1>4. sock[c].avail = 0 /\ sock[c].taken = 0 /\ sock[c].fin = FALSE /\ sock[c].rst = FALSE
  BY <1>3 DEF EmptySock
<1>5. ASSUME NEW n \in Nat, Taken(c, n)
      PROVE  wire'[c] = <<>> /\ sock'[c] = EmptySock
  <2>1. n = 0
    BY <1>4, <1>5 DEF Taken
  <2>2. sock[c].avail - n = 0 /\ sock[c].taken + n = 0 /\ ~(n >= BodyLen)
    BY <1>4, <2>1 DEF BodyLen
  <2>3. sock'[c] = [avail |-> 0, taken |-> 0, fin |-> FALSE, rst |-> FALSE]
    BY <1>4, <1>5, <2>2, Zenon DEF Taken
  <2>4. wire'[c] = wire[c]
    BY <1>5, <2>2 DEF Taken
  <2> QED BY <1>3, <2>3, <2>4 DEF EmptySock
<1>6. Still(c) \/ Gone(c) \/ \E n \in Nat : Taken(c, n)
  BY <1>2, <1>3, StepOnConns DEF StepOn, Arrives
<1>7. CASE Still(c) \/ Gone(c)
  BY <1>3, <1>7 DEF Still, Gone
<1> QED BY <1>5, <1>6, <1>7

LEMMA StepKeepsTraffic ==
  ASSUME ConnTypes, Places, Unasked, Traffic, ConnStep, NEW c \in Conns
  PROVE  /\ Load(c)' <= Units
         /\ Queued(c)' \/ Accepted(c)' => Carries(wire'[c], Units - Load(c)')
<1> DEFINE w == wire[c]
           S == Rst..Units
<1>0. /\ Units \in Nat /\ sock[c].avail \in Nat /\ sock[c].taken \in Nat
      /\ S \subseteq Int /\ Fin \in S /\ Rst \in S /\ Fin <= 0 /\ Rst <= 0
  BY SockTypes DEF Units, HeadLen, BodyLen, Fin, Rst
<1>1. /\ w \in Seq(S) /\ Load(c) \in Nat /\ Load(c) <= Units
      /\ Units - Load(c) \in Nat
      /\ Queued(c) \/ Accepted(c) => Carries(w, Units - Load(c))
  BY <1>0 DEF ConnTypes, Traffic, Load
<1>2. Queued(c)' \/ Accepted(c)' => Queued(c) \/ Accepted(c) \/ (w = <<>> /\ Load(c) = 0)
  <2>1. Queued(c)' \/ Accepted(c)' => Queued(c) \/ Accepted(c) \/ client[c] = "idle"
    BY StepKeepsPlaces DEF Moved
  <2>2. ASSUME client[c] = "idle" PROVE w = <<>> /\ Load(c) = 0
    <3>1. request[c] = NoRequest
      BY <2>2 DEF Places, Unborn
    <3>2. w = <<>> /\ sock[c] = EmptySock
      BY <2>2, <3>1 DEF Unasked
    <3> QED BY <3>2 DEF EmptySock, Load
  <2> QED BY <2>1, <2>2
<1>3. Queued(c)' \/ Accepted(c)' => Carries(w, Units - Load(c))
  BY <1>0, <1>1, <1>2, CarriesNothing
<1>4. \A end \in {Fin, Rst} : Carries(w, Units - Load(c)) =>
                                 Carries(Append(w, end), Units - Load(c))
  BY <1>0, <1>1, CarriesEnd
<1>5. CASE Still(c)
  <2>1. wire'[c] = w /\ Load(c)' = Load(c)
    BY <1>5 DEF Still, Load
  <2> QED BY <1>1, <1>3, <2>1
<1>6. CASE Gone(c)
  <2>1. Load(c)' = 0 /\ ~Queued(c)' /\ ~Accepted(c)'
    BY <1>6 DEF Gone, Load, EmptySock
  <2> QED BY <1>0, <2>1
<1>7. CASE Sends(c)
  <2>1. PICK cut \in Segmentations : wire'[c] = w \o cut
    BY <1>7 DEF Sends
  <2>2. w = <<>> /\ sock[c] = EmptySock
    BY <1>7 DEF Unasked, Sends
  <2>3. Load(c)' = 0
    BY <1>7, <2>2 DEF Load, Sends, EmptySock
  <2>4. cut \in Seq(1..Units) /\ Carries(cut, Units)
    BY SegmentationsAssumption DEF Units
  <2>5. wire'[c] = cut
    BY <2>1, <2>2, <2>4, ConcatEmptySeq
  <2>6. Units - 0 = Units
    BY <1>0
  <2> QED BY <1>0, <2>3, <2>4, <2>5, <2>6
<1>8. CASE Ended(c)
  <2>1. Load(c)' = Load(c) /\ \E end \in {Fin, Rst} : wire'[c] = Append(w, end)
    BY <1>8 DEF Ended, Load
  <2> QED BY <1>1, <1>3, <1>4, <2>1
<1>9. CASE Arrives(c)
  <2>1. w # <<>> /\ Carries(w, Units - Load(c)) /\ wire'[c] = Tail(w)
    BY <1>1, <1>9 DEF Arrives
  <2>2. /\ Head(w) > 0 => /\ Head(w) <= Units - Load(c)
                          /\ Carries(Tail(w), (Units - Load(c)) - Head(w))
        /\ Carries(Tail(w), Units - Load(c))
    BY <1>0, <1>1, <2>1, CarriesTail
  <2>3. Head(w) \in S
    BY <1>1, <2>1, HeadTailProperties
  <2>4. Load(c)' = IF Head(w) > 0 THEN Load(c) + Head(w) ELSE Load(c)
    <3>1. /\ sock'[c].taken = sock[c].taken
          /\ sock'[c].avail = IF Head(w) > 0 THEN sock[c].avail + Head(w) ELSE sock[c].avail
      BY <1>9 DEF Arrives
    <3> QED BY <1>0, <2>3, <3>1 DEF Load
  <2>5. CASE Head(w) > 0
    <3>1. /\ Load(c)' = Load(c) + Head(w) /\ Load(c)' <= Units
          /\ Units - Load(c)' = (Units - Load(c)) - Head(w)
      BY <1>0, <1>1, <2>2, <2>3, <2>4, <2>5
    <3> QED BY <2>1, <2>2, <2>5, <3>1
  <2>6. CASE ~(Head(w) > 0)
    BY <1>1, <2>1, <2>2, <2>4, <2>6
  <2> QED BY <2>5, <2>6
<1>10. ASSUME NEW n \in Nat, Taken(c, n)
       PROVE  /\ Load(c)' <= Units
              /\ Queued(c)' \/ Accepted(c)' => Carries(wire'[c], Units - Load(c)')
  <2>1. sock'[c].avail = sock[c].avail - n /\ sock'[c].taken = sock[c].taken + n
    BY <1>10 DEF Taken
  <2>2. Load(c)' = Load(c)
    BY <1>0, <2>1 DEF Load
  <2>3. wire'[c] = w \/ wire'[c] = Append(w, Rst)
    BY <1>10 DEF Taken
  <2> QED BY <1>1, <1>3, <1>4, <2>2, <2>3
<1> HIDE DEF w, S
<1> QED BY <1>5, <1>6, <1>7, <1>8, <1>9, <1>10, StepOnConns DEF StepOn
-----------------------------------------------------------------------------
(* A connection whose request was served.                                  *)

\* Its frame was read to the end; it may be closed by now.
Spent(c) == /\ ~Queued(c) /\ client[c] # "idle"
            /\ Accepted(c) => sock[c].taken = Units

AnswersSpent == \A c \in Conns : replies[c] # <<>> => Spent(c)
DialSpent == \A c \in Conns : dial[c].at # "none" => Spent(c)

LEMMA StepKeepsSpent ==
  ASSUME ConnTypes, Places, Traffic, ConnStep, NEW c \in Conns, Spent(c)
  PROVE  Spent(c)'
<1>1. /\ sock[c].avail \in Nat /\ sock[c].taken \in Nat
      /\ sock[c].avail + sock[c].taken <= Units /\ Units \in Nat
  BY SockTypes DEF Traffic, Load, Units, HeadLen, BodyLen
<1>2. ~Queued(c)' /\ (Accepted(c)' => Accepted(c)) /\ client'[c] # "idle"
  BY StepKeepsPlaces DEF Moved, Spent
<1>3. ASSUME Accepted(c)' PROVE sock'[c].taken = Units
  <2>1. sock[c].taken = Units /\ ~Gone(c)
    BY <1>2, <1>3 DEF Spent, Gone
  <2>2. ASSUME NEW n \in Nat, Taken(c, n) PROVE sock'[c].taken = Units
    <3>1. sock'[c].taken = sock[c].taken + n /\ n <= sock[c].avail
      BY <2>2 DEF Taken
    <3> QED BY <1>1, <2>1, <3>1
  <2>3. ASSUME Still(c) \/ Sends(c) \/ Ended(c) \/ Arrives(c) PROVE sock'[c].taken = Units
    BY <2>1, <2>3 DEF Still, Sends, Ended, Arrives
  <2> QED BY <2>1, <2>2, <2>3, StepOnConns DEF StepOn
<1> QED BY <1>2, <1>3 DEF Spent

\* A request is served once.
LEMMA ServesSpent ==
  ASSUME ConnTypes, Places, Traffic, NEW c \in Conns, NEW n \in {BodyLen, Units}, Accepted(c),
         Serves(c, n)
  PROVE  ~Spent(c) /\ Spent(c)' /\ sock'[c].avail = 0
<1>1. /\ sock[c].avail \in Nat /\ sock[c].taken \in Nat
      /\ sock[c].avail + sock[c].taken <= Units /\ Units \in Nat /\ n \in Nat /\ n > 0
  BY SockTypes DEF Traffic, Load, Units, HeadLen, BodyLen
<1>2. /\ sock'[c].taken = sock[c].taken + n /\ sock'[c].avail = sock[c].avail - n
      /\ n <= sock[c].avail
  <2>1. Taken(c, n)
    BY ServesTaken
  <2> QED BY <2>1 DEF Taken
<1>3. sock[c].taken + n = Units /\ UNCHANGED <<client, backlog>>
  BY DEF Serves
<1>4. ~Queued(c) /\ client[c] # "idle"
  BY DEF Places, QueuedOnce, Unborn
<1>5. ~Queued(c)' /\ client'[c] # "idle"
  BY <1>3, <1>4 DEF Queued
<1>6. sock'[c].taken = Units /\ sock[c].taken # Units /\ sock'[c].avail = 0
  BY <1>1, <1>2, <1>3
<1> QED BY <1>5, <1>6 DEF Spent

\* An answer comes from a request that is served.
Answers(c) == \E n \in {BodyLen, Units} : \E answer :
                  /\ Accepted(c) /\ Serves(c, n)
                  /\ client[c] = "open" /\ replies'[c] = Append(replies[c], answer)

LEMMA RepliesStep ==
  ASSUME ConnTypes, ConnStep
  PROVE  /\ replies' = [c \in Conns |-> replies'[c]]
         /\ \A c \in Conns : replies'[c] = replies[c] \/ Answers(c)
<1>0. replies = [c \in Conns |-> replies[c]]
  BY DEF ConnTypes
<1>1. ASSUME NEW c \in Conns, NEW n \in {BodyLen, Units}, Accepted(c), Serves(c, n)
      PROVE  /\ replies' = [d \in Conns |-> replies'[d]]
             /\ \A d \in Conns : d # c => replies'[d] = replies[d]
             /\ replies'[c] = replies[c] \/ Answers(c)
  <2>1. /\ replies' = [d \in Conns |-> replies'[d]]
        /\ \A d \in Conns : d # c => replies'[d] = replies[d]
        /\ \/ replies'[c] = replies[c]
           \/ \E answer : client[c] = "open" /\ replies'[c] = Append(replies[c], answer)
    BY <1>1, ServesTaken
  <2> QED BY <1>1, <2>1 DEF Answers
<1>2. ASSUME NEW c \in Conns, \/ Connect(c) \/ HangUp(c) \/ Deliver(c)
                              \/ (\E r \in Requests : SendRequest(c, r))
                              \/ (\E n : Takes(c, n)) \/ DialOpens(c) \/ DialEnds(c)
      PROVE  replies' = replies
  BY <1>2 DEF Connect, HangUp, Deliver, SendRequest, Takes, DialOpens, DialEnds, clientVars
<1>3. ASSUME AcceptOne \/ LeaveLoop \/ (\E how : Die(how)) \/ (\E fd : Closes(fd))
      PROVE  replies' = replies
  BY <1>3 DEF AcceptOne, LeaveLoop, Die, Closes, clientVars
<1>4. CASE replies' = replies
  BY <1>0, <1>4
<1>5. CASE \E c \in Conns : \E n \in {BodyLen, Units} : Accepted(c) /\ Serves(c, n)
  <2>1. PICK c \in Conns : \E n \in {BodyLen, Units} : Accepted(c) /\ Serves(c, n)
    BY <1>5
  <2>2. replies' = [d \in Conns |-> replies'[d]]
    BY <1>1, <2>1
  <2>3. \A d \in Conns : replies'[d] = replies[d] \/ Answers(d)
    BY <1>1, <2>1
  <2> QED BY <2>2, <2>3
<1> QED BY <1>2, <1>3, <1>4, <1>5 DEF ConnStep

\* No client gets a second answer.
OneAnswer == \A c \in Conns : Len(replies[c]) <= 1

LEMMA StepKeepsAnswers ==
  ASSUME ConnTypes, Places, Traffic, AnswersSpent, OneAnswer, ConnStep
  PROVE  AnswersSpent' /\ OneAnswer'
<1> SUFFICES ASSUME NEW c \in Conns
             PROVE  (replies'[c] # <<>> => Spent(c)') /\ Len(replies'[c]) <= 1
  BY DEF AnswersSpent, OneAnswer
<1>1. CASE replies'[c] = replies[c]
  BY <1>1, StepKeepsSpent DEF AnswersSpent, OneAnswer
<1>2. CASE Answers(c)
  <2>1. PICK n, answer :
              /\ n \in {BodyLen, Units} /\ Accepted(c) /\ Serves(c, n)
              /\ replies'[c] = Append(replies[c], answer)
    BY <1>2 DEF Answers
  <2>2. ~Spent(c) /\ Spent(c)'
    BY <2>1, ServesSpent
  <2>3. replies[c] = <<>>
    BY <2>2 DEF AnswersSpent
  <2>4. Len(replies'[c]) = 1
    BY <2>1, <2>3
  <2> QED BY <2>2, <2>4
<1> QED BY <1>1, <1>2, RepliesStep
-----------------------------------------------------------------------------
(* The threads that dial.                                                  *)

LEMMA DialFields ==
  ASSUME NEW d \in [Conns -> Dialled], NEW c \in Conns,
         NEW at \in {"started", "over"}, NEW e, e = [d EXCEPT ![c].at = at]
  PROVE  /\ e \in [Conns -> Dialled] /\ e[c].at = at /\ e[c].fd = d[c].fd
         /\ \A b \in Conns : b # c => e[b] = d[b]
  BY DEF Dialled

\* A thread starts when a SEND is served.
LEMMA DialStep ==
  ASSUME ConnTypes, ConnStep
  PROVE  /\ dial' \in [Conns -> Dialled]
         /\ \A c \in Conns : dial'[c].at = "dialling" => dial'[c].fd \in Fds
         /\ \A c \in Conns : \/ dial'[c].at = "none" \/ dial[c].at # "none"
                             \/ \E n \in {BodyLen, Units} : Accepted(c) /\ Serves(c, n)
<1> DEFINE Goal ==
             /\ dial' \in [Conns -> Dialled]
             /\ \A c \in Conns : dial'[c].at = "dialling" => dial'[c].fd \in Fds
             /\ \A c \in Conns : \/ dial'[c].at = "none" \/ dial[c].at # "none"
                                 \/ \E n \in {BodyLen, Units} : Accepted(c) /\ Serves(c, n)
<1>0. /\ dial \in [Conns -> Dialled]
      /\ \A c \in Conns : dial[c].at = "dialling" => dial[c].fd \in Fds
  BY DEF ConnTypes
<1>1. ASSUME dial' = dial PROVE Goal
  BY <1>0, <1>1
<1>2. ASSUME NEW c \in Conns, NEW n \in {BodyLen, Units}, Accepted(c), Serves(c, n)
      PROVE  Goal
  <2>1. CASE dial' = [dial EXCEPT ![c].at = "started"]
    <3>1. /\ dial' \in [Conns -> Dialled] /\ dial'[c].at = "started"
          /\ \A d \in Conns : d # c => dial'[d] = dial[d]
      BY <1>0, <2>1, DialFields
    <3> QED BY <1>0, <1>2, <3>1
  <2> QED BY <1>1, <1>2, <2>1 DEF Serves
<1>3. ASSUME NEW c \in Conns, DialOpens(c) \/ DialEnds(c)
      PROVE  Goal
  <2>0. dial[c].at # "none"
    BY <1>3 DEF DialOpens, DialEnds
  <2>1. CASE dial' = [dial EXCEPT ![c].at = "over"]
    <3>1. /\ dial' \in [Conns -> Dialled] /\ dial'[c].at = "over"
          /\ \A d \in Conns : d # c => dial'[d] = dial[d]
      BY <1>0, <2>1, DialFields
    <3> QED BY <1>0, <2>0, <3>1
  <2>2. ASSUME FreeFds # {},
               dial' = [dial EXCEPT ![c] = [at |-> "dialling", fd |-> Lowest(FreeFds)]]
        PROVE  Goal
    <3>0. PICK fd \in Fds : fd = Lowest(FreeFds)
      BY <2>2, OpenFd
    <3>1. [at |-> "dialling", fd |-> fd] \in Dialled
      BY DEF Dialled
    <3>2. dial' = [dial EXCEPT ![c] = [at |-> "dialling", fd |-> fd]]
      BY <2>2, <3>0
    <3>3. /\ dial' \in [Conns -> Dialled] /\ dial'[c].fd = fd
          /\ \A d \in Conns : d # c => dial'[d] = dial[d]
      BY <1>0, <3>1, <3>2
    <3> QED BY <1>0, <2>0, <3>3
  <2> QED BY <1>3, <2>1, <2>2 DEF DialOpens, DialEnds
<1>4. ASSUME NEW how, Die(how)
      PROVE  Goal
  <2>1. dial' = [c \in Conns |-> NoDial]
    BY <1>4 DEF Die
  <2>2. NoDial \in Dialled /\ NoDial.at = "none"
    BY DEF NoDial, Dialled
  <2> QED BY <2>1, <2>2
<1>5. ASSUME NEW c \in Conns, \/ Connect(c) \/ HangUp(c) \/ Deliver(c)
                              \/ (\E r \in Requests : SendRequest(c, r)) \/ (\E n : Takes(c, n))
      PROVE  dial' = dial
  BY <1>5 DEF Connect, HangUp, Deliver, SendRequest, Takes, routineVars
<1>6. ASSUME AcceptOne \/ LeaveLoop
      PROVE  dial' = dial
  BY <1>6 DEF AcceptOne, LeaveLoop, routineVars
<1> HIDE DEF Goal
<1>7. \/ dial' = dial \/ (\E how : Die(how)) \/ (\E c \in Conns : DialOpens(c) \/ DialEnds(c))
      \/ \E c \in Conns : \E n \in {BodyLen, Units} : Accepted(c) /\ Serves(c, n)
  BY <1>5, <1>6 DEF ConnStep
<1>8. Goal
  BY <1>1, <1>2, <1>3, <1>4, <1>7
<1> QED BY <1>8 DEF Goal

LEMMA StepKeepsDialSpent ==
  ASSUME ConnTypes, Places, Traffic, DialSpent, ConnStep
  PROVE  DialSpent'
<1> SUFFICES ASSUME NEW c \in Conns, dial'[c].at # "none"
             PROVE  Spent(c)'
  BY DEF DialSpent
<1>1. dial[c].at # "none" \/ \E n \in {BodyLen, Units} : Accepted(c) /\ Serves(c, n)
  BY DialStep
<1> QED BY <1>1, StepKeepsSpent, ServesSpent DEF DialSpent
-----------------------------------------------------------------------------
(* Every step keeps the types.                                             *)

LEMMA StepKeepsKernelTypes ==
  ASSUME ConnTypes, ConnStep
  PROVE  wire' \in [Conns -> Seq(Rst..Units)] /\ sock' \in [Conns -> Sockets]
<1>0. wire \in [Conns -> Seq(Rst..Units)] /\ sock \in [Conns -> Sockets] /\ EmptySock \in Sockets
  BY DEF ConnTypes, EmptySock, Sockets
<1>1. ASSUME NEW c \in Conns, HangUp(c) \/ \E r \in Requests : SendRequest(c, r)
      PROVE  wire' \in [Conns -> Seq(Rst..Units)] /\ sock' = sock
  BY <1>1, HangsUpWire, SendsWire
<1>2. ASSUME NEW c \in Conns, Deliver(c)
      PROVE  wire' \in [Conns -> Seq(Rst..Units)] /\ sock' \in [Conns -> Sockets]
  <2>1. /\ wire' = [wire EXCEPT ![c] = Tail(wire[c])] /\ Tail(wire[c]) \in Seq(Rst..Units)
        /\ sock' \in [Conns -> Sockets]
    BY <1>2, DeliverSock
  <2> QED BY <1>0, <2>1
<1>3. ASSUME NEW fd, CloseFd(fd)
      PROVE  sock' \in [Conns -> Sockets]
  BY <1>0, <1>3 DEF CloseFd
<1>4. ASSUME NEW how, Die(how)
      PROVE  wire' = wire /\ sock' \in [Conns -> Sockets]
  BY <1>0, <1>4 DEF Die
<1>5. ASSUME NEW c \in Conns, Connect(c)
      PROVE  UNCHANGED <<wire, sock>>
  BY <1>5 DEF Connect
<1>6. ASSUME AcceptOne \/ LeaveLoop
      PROVE  UNCHANGED <<wire, sock>>
  BY <1>6 DEF AcceptOne, LeaveLoop
<1>7. ASSUME NEW c \in Conns, DialOpens(c) \/ DialEnds(c)
      PROVE  wire' = wire /\ (sock' = sock \/ \E fd : CloseFd(fd))
  BY <1>7 DEF DialOpens, DialEnds
<1>8. ASSUME NEW fd, Closes(fd)
      PROVE  wire' = wire /\ CloseFd(fd)
  BY <1>8 DEF Closes
<1>9. CASE \E c \in Conns : \/ Connect(c) \/ HangUp(c) \/ Deliver(c) \/ DialOpens(c) \/ DialEnds(c)
                            \/ \E r \in Requests : SendRequest(c, r)
  BY <1>0, <1>1, <1>2, <1>3, <1>5, <1>7, <1>9
<1>10. CASE AcceptOne \/ LeaveLoop \/ (\E how : Die(how)) \/ (\E fd \in Fds : Closes(fd))
  BY <1>0, <1>3, <1>4, <1>6, <1>8, <1>10
<1>11. CASE \/ \E c \in Conns, n \in Nat : Accepted(c) /\ n <= sock[c].avail /\ Takes(c, n)
            \/ \E c \in Conns : \E n \in {BodyLen, Units} : Accepted(c) /\ Serves(c, n)
  BY <1>0, <1>11, TakesTaken, ServesTaken
<1>12. CASE UNCHANGED <<client, request, replies, wire, sock, backlog, fds, dial>>
  BY <1>0, <1>12
<1> QED BY <1>9, <1>10, <1>11, <1>12 DEF ConnStep

LEMMA NextKeepsConnTypes ==
  ASSUME ConnTypes, Places, ConnStep, [Next]_vars
  PROVE  ConnTypes'
<1>1. RequestInv'
  BY NextKeepsRequestInv DEF ConnTypes
<1>2. client' \in [Conns -> {"idle", "open", "closed"}]
  BY StepKeepsClient
<1>3. replies' = [c \in Conns |-> replies'[c]]
  BY RepliesStep
<1>4. wire' \in [Conns -> Seq(Rst..Units)] /\ sock' \in [Conns -> Sockets]
  BY StepKeepsKernelTypes
<1>5. backlog' \in Seq(Conns) /\ fds' \in [Fds -> Conns \cup {"free", "std", "tor"}]
  BY StepKeepsPlaces
<1>6. /\ dial' \in [Conns -> Dialled]
      /\ \A c \in Conns : dial'[c].at = "dialling" => dial'[c].fd \in Fds
  BY DialStep
<1> QED BY <1>1, <1>2, <1>3, <1>4, <1>5, <1>6, Zenon DEF ConnTypes

\* A run queue that the main coroutine is in.
Queue(s) == s \in Seq(Routines) /\ Listed(s, Main)

LEMMA QueueAppend ==
  ASSUME NEW s, Queue(s), NEW x \in Routines
  PROVE  Queue(Append(s, x))
  BY ListedAppend, AppendedSeq DEF Queue

LEMMA QueueTail ==
  ASSUME LoopTypes, Running
  PROVE  /\ Queue(ready) /\ Queue(Append(Tail(ready), Main))
         /\ Head(ready) # Main => Queue(Tail(ready)) /\ Queue(Append(Tail(ready), Head(ready)))
<1>1. Main \in Routines /\ Queue(ready)
  BY DEF Routines, LoopTypes, Queue
<1>2. Tail(ready) \in Seq(Routines) /\ Head(ready) \in Routines
  BY ReadyTypes
<1>3. Queue(Append(Tail(ready), Main))
  BY <1>1, <1>2, ListedAppend, AppendedSeq DEF Queue
<1>4. ASSUME Head(ready) # Main
      PROVE  Queue(Tail(ready)) /\ Queue(Append(Tail(ready), Head(ready)))
  <2>1. Queue(Tail(ready))
    BY <1>2, <1>4, ReadyTypes DEF Queue
  <2> QED BY <1>2, <2>1, QueueAppend
<1> QED BY <1>1, <1>3, <1>4

LEMMA RecvDoesQueue ==
  ASSUME NEW fd \in Fds, NEW skip, NEW rest, Queue(rest), RecvDoes(fd, skip, rest)
  PROVE  Queue(ready')
<1>1. Body(fd) \in Routines /\ Relay(fd) \in Routines
  BY DEF Routines
<1>2. ready' = rest \/ ready' = Append(rest, Body(fd)) \/ ready' = Append(rest, Relay(fd))
  BY DEF RecvDoes
<1> QED BY <1>1, <1>2, QueueAppend

\* Every step keeps the main coroutine in the queue while the process runs.
LEMMA NextKeepsQueue ==
  ASSUME ConnTypes, LoopTypes, [Next]_vars
  PROVE  /\ ready' \in Seq(Routines)
         /\ Running' => Running /\ Listed(ready', Main)
<1>0. ready \in Seq(Routines) /\ (Running => Queue(ready))
  BY QueueTail DEF LoopTypes
<1>1. ASSUME NEW e \in batch, ReadEvent(e)
      PROVE  Running /\ Queue(ready')
  <2>1. Running
    BY <1>1 DEF ReadEvent, AtEvent, Running
  <2>2. Queue(Append(Tail(ready), Main))
    BY <2>1, QueueTail
  <2> QED BY <1>1, <2>1, <2>2, ReadEventDoes, RecvDoesQueue
<1>2. ASSUME ResumeBody
      PROVE  Running /\ Queue(ready')
  <2> DEFINE fd == Head(ready).fd
  <2>1. Running /\ fd \in Fds /\ Head(ready) = Body(fd)
    BY <1>2, ResumeBodyDoes
  <2>2. Head(ready) # Main
    BY <2>1 DEF Body, Main
  <2>3. Queue(Tail(ready)) /\ Queue(Append(Tail(ready), Body(fd)))
    BY <2>1, <2>2, QueueTail
  <2> QED BY <1>2, <2>1, <2>3, ResumeBodyDoes, RecvDoesQueue
<1>3. ASSUME ResumeRelay
      PROVE  Running /\ Queue(ready')
  <2>1. Running /\ Head(ready) # Main /\ ready' = Append(Tail(ready), Head(ready))
    BY <1>3 DEF ResumeRelay, Running, Main
  <2> QED BY <2>1, QueueTail
<1>4. ASSUME Poll
      PROVE  Running /\ Queue(ready')
  <2>1. Running /\ ready' = Append(Tail(ready), Main)
    BY <1>4 DEF Poll, Running
  <2> QED BY <2>1, QueueTail
<1>5. ASSUME DeadlineOver \/ FieldMissing \/ Shutdown
      PROVE  ready' = <<>> /\ ~Running'
  BY <1>5 DEF DeadlineOver, FieldMissing, Shutdown, Die, Running
<1>6. ASSUME \/ AcceptOne \/ AcceptFails \/ NextRound \/ LeaveLoop \/ Interrupt
             \/ (\E e \in batch : ErrorEvent(e) \/ ListenEvent(e))
      PROVE  ready' = ready /\ Running
  BY <1>6 DEF AcceptOne, AcceptFails, NextRound, LeaveLoop, Interrupt, ErrorEvent, ListenEvent,
              AtEvent, Running, routineVars
<1>7. ASSUME NEW c \in Conns, \/ Connect(c) \/ HangUp(c) \/ Deliver(c) \/ DialOpens(c)
                              \/ DialEnds(c) \/ (\E r \in Requests : SendRequest(c, r))
      PROVE  ready' = ready /\ loop' = loop
  BY <1>7 DEF Connect, HangUp, Deliver, DialOpens, DialEnds, SendRequest, routineVars, loopVars
<1>8. ASSUME UNCHANGED vars
      PROVE  ready' = ready /\ loop' = loop
  BY <1>8 DEF vars, routineVars, loopVars
<1>9. CASE ready' = ready /\ loop' = loop
  BY <1>0, <1>9 DEF Queue, Running
<1>10. CASE Running /\ Queue(ready')
  BY <1>10 DEF Queue
<1> QED BY <1>0, <1>1, <1>2, <1>3, <1>4, <1>5, <1>6, <1>7, <1>8, <1>9, <1>10, EmptySeq
       DEF Next, DaemonStep, ThreadStep, ClientStep

\* What epoll_wait reports are events.
LEMMA ReportedAreEvents ==
  ASSUME ConnTypes, LoopTypes, NEW e \in Reported
  PROVE  e = Listener \/ IsEvent(e)
<1>1. CASE e = Listener
  BY <1>1
<1>2. ASSUME NEW fd \in Fds, fds[fd] \in edge,
             e = [fd |-> fd, kind |-> IF sock[fds[fd]].rst THEN "err" ELSE "in", of |-> fds[fd]]
      PROVE  IsEvent(e)
  <2>1. fds[fd] \in Conns
    BY <1>2, ConnsAssumption DEF ConnTypes, LoopTypes
  <2>2. PICK kind \in {"in", "err"} : e = [fd |-> fd, kind |-> kind, of |-> fds[fd]]
    BY <1>2
  <2> QED BY <2>1, <2>2 DEF IsEvent, Event
<1> QED BY <1>1, <1>2 DEF Reported

LEMMA NextKeepsEdge ==
  ASSUME ConnTypes, LoopTypes, [Next]_vars
  PROVE  edge' \subseteq Conns \cup {"listener"}
<1>0. edge \subseteq Conns \cup {"listener"}
  BY DEF LoopTypes
<1>1. ASSUME NEW fd, CloseFd(fd)
      PROVE  edge' \subseteq edge
  BY <1>1 DEF CloseFd
<1>2. ASSUME NEW e \in batch, ReadEvent(e)
      PROVE  edge' \subseteq edge
  <2>1. Closes(e.fd) \/ RecvDoes(e.fd, HeadLen, Append(Tail(ready), Main))
    BY <1>2, ReadEventDoes
  <2> QED BY <1>1, <2>1 DEF RecvDoes, Closes, Takes, Serves
<1>3. ASSUME ResumeBody
      PROVE  edge' \subseteq edge
  <2>1. Closes(Head(ready).fd) \/ RecvDoes(Head(ready).fd, 0, Tail(ready)) \/ UNCHANGED kernelVars
    BY <1>3, ResumeBodyDoes
  <2> QED BY <1>1, <2>1 DEF RecvDoes, Closes, Takes, Serves, kernelVars
<1>4. ASSUME AcceptOne
      PROVE  edge' \subseteq edge \cup {Head(backlog)} /\ Head(backlog) \in Conns
  <2>1. backlog \in Seq(Conns) /\ backlog # <<>>
    BY <1>4 DEF ConnTypes, AcceptOne
  <2>2. Head(backlog) \in Conns
    BY <2>1, HeadTailProperties
  <2> QED BY <1>4, <2>2 DEF AcceptOne
<1>5. ASSUME NEW c \in Conns, Connect(c) \/ Deliver(c)
      PROVE  edge' \subseteq edge \cup {c, "listener"}
  BY <1>5 DEF Connect, Deliver
<1>6. ASSUME NEW c \in Conns, DialOpens(c) \/ DialEnds(c) \/ HangUp(c)
                              \/ (\E r \in Requests : SendRequest(c, r))
      PROVE  edge' \subseteq edge
  BY <1>1, <1>6 DEF DialOpens, DialEnds, HangUp, SendRequest
<1>7. ASSUME \/ AcceptFails \/ ResumeRelay \/ NextRound \/ LeaveLoop \/ Interrupt
             \/ (\E e \in batch : ErrorEvent(e) \/ ListenEvent(e))
      PROVE  edge' \subseteq edge
  BY <1>1, <1>7 DEF AcceptFails, ResumeRelay, NextRound, LeaveLoop, Interrupt, ErrorEvent,
                    ListenEvent, kernelVars
<1>8. ASSUME DeadlineOver \/ FieldMissing \/ Shutdown \/ Poll
      PROVE  edge' = {}
  BY <1>8 DEF DeadlineOver, FieldMissing, Shutdown, Die, Poll
<1>9. ASSUME UNCHANGED vars PROVE edge' = edge
  BY <1>9 DEF vars, kernelVars
<1>10. CASE DaemonStep
  <2>1. edge' \subseteq edge \/ AcceptOne \/ edge' = {}
    BY <1>2, <1>3, <1>7, <1>8, <1>10 DEF DaemonStep
  <2> QED BY <1>0, <1>4, <2>1
<1>11. CASE ThreadStep \/ ClientStep \/ \E c \in Conns : Deliver(c)
  <2>1. edge' \subseteq edge \/ \E c \in Conns : Connect(c) \/ Deliver(c)
    BY <1>6, <1>11 DEF ThreadStep, ClientStep
  <2> QED BY <1>0, <1>5, <2>1
<1> QED BY <1>0, <1>7, <1>9, <1>10, <1>11 DEF Next

\* How the loop goes on, and what is left of its batch.
LEMMA NextKeepsLoop ==
  ASSUME ConnTypes, LoopTypes, [Next]_vars
  PROVE  /\ loop' \in {"wait", "run", "accept", "left", "stopped", "aborted", "threw"}
         /\ loop' \in {"wait", "left"} => batch' = {}
         /\ batch' \subseteq batch \/ batch' = Reported
<1>0. /\ loop \in {"wait", "run", "accept", "left", "stopped", "aborted", "threw"}
      /\ loop \in {"wait", "left"} => batch = {}
  BY DEF LoopTypes
<1>1. ASSUME NEW e \in batch, ErrorEvent(e) \/ ListenEvent(e) \/ ReadEvent(e)
      PROVE  loop' \in {"run", "accept"} /\ batch' \subseteq batch
  BY <1>1 DEF ErrorEvent, ListenEvent, ReadEvent, AtEvent
<1>2. ASSUME Poll PROVE loop' = "run" /\ batch' = Reported
  BY <1>2 DEF Poll
<1>3. ASSUME AcceptOne \/ AcceptFails \/ ResumeBody \/ ResumeRelay
      PROVE  loop' \in {"run", "accept"} /\ batch' = batch
  BY <1>3 DEF AcceptOne, AcceptFails, ResumeBody, ResumeRelay, loopVars
<1>4. ASSUME NextRound \/ LeaveLoop
      PROVE  loop' \in {"wait", "left"} /\ batch' = {}
  BY <1>4 DEF NextRound, LeaveLoop
<1>5. ASSUME DeadlineOver \/ FieldMissing
      PROVE  loop' \in {"aborted", "threw"} /\ batch' = {}
  BY <1>5 DEF DeadlineOver, FieldMissing, Die
<1>6. ASSUME Shutdown PROVE loop' = "stopped" /\ batch' = batch
  BY <1>6 DEF Shutdown, Die
<1>7. ASSUME NEW c \in Conns, \/ Connect(c) \/ HangUp(c) \/ Deliver(c) \/ DialOpens(c)
                              \/ DialEnds(c) \/ (\E r \in Requests : SendRequest(c, r))
      PROVE  loop' = loop /\ batch' = batch
  BY <1>7 DEF Connect, HangUp, Deliver, DialOpens, DialEnds, SendRequest, loopVars
<1>8. ASSUME Interrupt \/ UNCHANGED vars PROVE loop' = loop /\ batch' = batch
  BY <1>8 DEF Interrupt, vars, loopVars
<1>9. CASE DaemonStep
  BY <1>1, <1>2, <1>3, <1>4, <1>5, <1>6, <1>9 DEF DaemonStep
<1>10. CASE ThreadStep \/ ClientStep \/ \E c \in Conns : Deliver(c)
  BY <1>0, <1>7, <1>10 DEF ThreadStep, ClientStep
<1> QED BY <1>0, <1>8, <1>9, <1>10 DEF Next

LEMMA NextKeepsLoopTypes ==
  ASSUME ConnTypes, LoopTypes, [Next]_vars
  PROVE  LoopTypes'
<1>1. \A e \in batch' : e = Listener \/ IsEvent(e)
  BY NextKeepsLoop, ReportedAreEvents DEF LoopTypes
<1>2. Running' => Listed(ready', Main)
  BY NextKeepsQueue
<1>3. ready' \in Seq(Routines)
  BY NextKeepsQueue
<1> QED BY <1>1, <1>2, <1>3, NextKeepsLoop, NextKeepsEdge DEF LoopTypes
-----------------------------------------------------------------------------
FlagTypes == exitFlag \in BOOLEAN /\ nConn \in Int /\ trackFd \subseteq Fds \cup {-1}

LEMMA DispatchKeepsFlag ==
  ASSUME NEW fd, NEW skip, NEW rest, RecvBody(fd, skip, rest), exitFlag \in BOOLEAN
  PROVE  exitFlag' \in BOOLEAN
<1>1. ASSUME NEW r, Dispatch(fd, r, rest) PROVE exitFlag' \in BOOLEAN
  BY <1>1 DEF Dispatch, StoreIt, Update, GetPeers, Host, Send, Exit, Ignore
<1> QED BY <1>1 DEF RecvBody, Refuse

LEMMA NextKeepsFlags ==
  ASSUME ConnTypes, LoopTypes, FlagTypes, [Next]_vars
  PROVE  FlagTypes'
<1>0. exitFlag \in BOOLEAN /\ nConn \in Int /\ trackFd \subseteq Fds \cup {-1}
  BY DEF FlagTypes
<1>1. ASSUME NEW e \in batch, ReadEvent(e)
      PROVE  exitFlag' \in BOOLEAN /\ UNCHANGED <<nConn, trackFd>>
  BY <1>0, <1>1, DispatchKeepsFlag DEF ReadEvent, Refuse
<1>2. ASSUME ResumeBody
      PROVE  exitFlag' \in BOOLEAN /\ UNCHANGED <<nConn, trackFd>>
  BY <1>0, <1>2, DispatchKeepsFlag DEF ResumeBody, Refuse, loopVars
<1>3. ASSUME NEW e \in batch, ErrorEvent(e) \/ ListenEvent(e)
      PROVE  exitFlag' = exitFlag /\ nConn' \in Int /\ trackFd' \subseteq trackFd
  BY <1>0, <1>3 DEF ErrorEvent, ListenEvent, routineVars
<1>4. ASSUME AcceptOne
      PROVE  exitFlag' = exitFlag /\ nConn' \in Int /\ trackFd' \subseteq Fds \cup {-1}
  BY <1>0, <1>4, OpenFd DEF AcceptOne, routineVars
<1>5. ASSUME AcceptFails
      PROVE  exitFlag' = exitFlag /\ nConn' \in Int /\ trackFd' \subseteq Fds \cup {-1}
  BY <1>0, <1>5 DEF AcceptFails, routineVars
<1>6. ASSUME LeaveLoop
      PROVE  UNCHANGED <<exitFlag, trackFd>> /\ nConn' \in Int
  BY <1>0, <1>6 DEF LeaveLoop, routineVars
<1>7. ASSUME Interrupt
      PROVE  exitFlag' \in BOOLEAN /\ UNCHANGED <<nConn, trackFd>>
  BY <1>7 DEF Interrupt, loopVars
<1>8. ASSUME Poll \/ DeadlineOver \/ FieldMissing \/ ResumeRelay \/ NextRound \/ Shutdown
             \/ UNCHANGED vars
      PROVE  UNCHANGED <<exitFlag, nConn, trackFd>>
  BY <1>8 DEF Poll, DeadlineOver, FieldMissing, ResumeRelay, NextRound, Shutdown, Die, vars,
              loopVars, routineVars
<1>9. ASSUME NEW c \in Conns, \/ Connect(c) \/ HangUp(c) \/ Deliver(c) \/ DialOpens(c)
                              \/ DialEnds(c) \/ (\E r \in Requests : SendRequest(c, r))
      PROVE  UNCHANGED <<exitFlag, nConn, trackFd>>
  BY <1>9 DEF Connect, HangUp, Deliver, DialOpens, DialEnds, SendRequest, loopVars, routineVars
<1>10. CASE DaemonStep
  BY <1>0, <1>1, <1>2, <1>3, <1>4, <1>5, <1>6, <1>8, <1>10 DEF DaemonStep, FlagTypes
<1>11. CASE ThreadStep \/ ClientStep \/ \E c \in Conns : Deliver(c)
  BY <1>0, <1>9, <1>11 DEF ThreadStep, ClientStep, FlagTypes
<1> QED BY <1>0, <1>7, <1>8, <1>10, <1>11 DEF Next, FlagTypes
-----------------------------------------------------------------------------
(* The invariant of the connections.                                       *)

ConnInv == ConnTypes /\ LoopTypes /\ Places /\ Unasked /\ Traffic /\ AnswersSpent /\ DialSpent

LEMMA InitConnInv == Init => ConnInv /\ FlagTypes /\ OneAnswer
<1> SUFFICES ASSUME Init PROVE ConnInv /\ FlagTypes /\ OneAnswer
  OBVIOUS
<1>1. /\ client = [c \in Conns |-> "idle"]
      /\ request = [c \in Conns |-> NoRequest]
      /\ replies = [c \in Conns |-> <<>>]
      /\ wire = [c \in Conns |-> <<>>]
      /\ sock = [c \in Conns |-> EmptySock]
      /\ backlog = <<>>
      /\ fds = [fd \in Fds |-> IF fd \in {0, 1} THEN "std" ELSE "free"]
      /\ edge = {}
      /\ loop = "wait" /\ batch = {} /\ nConn = 0 /\ trackFd = {}
      /\ ready = <<Main>> /\ exitFlag = FALSE
      /\ dial = [c \in Conns |-> NoDial]
  BY DEF Init
<1>2. \A fd \in Fds : fds[fd] \notin Conns
  BY <1>1, ConnsAssumption
<1>3. \A c \in Conns : ~Accepted(c) /\ ~Queued(c)
  <2>1. \A i \in 1..Len(backlog) : FALSE
    BY <1>1
  <2> QED BY <1>2, <2>1 DEF Accepted, Queued
<1>4. LoopTypes
  <2>1. <<Main>> \in Seq(Routines) /\ Listed(<<Main>>, Main)
    BY DEF Routines, Listed
  <2> QED BY <1>1, <2>1 DEF LoopTypes
<1>5. ConnTypes
  <2>1. EmptySock \in Sockets
    BY DEF EmptySock, Sockets
  <2>2. NoDial \in Dialled /\ NoDial.at # "dialling"
    BY DEF NoDial, Dialled
  <2>3. sock \in [Conns -> Sockets] /\ dial \in [Conns -> Dialled]
        /\ \A c \in Conns : dial[c].at = "dialling" => dial[c].fd \in Fds
    BY <1>1, <2>1, <2>2
  <2>4. <<>> \in Seq(Rst..Units) /\ <<>> \in Seq(Conns)
    OBVIOUS
  <2>5. wire \in [Conns -> Seq(Rst..Units)] /\ backlog \in Seq(Conns)
    BY <1>1, <2>4
  <2>6. replies = [c \in Conns |-> replies[c]]
    BY <1>1
  <2>7. /\ client \in [Conns -> {"idle", "open", "closed"}] /\ RequestInv
        /\ fds \in [Fds -> Conns \cup {"free", "std", "tor"}]
    BY <1>1 DEF RequestInv
  <2> QED BY <2>3, <2>5, <2>6, <2>7 DEF ConnTypes
<1>6. Places
  <2>1. Distinct(backlog)
    BY <1>1 DEF Distinct
  <2> QED BY <1>1, <1>2, <1>3, <2>1 DEF Places, OneDescriptor, QueuedOnce, Unborn
<1>7. Unasked /\ Traffic
  <2>1. \A c \in Conns : Load(c) = 0
    BY <1>1 DEF Load, EmptySock
  <2>2. Units \in Nat
    BY DEF Units, HeadLen, BodyLen
  <2> QED BY <1>1, <1>3, <2>1, <2>2 DEF Unasked, Traffic
<1>8. AnswersSpent /\ DialSpent /\ OneAnswer
  BY <1>1 DEF AnswersSpent, DialSpent, OneAnswer, NoDial
<1>9. FlagTypes
  <2>1. exitFlag \in BOOLEAN
    BY <1>1, Zenon
  <2>2. nConn \in Int
    BY <1>1
  <2>3. trackFd \subseteq Fds \cup {-1}
    BY <1>1
  <2> QED BY <2>1, <2>2, <2>3 DEF FlagTypes
<1> QED BY <1>4, <1>5, <1>6, <1>7, <1>8, <1>9 DEF ConnInv

LEMMA NextKeepsConnInv == ConnInv /\ OneAnswer /\ [Next]_vars => ConnInv' /\ OneAnswer'
<1> SUFFICES ASSUME ConnInv, OneAnswer, [Next]_vars PROVE ConnInv' /\ OneAnswer'
  OBVIOUS
<1>1. ConnTypes /\ LoopTypes /\ Places /\ Unasked /\ Traffic /\ AnswersSpent /\ DialSpent
  BY DEF ConnInv
<1>2. ConnStep
  BY <1>1, NextIsConnStep
<1>3. ConnTypes' /\ LoopTypes' /\ Places'
  BY <1>1, <1>2, NextKeepsConnTypes, NextKeepsLoopTypes, StepKeepsPlaces
<1>4. Unasked' /\ Traffic'
  BY <1>1, <1>2, StepKeepsUnasked, StepKeepsTraffic DEF Unasked, Traffic
<1>5. AnswersSpent' /\ OneAnswer' /\ DialSpent'
  BY <1>1, <1>2, StepKeepsAnswers, StepKeepsDialSpent
<1> QED BY <1>3, <1>4, <1>5 DEF ConnInv

LEMMA ConnInvariant == Spec => [](ConnInv /\ FlagTypes /\ OneAnswer)
<1>1. ConnInv /\ FlagTypes /\ [Next]_vars => FlagTypes'
  BY NextKeepsFlags DEF ConnInv
<1> QED BY <1>1, InitConnInv, NextKeepsConnInv, PTL DEF Spec

LEMMA ConnInvTypes == ConnInv /\ FlagTypes /\ Store!TypeOK => TypeOK
<1> SUFFICES ASSUME ConnInv, FlagTypes, Store!TypeOK PROVE TypeOK
  OBVIOUS
<1>0. ConnTypes /\ LoopTypes /\ Traffic
  BY DEF ConnInv
<1>1. \A c \in Conns : \A i \in 1..Len(wire[c]) : wire[c][i] \in Rst..(HeadLen + BodyLen)
  BY <1>0, ElementOfSeq DEF ConnTypes, Units
<1>2. \A i \in 1..Len(backlog) : backlog[i] \in Conns
  BY <1>0, ElementOfSeq DEF ConnTypes
<1>3. sock \in [Conns -> [avail : 0..(HeadLen + BodyLen), taken : 0..(HeadLen + BodyLen),
                          fin : BOOLEAN, rst : BOOLEAN]]
  <2>1. \A c \in Conns : sock[c].avail \in 0..Units /\ sock[c].taken \in 0..Units
    BY <1>0, SockTypes DEF Traffic, Load, Units, HeadLen, BodyLen
  <2>2. sock \in [Conns -> Sockets]
    BY <1>0 DEF ConnTypes
  <2> QED BY <2>1, <2>2 DEF Sockets, Units
<1>4. batch \subseteq [fd : Fds, kind : {"in", "err"}, of : Conns] \cup {Listener}
  BY <1>0 DEF LoopTypes, IsEvent, Event
<1>5. \A i \in 1..Len(ready) : ready[i] = Main \/ \E fd \in Fds : ready[i] \in {Body(fd), Relay(fd)}
  <2>1. \A i \in 1..Len(ready) : ready[i] \in Routines
    BY <1>0, ElementOfSeq DEF LoopTypes
  <2> QED BY <2>1 DEF Routines
<1>6. /\ client \in [Conns -> {"idle", "open", "closed"}]
      /\ request \in [Conns -> Requests \cup {NoRequest}]
      /\ fds \in [Fds -> Conns \cup {"free", "std", "tor"}]
      /\ edge \subseteq Conns \cup {"listener"}
      /\ loop \in {"wait", "run", "accept", "left", "stopped", "aborted", "threw"}
  BY <1>0 DEF ConnTypes, LoopTypes, RequestInv
<1>7. dial \in [Conns -> [at : {"none", "started", "dialling", "over"}, fd : Fds \cup {-1}]]
  BY <1>0 DEF ConnTypes, Dialled
<1> QED BY <1>1, <1>2, <1>3, <1>4, <1>5, <1>6, <1>7 DEF TypeOK, FlagTypes

\* The daemon keeps its types.
THEOREM DaemonTypeCorrect == Spec => []TypeOK
<1>1. StoreProofs!Spec => []StoreProofs!TypeOK
  BY StoreProofs!StoreTypeCorrect DEF StoreProofs!StoreTypeCorrect
<1>2. StoreProofs!TypeOK => Store!TypeOK
  BY DEF StoreProofs!TypeOK, Store!TypeOK
<1> QED BY <1>1, <1>2, DaemonUsesStore, StoreSpecs, ConnInvariant, ConnInvTypes, PTL
-----------------------------------------------------------------------------
(* The messages that clients are given.                                    *)

Given(p, t) == [cmd |-> "RECV", id |-> p, msg |-> t]

\* A message leaves the store in the step that answers c with it.
Hands(c, p) ==
    /\ handed' = [handed EXCEPT ![p] = Append(@, Head(queue[p]))]
    /\ Reply(c, Given(p, Head(queue[p])))

\* An answer that hands out nothing.
Tells(c, answer) == answer.cmd # "RECV" /\ Reply(c, answer)

LEMMA DispatchHands ==
  ASSUME NEW fd, NEW r \in Requests \cup {NoRequest}, NEW rest, Dispatch(fd, r, rest)
  PROVE  \/ handed' = handed /\ (replies' = replies \/ \E answer : Tells(fds[fd], answer))
         \/ r.msg \in Peers /\ Hands(fds[fd], r.msg)
<1> DEFINE c == fds[fd]
<1>1. CASE StoreIt(r) \/ Exit(r) \/ Ignore(r) \/ Send(c, r)
  BY <1>1 DEF StoreIt, Exit, Ignore, Send, Store!StoreMsg, storeVars
<1>2. CASE GetPeers(c, r)
  <2> DEFINE answer == [cmd |-> "GET_PEERS", id |-> r.id, msg |-> Store!GetPeerList]
  <2>1. Reply(c, answer) /\ handed' = handed
    BY <1>2 DEF GetPeers, storeVars
  <2>2. answer.cmd # "RECV"
    OBVIOUS
  <2> HIDE DEF answer
  <2> QED BY <2>1, <2>2 DEF Tells
<1>3. CASE Host(c, r)
  <2> DEFINE answer == [cmd |-> "HOST", id |-> r.id, msg |-> "hostname"]
  <2>1. Reply(c, answer) /\ handed' = handed
    BY <1>3 DEF Host, storeVars
  <2>2. answer.cmd # "RECV"
    OBVIOUS
  <2> HIDE DEF answer
  <2> QED BY <2>1, <2>2 DEF Tells
<1>4. CASE Update(c, r)
  <2> DEFINE none == [cmd |-> "END", id |-> r.msg, msg |-> r.msg]
  <2>1. CASE Reply(c, none) /\ UNCHANGED storeVars
    <3>1. none.cmd # "RECV"
      OBVIOUS
    <3> HIDE DEF none
    <3> QED BY <2>1, <3>1 DEF Tells, storeVars
  <2>2. CASE /\ Reply(c, [cmd |-> "RECV", id |-> r.msg, msg |-> Head(queue[r.msg])])
             /\ Store!GetUnreadMessage(r.msg)
    <3>1. r \in Requests /\ r.cmd = "UPDATE"
      BY <1>4 DEF Update, NoRequest
    <3>2. r.msg \in Peers
      BY <3>1, RequestsAssumption
    <3>3. handed' = [handed EXCEPT ![r.msg] = Append(@, Head(queue[r.msg]))]
      BY <2>2 DEF Store!GetUnreadMessage
    <3> QED BY <2>2, <3>2, <3>3 DEF Hands, Given
  <2> QED BY <1>4, <2>1, <2>2 DEF Update
<1> QED BY <1>1, <1>2, <1>3, <1>4 DEF Dispatch

\* The step that hands out a message, or answers without one, serves a
\* request that had no answer.
HandStep ==
    \/ UNCHANGED <<handed, replies>>
    \/ \E c \in Conns :
          /\ client[c] # "idle" /\ replies[c] = <<>> /\ client' = client
          /\ \/ handed' = handed /\ \E answer : Tells(c, answer)
             \/ \E p \in Peers : Hands(c, p)

LEMMA RecvBodyHands ==
  ASSUME ConnInv, NEW fd \in Fds, fds[fd] \in Conns, NEW skip \in {0, HeadLen},
         skip <= sock[fds[fd]].avail, NEW rest, RecvBody(fd, skip, rest)
  PROVE  HandStep
<1> DEFINE c == fds[fd]
<1>0. ConnTypes /\ Places /\ Traffic /\ AnswersSpent
  BY DEF ConnInv
<1>1. CASE \/ Refuse(fd, rest)
           \/ UNCHANGED <<clientVars, wire, backlog, fds, edge, exitFlag, dial, storeVars>>
  BY <1>1 DEF Refuse, HandStep, clientVars, storeVars
<1>2. CASE /\ IsJson(fd, skip) /\ Consume(c, skip + Received(fd, skip))
           /\ Dispatch(fd, request[c], rest)
  <2>1. sock[c].avail \in Nat /\ sock[c].taken \in Nat
    BY <1>0, SockTypes
  <2>2. Serves(c, skip + BodyLen)
    BY <1>2, <2>1, DispatchServes
  <2>3. skip + BodyLen \in {BodyLen, Units} /\ Accepted(c)
    BY DEF HeadLen, BodyLen, Units, Accepted
  <2>4. ~Spent(c)
    BY <1>0, <2>2, <2>3, ServesSpent
  <2>5. replies[c] = <<>> /\ client[c] # "idle" /\ client' = client
    BY <1>0, <2>2, <2>3, <2>4 DEF AnswersSpent, Places, Unborn, Serves
  <2>6. request[c] \in Requests \cup {NoRequest}
    BY <1>0 DEF ConnTypes, RequestInv
  <2>7. \/ handed' = handed /\ (replies' = replies \/ \E answer : Tells(c, answer))
        \/ request[c].msg \in Peers /\ Hands(c, request[c].msg)
    BY <1>2, <2>6, DispatchHands
  <2> QED BY <2>5, <2>7 DEF HandStep
<1> QED BY <1>1, <1>2 DEF RecvBody

LEMMA NextIsHandStep ==
  ASSUME ConnInv, [Next]_vars
  PROVE  HandStep
<1>0. ConnTypes /\ LoopTypes
  BY DEF ConnInv
<1>1. ASSUME NEW e \in batch, ReadEvent(e)
      PROVE  HandStep
  <2> DEFINE rest == Append(Tail(ready), Main)
  <2>1. e.fd \in Fds
    BY <1>0, <1>1, ReadEventDoes
  <2>2. CASE fds[e.fd] \in Conns /\ GoodHead(fds[e.fd]) /\ RecvBody(e.fd, HeadLen, rest)
    <3>1. HeadLen <= sock[fds[e.fd]].avail
      BY <1>0, <2>2, SockTypes DEF GoodHead, HeadLen
    <3> QED BY <2>1, <2>2, <3>1, RecvBodyHands
  <2>3. CASE Refuse(e.fd, rest)
    BY <2>3 DEF Refuse, HandStep, clientVars, storeVars
  <2> QED BY <1>1, <2>2, <2>3 DEF ReadEvent
<1>2. ASSUME ResumeBody
      PROVE  HandStep
  <2> DEFINE fd == Head(ready).fd
  <2>1. fd \in Fds
    BY <1>0, <1>2, ResumeBodyDoes
  <2>2. CASE fds[fd] \in Conns /\ RecvBody(fd, 0, Tail(ready))
    <3>1. 0 <= sock[fds[fd]].avail
      BY <1>0, <2>2, SockTypes
    <3> QED BY <2>1, <2>2, <3>1, RecvBodyHands
  <2>3. CASE Refuse(fd, Tail(ready)) \/ UNCHANGED <<clientVars, kernelVars, exitFlag, dial, storeVars>>
    BY <2>3 DEF Refuse, HandStep, clientVars, storeVars
  <2> QED BY <1>2, <2>2, <2>3 DEF ResumeBody
<1>3. ASSUME \/ Poll \/ AcceptOne \/ AcceptFails \/ DeadlineOver \/ FieldMissing
             \/ ResumeRelay \/ NextRound \/ LeaveLoop \/ Interrupt
             \/ (\E e \in batch : ErrorEvent(e) \/ ListenEvent(e))
      PROVE  UNCHANGED <<handed, replies>>
  BY <1>3 DEF Poll, AcceptOne, AcceptFails, DeadlineOver, FieldMissing, ResumeRelay, NextRound,
              LeaveLoop, Interrupt, ErrorEvent, ListenEvent, Die, clientVars, storeVars
<1>4. ASSUME Shutdown
      PROVE  UNCHANGED <<handed, replies>>
  BY <1>4 DEF Shutdown, Die, Store!ClearDatastructs, clientVars
<1>5. ASSUME NEW c \in Conns, \/ Connect(c) \/ HangUp(c) \/ Deliver(c) \/ DialOpens(c)
                              \/ DialEnds(c) \/ (\E r \in Requests : SendRequest(c, r))
      PROVE  UNCHANGED <<handed, replies>>
  BY <1>5 DEF Connect, HangUp, Deliver, DialOpens, DialEnds, SendRequest, clientVars, storeVars
<1>6. ASSUME UNCHANGED vars PROVE UNCHANGED <<handed, replies>>
  BY <1>6 DEF vars, clientVars, storeVars
<1>7. CASE DaemonStep
  BY <1>1, <1>2, <1>3, <1>4, <1>7 DEF DaemonStep, HandStep
<1>8. CASE ThreadStep \/ ClientStep \/ \E c \in Conns : Deliver(c)
  BY <1>5, <1>8 DEF ThreadStep, ClientStep, HandStep
<1> QED BY <1>3, <1>6, <1>7, <1>8 DEF Next, HandStep
-----------------------------------------------------------------------------
(* How often a text was handed out, and how often it was answered.         *)

Positions(s, t) == {i \in 1..Len(s) : s[i] = t}
HandedAt(p, t) == Positions(handed[p], t)
AnsweredOn(p, t) == {c \in Conns : replies[c] = <<Given(p, t)>>}

LEMMA SameGiven ==
  ASSUME NEW p, NEW t, NEW q, NEW m, Given(p, t) = Given(q, m)
  PROVE  p = q /\ t = m
<1>1. Given(p, t).id = p /\ Given(p, t).msg = t /\ Given(q, m).id = q /\ Given(q, m).msg = m
  BY DEF Given
<1> QED BY <1>1

LEMMA FiniteHanded ==
  ASSUME NEW T, NEW s \in Seq(T), NEW t
  PROVE  IsFiniteSet(Positions(s, t))
<1>1. IsFiniteSet(1..Len(s))
  BY FS_Interval
<1>2. Positions(s, t) \subseteq 1..Len(s)
  BY DEF Positions
<1> QED BY <1>1, <1>2, FS_Subset

\* One more message is handed out.
LEMMA CountHanded ==
  ASSUME NEW T, NEW s \in Seq(T), NEW m, NEW t
  PROVE  /\ t = m => Cardinality(Positions(Append(s, m), t)) = Cardinality(Positions(s, t)) + 1
         /\ t # m => Positions(Append(s, m), t) = Positions(s, t)
<1> DEFINE u == Append(s, m)
           n == Len(s)
           now == {i \in 1..n : s[i] = t}
           next == {i \in 1..Len(u) : u[i] = t}
<1>1. s \in Seq(T \cup {m})
  BY SeqMonotonic
<1>2. n \in Nat /\ Len(u) = n + 1 /\ u[n + 1] = m /\ \A i \in 1..n : u[i] = s[i]
  BY <1>1, AppendedSeq
<1> HIDE DEF u
<1>3. IsFiniteSet(now)
  BY FiniteHanded DEF Positions
<1>4. \A i \in 1..(n + 1) : i \in 1..n \/ i = n + 1
  BY <1>2
<1>5. n + 1 \in 1..(n + 1) /\ n + 1 \notin 1..n /\ 1..n \subseteq 1..(n + 1)
  BY <1>2
<1>6. ASSUME t = m PROVE Cardinality(next) = Cardinality(now) + 1
  <2>1. next = now \cup {n + 1}
    BY <1>2, <1>4, <1>5, <1>6
  <2>2. n + 1 \notin now
    BY <1>5
  <2> HIDE DEF now, next
  <2> QED BY <1>3, <2>1, <2>2, FS_AddElement
<1>7. ASSUME t # m PROVE next = now
  BY <1>2, <1>4, <1>5, <1>7
<1> QED BY <1>6, <1>7 DEF u, Positions

LEMMA StepKeepsHanded ==
  ASSUME ConnInv, Store!TypeOK, HandedOutOnce, HandStep, ConnStep
  PROVE  HandedOutOnce'
<1> SUFFICES ASSUME NEW p \in Peers, NEW t \in Texts
             PROVE  /\ TimesAnswered(p, t)' <= TimesHanded(p, t)'
                    /\ (\A c \in Conns : client'[c] # "closed") =>
                          TimesAnswered(p, t)' = TimesHanded(p, t)'
  BY DEF HandedOutOnce
<1> DEFINE A == AnsweredOn(p, t)
           H == HandedAt(p, t)
<1>0. ConnTypes /\ replies = [c \in Conns |-> replies[c]]
  BY DEF ConnInv, ConnTypes
<1>1. /\ TimesAnswered(p, t) = Cardinality(A) /\ TimesAnswered(p, t)' = Cardinality(A')
      /\ TimesHanded(p, t) = Cardinality(H) /\ TimesHanded(p, t)' = Cardinality(H')
  BY DEF TimesAnswered, TimesHanded, AnsweredOn, HandedAt, Positions, Given
<1>2. IsFiniteSet(A) /\ Cardinality(A) \in Nat
  <2>1. A \subseteq Conns
    BY DEF AnsweredOn
  <2> QED BY <2>1, ConnsAssumption, FS_Subset, FS_CardinalityType
<1>3. handed \in [Peers -> Seq(Texts)] /\ handed[p] \in Seq(Texts)
  BY DEF Store!TypeOK
<1>4. IsFiniteSet(H) /\ Cardinality(H) \in Nat
  BY <1>3, FiniteHanded, FS_CardinalityType DEF HandedAt
<1>5. /\ Cardinality(A) <= Cardinality(H)
      /\ (\A c \in Conns : client[c] # "closed") => Cardinality(A) = Cardinality(H)
  BY <1>1 DEF HandedOutOnce
<1>6. (\A c \in Conns : client'[c] # "closed") => (\A c \in Conns : client[c] # "closed")
  BY <1>0, ClientsGoOn
<1> DEFINE Goal == /\ Cardinality(A') <= Cardinality(H')
                   /\ (\A c \in Conns : client'[c] # "closed") => Cardinality(A') = Cardinality(H')
<1>7. ASSUME A' = A, H' = H PROVE Goal
  BY <1>5, <1>6, <1>7
<1>8. ASSUME handed' = handed PROVE H' = H
  BY <1>8 DEF HandedAt
<1>9. CASE UNCHANGED <<handed, replies>>
  <2>1. A' = A
    BY <1>9 DEF AnsweredOn
  <2> QED BY <1>1, <1>7, <1>8, <1>9, <2>1
<1>10. ASSUME NEW c \in Conns, client[c] # "idle", replies[c] = <<>>, client' = client,
              NEW answer, Reply(c, answer)
       PROVE  /\ answer # Given(p, t) => A' = A
              /\ answer = Given(p, t) =>
                    \/ client[c] = "open" /\ Cardinality(A') = Cardinality(A) + 1
                    \/ client'[c] = "closed" /\ A' = A
  <2>1. /\ \A d \in Conns : d # c => replies'[d] = replies[d]
        /\ client[c] = "open" => replies'[c] = Append(replies[c], answer)
        /\ client[c] # "open" => replies' = replies
    BY <1>0, <1>10, ReplyDoes
  <2>2. c \notin A
    <3>1. <<>> # <<Given(p, t)>>
      OBVIOUS
    <3> QED BY <1>10, <3>1, Zenon DEF AnsweredOn
  <2>3. CASE client[c] # "open"
    <3>1. client'[c] = "closed"
      BY <1>0, <1>10, <2>3 DEF ConnTypes
    <3>2. A' = A
      BY <2>1, <2>3 DEF AnsweredOn
    <3> QED BY <3>1, <3>2
  <2>4. CASE client[c] = "open"
    <3>1. replies'[c] = <<answer>>
      BY <1>10, <2>1, <2>4
    <3>2. ASSUME answer # Given(p, t) PROVE A' = A
      <4>1. replies'[c] # <<Given(p, t)>>
        BY <3>1, <3>2
      <4> QED BY <2>1, <2>2, <4>1 DEF AnsweredOn
    <3>3. ASSUME answer = Given(p, t) PROVE Cardinality(A') = Cardinality(A) + 1
      <4>1. A' = A \cup {c}
        BY <2>1, <3>1, <3>3 DEF AnsweredOn
      <4> HIDE DEF A
      <4> QED BY <1>2, <2>2, <4>1, FS_AddElement
    <3> QED BY <2>4, <3>2, <3>3
  <2> QED BY <2>3, <2>4
<1>11. ASSUME NEW c \in Conns, client[c] # "idle", replies[c] = <<>>, client' = client,
              handed' = handed, NEW answer, Tells(c, answer)
       PROVE  Goal
  <2>1. Reply(c, answer) /\ answer.cmd # "RECV"
    BY <1>11 DEF Tells
  <2>2. answer # Given(p, t)
    BY <2>1 DEF Given
  <2> QED BY <1>7, <1>8, <1>10, <1>11, <2>1, <2>2
<1>12. ASSUME NEW c \in Conns, client[c] # "idle", replies[c] = <<>>, client' = client,
              NEW q \in Peers, Hands(c, q)
       PROVE  Goal
  <2> DEFINE m == Head(queue[q])
  <2>1. /\ Reply(c, Given(q, m)) /\ handed'[q] = Append(handed[q], m)
        /\ \A b \in Peers : b # q => handed'[b] = handed[b]
    BY <1>3, <1>12 DEF Hands
  <2> HIDE DEF m
  <2>2. CASE p = q /\ t = m
    <3>1. Cardinality(H') = Cardinality(H) + 1
      <4>1. handed'[p] = Append(handed[p], m)
        BY <2>1, <2>2
      <4> QED BY <1>3, <2>2, <4>1, CountHanded DEF HandedAt
    <3>2. \/ client[c] = "open" /\ Cardinality(A') = Cardinality(A) + 1
          \/ client'[c] = "closed" /\ A' = A
      BY <1>10, <1>12, <2>1, <2>2
    <3> QED BY <1>2, <1>4, <1>5, <1>6, <3>1, <3>2
  <2>3. CASE ~(p = q /\ t = m)
    <3>1. H' = H
      <4>1. CASE p # q
        BY <2>1, <4>1 DEF HandedAt
      <4>2. CASE p = q
        <5>1. handed'[p] = Append(handed[p], m) /\ t # m
          BY <2>1, <2>3, <4>2
        <5> QED BY <1>3, <5>1, CountHanded DEF HandedAt
      <4> QED BY <4>1, <4>2
    <3>2. Given(q, m) # Given(p, t)
      BY <2>3, SameGiven
    <3>3. A' = A
      BY <1>10, <1>12, <2>1, <3>2
    <3> QED BY <1>7, <3>1, <3>3
  <2> QED BY <2>2, <2>3
<1> HIDE DEF Goal
<1>13. CASE ~UNCHANGED <<handed, replies>>
  <2>1. Goal
    BY <1>11, <1>12, <1>13 DEF HandStep
  <2> QED BY <1>1, <2>1 DEF Goal
<1> QED BY <1>9, <1>13

LEMMA InitHanded == Init => HandedOutOnce
<1> SUFFICES ASSUME Init, NEW p \in Peers, NEW t \in Texts
             PROVE  TimesAnswered(p, t) = 0 /\ TimesHanded(p, t) = 0
  BY DEF HandedOutOnce
<1>1. \A c \in Conns : replies[c] = <<>>
  BY DEF Init
<1>2. {c \in Conns : replies[c] = <<[cmd |-> "RECV", id |-> p, msg |-> t]>>} = {}
  BY <1>1
<1>3. handed[p] = <<>>
  BY DEF Init, Store!Init
<1>4. {i \in 1..Len(handed[p]) : handed[p][i] = t} = {}
  BY <1>3
<1> QED BY <1>2, <1>4, FS_EmptySet DEF TimesAnswered, TimesHanded

\* HandedOutOnce: two clients that poll for a peer at once never get the same
\* message, and none that left the store is lost but by a client that hung up.
THEOREM DaemonHandsOutOnce == Spec => []HandedOutOnce
<1>1. HandedOutOnce /\ ConnInv /\ TypeOK /\ [Next]_vars => HandedOutOnce'
  <2> SUFFICES ASSUME HandedOutOnce, ConnInv, TypeOK, [Next]_vars PROVE HandedOutOnce'
    OBVIOUS
  <2>1. Store!TypeOK
    BY DEF TypeOK
  <2>2. HandStep /\ ConnStep
    BY NextIsHandStep, NextIsConnStep DEF ConnInv
  <2> QED BY <2>1, <2>2, StepKeepsHanded
<1> QED BY <1>1, InitHanded, ConnInvariant, DaemonTypeCorrect, PTL DEF Spec
-----------------------------------------------------------------------------
(* The messages that RECV frames bring.                                    *)

\* The RECV frames that brought text t of peer p, all of them and those that
\* were served.
SentOn(p, t) ==
    {c \in Conns : request[c].cmd = "RECV" /\ request[c].id = p /\ request[c].msg = t}
StoredOn(p, t) == {c \in SentOn(p, t) : Spent(c)}

\* A message reaches the store in the step that serves its frame.
Brings(c) == /\ request[c].cmd = "RECV"
             /\ arrived' = [arrived EXCEPT ![request[c].id] = Append(@, request[c].msg)]
             /\ ~Spent(c) /\ Spent(c)'
ArriveStep == arrived' = arrived \/ \E c \in Conns : Brings(c)

LEMMA DispatchBrings ==
  ASSUME NEW fd, NEW r, NEW rest, Dispatch(fd, r, rest)
  PROVE  \/ arrived' = arrived
         \/ r.cmd = "RECV" /\ arrived' = [arrived EXCEPT ![r.id] = Append(@, r.msg)]
<1>1. CASE StoreIt(r)
  BY <1>1 DEF StoreIt, Store!StoreMsg
<1>2. CASE Update(fds[fd], r)
  BY <1>2 DEF Update, Store!GetUnreadMessage, storeVars
<1>3. CASE GetPeers(fds[fd], r) \/ Host(fds[fd], r) \/ Send(fds[fd], r) \/ Exit(r) \/ Ignore(r)
  BY <1>3 DEF GetPeers, Host, Send, Exit, Ignore, storeVars
<1> QED BY <1>1, <1>2, <1>3 DEF Dispatch

LEMMA RecvBodyBrings ==
  ASSUME ConnInv, NEW fd \in Fds, fds[fd] \in Conns, NEW skip \in {0, HeadLen},
         skip <= sock[fds[fd]].avail, NEW rest, RecvBody(fd, skip, rest)
  PROVE  ArriveStep
<1>1. ConnTypes /\ Places /\ Traffic
  BY DEF ConnInv
<1>2. PICK c \in Conns : c = fds[fd]
  OBVIOUS
<1>3. Accepted(c)
  BY <1>2 DEF Accepted
<1>4. CASE \/ Refuse(fd, rest)
           \/ UNCHANGED <<clientVars, wire, backlog, fds, edge, exitFlag, dial, storeVars>>
  BY <1>4 DEF Refuse, ArriveStep, storeVars
<1>5. CASE /\ IsJson(fd, skip) /\ Consume(c, skip + Received(fd, skip))
           /\ Dispatch(fd, request[c], rest)
  <2>1. sock[c].avail \in Nat /\ sock[c].taken \in Nat
    BY <1>1, SockTypes
  <2>2. Serves(c, skip + BodyLen)
    BY <1>5, <1>2, <2>1, DispatchServes
  <2>3. skip + BodyLen \in {BodyLen, Units}
    BY DEF HeadLen, BodyLen, Units
  <2>4. ~Spent(c)
    BY <1>1, <1>3, <2>2, <2>3, ServesSpent
  <2>5. Spent(c)'
    BY <1>1, <1>3, <2>2, <2>3, ServesSpent
  <2>6. \/ arrived' = arrived
        \/ /\ request[c].cmd = "RECV"
           /\ arrived' = [arrived EXCEPT ![request[c].id] = Append(@, request[c].msg)]
    BY <1>5, DispatchBrings
  <2> QED BY <2>4, <2>5, <2>6 DEF ArriveStep, Brings
<1> QED BY <1>2, <1>4, <1>5 DEF RecvBody

LEMMA NextIsArriveStep ==
  ASSUME ConnInv, [Next]_vars
  PROVE  ArriveStep
<1>0. ConnTypes /\ LoopTypes
  BY DEF ConnInv
<1>1. ASSUME NEW e \in batch, ReadEvent(e)
      PROVE  ArriveStep
  <2> DEFINE rest == Append(Tail(ready), Main)
  <2>1. e.fd \in Fds
    BY <1>0, <1>1, ReadEventDoes
  <2>2. CASE fds[e.fd] \in Conns /\ GoodHead(fds[e.fd]) /\ RecvBody(e.fd, HeadLen, rest)
    <3>1. HeadLen <= sock[fds[e.fd]].avail
      BY <1>0, <2>2, SockTypes DEF GoodHead, HeadLen
    <3> QED BY <2>1, <2>2, <3>1, RecvBodyBrings
  <2>3. CASE Refuse(e.fd, rest)
    BY <2>3 DEF Refuse, ArriveStep, storeVars
  <2> QED BY <1>1, <2>2, <2>3 DEF ReadEvent
<1>2. ASSUME ResumeBody
      PROVE  ArriveStep
  <2> DEFINE fd == Head(ready).fd
  <2>1. fd \in Fds
    BY <1>0, <1>2, ResumeBodyDoes
  <2>2. CASE fds[fd] \in Conns /\ RecvBody(fd, 0, Tail(ready))
    <3>1. 0 <= sock[fds[fd]].avail
      BY <1>0, <2>2, SockTypes
    <3> QED BY <2>1, <2>2, <3>1, RecvBodyBrings
  <2>3. CASE Refuse(fd, Tail(ready)) \/ UNCHANGED <<clientVars, kernelVars, exitFlag, dial, storeVars>>
    BY <2>3 DEF Refuse, ArriveStep, storeVars
  <2> QED BY <1>2, <2>2, <2>3 DEF ResumeBody
<1>3. ASSUME \/ Poll \/ AcceptOne \/ AcceptFails \/ DeadlineOver \/ FieldMissing
             \/ ResumeRelay \/ NextRound \/ LeaveLoop \/ Interrupt \/ Shutdown
             \/ (\E e \in batch : ErrorEvent(e) \/ ListenEvent(e))
      PROVE  arrived' = arrived
  BY <1>3 DEF Poll, AcceptOne, AcceptFails, DeadlineOver, FieldMissing, ResumeRelay, NextRound,
              LeaveLoop, Interrupt, Shutdown, Store!ClearDatastructs, ErrorEvent, ListenEvent,
              storeVars
<1>4. ASSUME NEW c \in Conns, \/ Connect(c) \/ HangUp(c) \/ Deliver(c) \/ DialOpens(c)
                              \/ DialEnds(c) \/ (\E r \in Requests : SendRequest(c, r))
      PROVE  arrived' = arrived
  BY <1>4 DEF Connect, HangUp, Deliver, DialOpens, DialEnds, SendRequest, storeVars
<1>5. ASSUME UNCHANGED vars PROVE arrived' = arrived
  BY <1>5 DEF vars, storeVars
<1>6. CASE DaemonStep
  BY <1>1, <1>2, <1>3, <1>6 DEF DaemonStep, ArriveStep
<1>7. CASE ThreadStep \/ ClientStep \/ \E c \in Conns : Deliver(c)
  BY <1>4, <1>7 DEF ThreadStep, ClientStep, ArriveStep
<1> QED BY <1>3, <1>5, <1>6, <1>7 DEF Next, ArriveStep

\* How often a text of a peer reached the store, and how many served frames
\* brought it.
ArrivedAt(p, t) == Positions(arrived[p], t)
ArrivedServed ==
    \A p \in Peers, t \in Texts : Cardinality(ArrivedAt(p, t)) <= Cardinality(StoredOn(p, t))

\* A frame that was served stays so.
LEMMA StoredGrows ==
  ASSUME ConnInv, ConnStep, NEW p, NEW t
  PROVE  /\ StoredOn(p, t) \subseteq StoredOn(p, t)'
         /\ IsFiniteSet(StoredOn(p, t)) /\ IsFiniteSet(StoredOn(p, t)')
<1>0. ConnTypes /\ Places /\ Traffic
  BY DEF ConnInv
<1>1. StoredOn(p, t) \subseteq Conns /\ StoredOn(p, t)' \subseteq Conns
  BY DEF StoredOn, SentOn
<1>2. ASSUME NEW c \in StoredOn(p, t)
      PROVE  c \in StoredOn(p, t)'
  <2>1. c \in Conns /\ request[c].cmd = "RECV" /\ request[c].id = p /\ request[c].msg = t /\ Spent(c)
    BY <1>2 DEF StoredOn, SentOn
  <2>2. NoRequest.cmd = "NONE"
    BY DEF NoRequest
  <2>3. request'[c] = request[c]
    BY <1>0, <2>1, <2>2, ClientsGoOn
  <2>4. Spent(c)'
    BY <1>0, <2>1, StepKeepsSpent
  <2> QED BY <2>1, <2>3, <2>4 DEF StoredOn, SentOn
<1> QED BY <1>1, <1>2, ConnsAssumption, FS_Subset

LEMMA StepKeepsArrived ==
  ASSUME ConnInv, Store!TypeOK, ArrivedServed, ArriveStep, ConnStep
  PROVE  ArrivedServed'
<1> SUFFICES ASSUME NEW p \in Peers, NEW t \in Texts
             PROVE  Cardinality(ArrivedAt(p, t)') <= Cardinality(StoredOn(p, t)')
  BY DEF ArrivedServed
<1> DEFINE A == ArrivedAt(p, t)
           S == StoredOn(p, t)
<1>0. ConnTypes
  BY DEF ConnInv
<1>1. arrived \in [Peers -> Seq(Texts)] /\ arrived[p] \in Seq(Texts)
  BY DEF Store!TypeOK
<1>2. IsFiniteSet(A) /\ Cardinality(A) \in Nat /\ Cardinality(A) <= Cardinality(S)
  BY <1>1, FiniteHanded, FS_CardinalityType DEF ArrivedAt, ArrivedServed
<1>3. /\ S \subseteq S' /\ IsFiniteSet(S) /\ IsFiniteSet(S')
      /\ Cardinality(S) \in Nat /\ Cardinality(S') \in Nat
  BY StoredGrows, FS_CardinalityType
<1> HIDE DEF S
<1>4. Cardinality(S) <= Cardinality(S')
  BY <1>3, FS_Subset
<1>5. CASE A' = A
  BY <1>2, <1>3, <1>4, <1>5 DEF S
<1>6. CASE arrived' = arrived
  <2>1. A' = A
    BY <1>6 DEF ArrivedAt
  <2> QED BY <1>5, <2>1
<1>7. ASSUME NEW c \in Conns, Brings(c)
      PROVE  Cardinality(A') <= Cardinality(S')
  <2>1. /\ request[c].cmd = "RECV" /\ ~Spent(c) /\ Spent(c)'
        /\ arrived' = [arrived EXCEPT ![request[c].id] = Append(@, request[c].msg)]
    BY <1>7 DEF Brings
  <2>2. CASE p = request[c].id /\ t = request[c].msg
    <3>1. arrived'[p] = Append(arrived[p], t)
      BY <1>1, <2>1, <2>2
    <3>2. Cardinality(A') = Cardinality(A) + 1
      BY <1>1, <3>1, CountHanded DEF ArrivedAt
    <3>3. c \notin S
      BY <2>1 DEF S, StoredOn
    <3>4. NoRequest.cmd = "NONE"
      BY DEF NoRequest
    <3>5. request'[c] = request[c]
      BY <1>0, <2>1, <3>4, ClientsGoOn
    <3>6. c \in S'
      BY <2>1, <2>2, <3>5 DEF S, StoredOn, SentOn
    <3>7. Cardinality(S \cup {c}) = Cardinality(S) + 1
      BY <1>3, <3>3, FS_AddElement
    <3>8. Cardinality(S \cup {c}) <= Cardinality(S')
      <4>1. S \cup {c} \subseteq S'
        BY <1>3, <3>6
      <4> QED BY <1>3, <4>1, FS_Subset
    <3> QED BY <1>2, <1>3, <3>2, <3>7, <3>8
  <2>3. CASE ~(p = request[c].id /\ t = request[c].msg)
    <3>1. A' = A
      <4>1. CASE p # request[c].id
        <5>1. arrived'[p] = arrived[p]
          BY <1>1, <2>1, <4>1
        <5> QED BY <5>1 DEF ArrivedAt
      <4>2. CASE p = request[c].id
        <5>1. arrived'[p] = Append(arrived[p], request[c].msg) /\ t # request[c].msg
          BY <1>1, <2>1, <2>3, <4>2
        <5> QED BY <1>1, <5>1, CountHanded DEF ArrivedAt
      <4> QED BY <4>1, <4>2
    <3> QED BY <1>5, <3>1 DEF S
  <2> QED BY <2>2, <2>3
<1> QED BY <1>6, <1>7 DEF ArriveStep, S

LEMMA InitArrived == Init => ArrivedServed
<1> SUFFICES ASSUME Init, NEW p \in Peers, NEW t \in Texts
             PROVE  Cardinality(ArrivedAt(p, t)) <= Cardinality(StoredOn(p, t))
  BY DEF ArrivedServed
<1>1. arrived[p] = <<>>
  BY DEF Init, Store!Init
<1>2. ArrivedAt(p, t) = {}
  BY <1>1 DEF ArrivedAt, Positions
<1>3. \A c \in Conns : client[c] = "idle"
  BY DEF Init
<1>4. StoredOn(p, t) = {}
  BY <1>3 DEF StoredOn, SentOn, Spent
<1> QED BY <1>2, <1>4, FS_EmptySet

\* ServedOnce: however frames are cut and descriptors used again, no client
\* gets a second answer, and no message is stored that no RECV brought, or
\* more often than it was sent.
THEOREM DaemonServesOnce == Spec => []ServedOnce
<1>1. ArrivedServed /\ ConnInv /\ TypeOK /\ [Next]_vars => ArrivedServed'
  <2> SUFFICES ASSUME ArrivedServed, ConnInv, TypeOK, [Next]_vars PROVE ArrivedServed'
    OBVIOUS
  <2>1. Store!TypeOK
    BY DEF TypeOK
  <2>2. ArriveStep /\ ConnStep
    BY NextIsArriveStep, NextIsConnStep DEF ConnInv
  <2> QED BY <2>1, <2>2, StepKeepsArrived
<1>2. ArrivedServed /\ OneAnswer /\ TypeOK => ServedOnce
  <2> SUFFICES ASSUME ArrivedServed, OneAnswer, TypeOK PROVE ServedOnce
    OBVIOUS
  <2>1. ASSUME NEW p \in Peers, NEW t \in Texts
        PROVE  TimesArrived(p, t) <= TimesSent(p, t)
    <3>1. /\ TimesArrived(p, t) = Cardinality(ArrivedAt(p, t))
          /\ TimesSent(p, t) = Cardinality(SentOn(p, t))
      BY DEF TimesArrived, TimesSent, ArrivedAt, Positions, SentOn
    <3>2. SentOn(p, t) \subseteq Conns /\ StoredOn(p, t) \subseteq SentOn(p, t)
      BY DEF SentOn, StoredOn
    <3>3. IsFiniteSet(SentOn(p, t)) /\ IsFiniteSet(StoredOn(p, t))
      BY <3>2, ConnsAssumption, FS_Subset
    <3>4. Cardinality(StoredOn(p, t)) <= Cardinality(SentOn(p, t))
      BY <3>2, <3>3, FS_Subset
    <3>5. arrived[p] \in Seq(Texts)
      BY DEF TypeOK, Store!TypeOK
    <3>6. IsFiniteSet(ArrivedAt(p, t))
      BY <3>5, FiniteHanded DEF ArrivedAt
    <3>7. /\ Cardinality(ArrivedAt(p, t)) \in Nat /\ Cardinality(StoredOn(p, t)) \in Nat
          /\ Cardinality(SentOn(p, t)) \in Nat
      BY <3>3, <3>6, FS_CardinalityType
    <3>8. Cardinality(ArrivedAt(p, t)) <= Cardinality(StoredOn(p, t))
      BY DEF ArrivedServed
    <3> QED BY <3>1, <3>4, <3>7, <3>8
  <2> QED BY <2>1 DEF ServedOnce, OneAnswer
<1> QED BY <1>1, <1>2, InitArrived, ConnInvariant, DaemonTypeCorrect, PTL DEF Spec
=============================================================================
