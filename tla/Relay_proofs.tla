----------------------------- MODULE Relay_proofs -----------------------------
(***************************************************************************)
(* The relay for any number of requests and of descriptors: no coroutine   *)
(* ever leaves its waiting loop, because one that waits holds a pointer    *)
(* that is set, and its thread clears a pointer of its own.                *)
(***************************************************************************)
EXTENDS Relay, WellFoundedInduction, TLAPS

WaitInv == /\ routine \in [Relays -> {"idle", "waiting"}]
           /\ pointer \in [Relays -> {"set", "NULL"}]
           /\ \A r \in Relays : routine[r] = "waiting" => pointer[r] = "set"

LEMMA InitWaitInv == Init => WaitInv
  BY DEF Init, WaitInv

LEMMA NextKeepsWaitInv ==
  ASSUME WaitInv, [Next]_vars
  PROVE  WaitInv'
<1>1. ASSUME NEW r \in Relays, Start(r) PROVE WaitInv'
  BY <1>1 DEF Start, WaitInv
<1>2. ASSUME NEW r \in Relays, Turn(r) PROVE WaitInv'
  <2>1. pointer[r] = "set"
    BY <1>2 DEF Turn, WaitInv
  <2>2. UNCHANGED <<routine, pointer>>
    BY <1>2, <2>1 DEF Turn, WaitInv
  <2> QED BY <2>2 DEF WaitInv
<1>3. ASSUME NEW r \in Relays, ThreadStep(r) PROVE WaitInv'
  <2>1. UNCHANGED <<routine, pointer>>
    BY <1>3 DEF ThreadStep, DialOpens, DialSucceeds, DialFails, ThreadExit
  <2> QED BY <2>1 DEF WaitInv
<1>4. ASSUME UNCHANGED vars PROVE WaitInv'
  BY <1>4 DEF vars, WaitInv
<1> QED BY <1>1, <1>2, <1>3, <1>4 DEF Next

\* The coroutine of a SEND waits for ever: it never joins its thread, sends
\* nothing to the peer and never answers the client.
THEOREM RelayNeverLeaves == Spec => []NeverLeaves
<1>1. WaitInv /\ [Next]_vars => WaitInv'
  BY NextKeepsWaitInv
<1>2. WaitInv => NeverLeaves
  BY DEF WaitInv, NeverLeaves
<1> QED BY InitWaitInv, <1>1, <1>2, PTL DEF Spec
-----------------------------------------------------------------------------
(* Types.                                                                  *)

LEMMA LowestIsFree ==
  ASSUME MaxFd \in Nat, FreeFds # {}
  PROVE  Lowest(FreeFds) \in FreeFds
<1>1. FreeFds \subseteq Nat
  BY DEF FreeFds, Fds
<1> DEFINE R == {p \in Nat \X Nat : p[1] < p[2]}
<1>2. IsWellFoundedOn(R, Nat)
  BY NatLessThanWellFounded DEF OpToRel
<1>3. \E n \in FreeFds : \A m \in FreeFds : <<m, n>> \notin R
  BY <1>1, <1>2, WFMin
<1>4. ASSUME NEW m \in Nat, NEW n \in Nat, <<m, n>> \notin R
      PROVE  n <= m
  <2>1. <<m, n>> \in Nat \X Nat /\ ~(<<m, n>>[1] < <<m, n>>[2])
    BY <1>4
  <2> QED BY <2>1
<1> HIDE DEF R
<1>5. \E n \in FreeFds : \A m \in FreeFds : n <= m
  BY <1>1, <1>3, <1>4
<1> QED BY <1>5 DEF Lowest

\* A thread that dials works with a descriptor.
RelayInv == /\ TypeOK
            /\ \A r \in Relays : thread[r] = "dialling" => sockOf[r] \in Fds

LEMMA NextKeepsRelayInv ==
  ASSUME MaxFd \in Nat, RelayInv, [Next]_vars
  PROVE  RelayInv'
<1> USE DEF RelayInv
<1>1. ASSUME NEW r \in Relays, Start(r) PROVE RelayInv'
  BY <1>1 DEF TypeOK, Start
<1>2. ASSUME NEW r \in Relays, Turn(r) PROVE RelayInv'
  BY <1>2 DEF TypeOK, Turn
<1>3. ASSUME NEW r \in Relays, DialOpens(r) PROVE RelayInv'
  <2>1. FreeFds # {} => Lowest(FreeFds) \in Fds
    BY LowestIsFree DEF FreeFds
  <2> QED BY <1>3, <2>1 DEF TypeOK, DialOpens
<1>4. ASSUME NEW r \in Relays, DialSucceeds(r) PROVE RelayInv'
  BY <1>4 DEF TypeOK, DialSucceeds
<1>5. ASSUME NEW r \in Relays, DialFails(r) PROVE RelayInv'
  BY <1>5 DEF TypeOK, DialFails
<1>6. ASSUME NEW r \in Relays, ThreadExit(r) PROVE RelayInv'
  BY <1>6 DEF TypeOK, ThreadExit
<1>7. ASSUME UNCHANGED vars PROVE RelayInv'
  BY <1>7 DEF vars, TypeOK
<1> QED BY <1>1, <1>2, <1>3, <1>4, <1>5, <1>6, <1>7 DEF Next, ThreadStep

\* Every variable of the relays keeps its type.
THEOREM RelayTypeCorrect == MaxFd \in Nat /\ Spec => []TypeOK
<1> SUFFICES ASSUME MaxFd \in Nat PROVE Spec => []TypeOK
  OBVIOUS
<1>1. Init => RelayInv
  BY DEF Init, RelayInv, TypeOK
<1>2. RelayInv /\ [Next]_vars => RelayInv'
  BY NextKeepsRelayInv
<1>3. RelayInv => TypeOK
  BY DEF RelayInv
<1> QED BY <1>1, <1>2, <1>3, PTL DEF Spec
=============================================================================
