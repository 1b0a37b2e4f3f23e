---------------------------- MODULE Framing_proofs ----------------------------
(***************************************************************************)
(* Frames of any length.  The arithmetic is in HeadTells: four digits tell *)
(* a number below 10000.  The invariant FrameInv says, for each stage,     *)
(* what the variables have to do with the length that was sent.            *)
(***************************************************************************)
EXTENDS Framing, TLAPS

LEMMA WeightValues == Weight[1] = 1000 /\ Weight[2] = 100 /\ Weight[3] = 10 /\ Weight[4] = 1
  BY DEF Weight

\* The header has four decimal digits, whatever the length.
LEMMA HeadIsDigits ==
  ASSUME NEW n \in Nat
  PROVE  HeadOf(n) \in [1..4 -> 0..9]
<1> SUFFICES ASSUME NEW i \in 1..4 PROVE (n \div Weight[i]) % 10 \in 0..9
  BY DEF HeadOf
<1>1. Weight[i] \in Nat /\ Weight[i] > 0
  BY DEF Weight
<1>2. n \div Weight[i] \in Int
  BY <1>1
<1> QED BY <1>2

\* The lengths that four digits can tell.
Tellable == 0..9999

\* The last digit and the rest of a number.
LEMMA LastDigit ==
  ASSUME NEW n \in Nat
  PROVE  n = 10 * (n \div 10) + (n % 10) /\ n \div 10 \in Nat /\ n % 10 \in 0..9
  BY SMTT(60)

\* Dividing by ten, digit after digit.
LEMMA DropDigits ==
  ASSUME NEW n \in Nat
  PROVE  n \div 100 = (n \div 10) \div 10 /\ n \div 1000 = (n \div 100) \div 10
<1> DEFINE a == n \div 10
           b == a \div 10
           c == b \div 10
<1>1. n = 10 * a + (n % 10) /\ a \in Nat /\ n % 10 \in 0..9
  BY LastDigit
<1>2. a = 10 * b + (a % 10) /\ b \in Nat /\ a % 10 \in 0..9
  BY <1>1, LastDigit
<1>3. b = 10 * c + (b % 10) /\ c \in Nat /\ b % 10 \in 0..9
  BY <1>2, LastDigit
<1>4. /\ n \div 100 \in Int
      /\ 100 * (n \div 100) <= n /\ n < 100 * (n \div 100) + 100
      /\ n \div 1000 \in Int
      /\ 1000 * (n \div 1000) <= n /\ n < 1000 * (n \div 1000) + 1000
  OBVIOUS
<1> HIDE DEF a, b, c
<1>5. n \div 100 = b
  BY <1>1, <1>2, <1>4
<1>6. n \div 1000 = c
  BY <1>1, <1>2, <1>3, <1>4
<1> QED BY <1>5, <1>6 DEF b, c, a

\* A header tells a length below 10000 exactly.
LEMMA HeadTells == \A n \in Tellable : ValueOf(HeadOf(n)) = n
<1>1. ASSUME NEW n \in Tellable PROVE ValueOf(HeadOf(n)) = n
  <2> DEFINE q1 == n \div 10
             q2 == n \div 100
             q3 == n \div 1000
  <2>1. /\ HeadOf(n)[1] = q3 % 10
        /\ HeadOf(n)[2] = q2 % 10
        /\ HeadOf(n)[3] = q1 % 10
        /\ HeadOf(n)[4] = n % 10
    <3>1. n \div 1 = n
      BY DEF Tellable
    <3> QED BY <3>1, WeightValues DEF HeadOf
  <2>2. n \in Nat /\ n <= 9999
    BY DEF Tellable
  <2>3. q1 = n \div 10 /\ q2 = q1 \div 10 /\ q3 = q2 \div 10
    BY <2>2, DropDigits
  <2> HIDE DEF q1, q2, q3
  <2>4. n = 10 * q1 + (n % 10) /\ q1 \in Nat /\ n % 10 \in 0..9
    BY <2>2, <2>3, LastDigit
  <2>5. q1 = 10 * q2 + (q1 % 10) /\ q2 \in Nat /\ q1 % 10 \in 0..9
    BY <2>4, <2>3, LastDigit
  <2>6. q2 = 10 * q3 + (q2 % 10) /\ q3 \in Nat /\ q2 % 10 \in 0..9
    BY <2>5, <2>3, LastDigit
  <2>7. q3 < 10
    BY <2>2, <2>4, <2>5, <2>6
  <2>8. q3 % 10 = q3
    BY <2>6, <2>7
  <2> QED BY <2>1, <2>2, <2>4, <2>5, <2>6, <2>8 DEF ValueOf
<1> QED BY <1>1, Zenon

FrameInv ==
    /\ TypeOK
    /\ stage \in {"sent", "sized", "read", "refused", "parsed"} =>
          len + 4 <= MaxSend /\ head = HeadOf(len)
    /\ stage \in {"sized", "read", "parsed"} => size = len /\ size > 0 /\ size <= BufLen
    /\ stage \in {"read", "parsed"} => got = len
    /\ WholeOrRefused

LEMMA InitFrameInv == Init => FrameInv
  BY MaxLenAssumption DEF Init, FrameInv, TypeOK, WholeOrRefused, BufLen, Overrun

LEMMA NextKeepsFrameInv == FrameInv /\ [Next]_vars => FrameInv'
<1> SUFFICES ASSUME FrameInv, [Next]_vars PROVE FrameInv'
  OBVIOUS
<1> USE MaxLenAssumption DEF BufLen, Overrun, MaxSend
<1>1. ASSUME NEW n \in 0..MaxLen, Msend(n) PROVE FrameInv'
  <2>1. HeadOf(n) \in [1..4 -> 0..9]
    BY HeadIsDigits
  <2>0. n \in Nat
    OBVIOUS
  <2>2. len' = n /\ head' = HeadOf(n) /\ size' = size /\ got' = got /\ text' = text
    BY <1>1 DEF Msend
  <2>4. stage' = "not_sent" \/ (stage' = "sent" /\ n + 4 <= 8192)
    <3>1. stage' = IF n + 4 > 8192 THEN "not_sent" ELSE "sent"
      BY <1>1 DEF Msend
    <3> QED BY <2>0, <3>1
  <2>3. TypeOK'
    <3>1. head' \in [1..4 -> 0..9]
      BY <2>1, <2>2
    <3>2. size' \in 0..9999 /\ got' \in 0..512 /\ text' \in 0..(512 + 4)
      BY <2>2 DEF FrameInv, TypeOK
    <3> QED BY <2>2, <2>4, <3>1, <3>2 DEF TypeOK
  <2> QED BY <2>0, <2>2, <2>3, <2>4 DEF FrameInv, WholeOrRefused
<1>2. ASSUME RecvHead PROVE FrameInv'
  <2>1. len + 4 <= 8192 /\ head = HeadOf(len) /\ len \in Nat /\ size' = ValueOf(head)
    BY <1>2 DEF RecvHead, FrameInv, TypeOK
  <2>2. len \in Tellable
    BY <2>1 DEF Tellable
  <2>3. size' = len
    <3>1. ValueOf(HeadOf(len)) = len
      BY <2>2, HeadTells, Zenon
    <3> QED BY <2>1, <3>1
  <2>4. /\ \/ stage' = "refused" /\ (size' = 0 \/ size' > 512)
           \/ stage' = "sized" /\ size' # 0 /\ size' <= 512
        /\ len' = len /\ head' = head /\ got' = got /\ text' = text
    BY <1>2, <2>1, <2>3 DEF RecvHead
  <2>5. TypeOK'
    BY <2>1, <2>3, <2>4 DEF FrameInv, TypeOK
  <2> QED BY <2>1, <2>3, <2>4, <2>5 DEF FrameInv, WholeOrRefused
<1>3. ASSUME RecvBody PROVE FrameInv'
  <2>1. /\ len \in Nat /\ size = len /\ size > 0 /\ size <= 512
        /\ len + 4 <= 8192 /\ head = HeadOf(len)
    BY <1>3 DEF RecvBody, FrameInv, TypeOK
  <2>2. /\ got' = len /\ stage' = "read"
        /\ len' = len /\ head' = head /\ size' = size /\ text' = text
    BY <1>3, <2>1 DEF RecvBody, Least
  <2>3. TypeOK'
    BY <2>1, <2>2 DEF FrameInv, TypeOK
  <2> QED BY <2>1, <2>2, <2>3 DEF FrameInv, WholeOrRefused
<1>4. ASSUME ParseConnection PROVE FrameInv'
  <2>1. text' \in 0..(512 + 4) /\ text' >= got /\ (got < 512 => text' = got)
    BY <1>4 DEF ParseConnection, FrameInv, TypeOK
  <2>2. TypeOK'
    BY <1>4, <2>1 DEF ParseConnection, FrameInv, TypeOK
  <2> QED BY <1>4, <2>1, <2>2 DEF ParseConnection, FrameInv, WholeOrRefused
<1>5. ASSUME NextFrame PROVE FrameInv'
  BY <1>5 DEF NextFrame, FrameInv, TypeOK, WholeOrRefused
<1>6. ASSUME UNCHANGED vars PROVE FrameInv'
  BY <1>6 DEF vars, FrameInv, TypeOK, WholeOrRefused
<1> QED BY <1>1, <1>2, <1>3, <1>4, <1>5, <1>6 DEF Next

\* The lengths, digits and counts of a frame stay in their ranges.
THEOREM FramingTypeCorrect == Spec => []TypeOK
<1>1. FrameInv => TypeOK
  BY DEF FrameInv
<1> QED BY InitFrameInv, NextKeepsFrameInv, <1>1, PTL DEF Spec

\* For bodies of any length: what is parsed is whole, what is refused is
\* empty or too long for the buffer, and nobody waits for the rest.
THEOREM FramesWholeOrRefused == Spec => []WholeOrRefused
<1>1. FrameInv => WholeOrRefused
  BY DEF FrameInv
<1> QED BY InitFrameInv, NextKeepsFrameInv, <1>1, PTL DEF Spec
=============================================================================
