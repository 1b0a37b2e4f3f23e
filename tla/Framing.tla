------------------------------- MODULE Framing -------------------------------
(***************************************************************************)
(* The lengths of frames: torchatproto_msend with torchatproto_msendl,     *)
(* fd_recv_dimensionhead, torchatproto_mrecv and parse_connection, for one *)
(* frame after the other, each on a connection of its own and delivered    *)
(* whole (Daemon has frames that TCP cuts).                                *)
(*                                                                         *)
(* A body is its length.  The four characters of the header are digits.    *)
(***************************************************************************)
EXTENDS Integers

CONSTANT MaxLen   \* the longest body given to msend

ASSUME MaxLenAssumption == MaxLen \in Nat

MaxSend == 8192   \* msendl sends no more, header included
BufLen == 512     \* inbuf of parse_connection
Overrun == 4      \* bound on what strlen reads behind a buffer that is full

VARIABLES stage,  \* how far the frame came
          len,    \* the length of the body that was given to msend
          head,   \* the digits of the header
          size,   \* what fd_recv_dimensionhead made of them
          got,    \* the bytes of the body in inbuf
          text    \* the length of the string that is parsed as JSON

vars == <<stage, len, head, size, got, text>>

Least(m, n) == IF m < n THEN m ELSE n

TypeOK == /\ stage \in {"idle", "not_sent", "sent", "sized", "waits", "read", "refused", "parsed"}
          /\ len \in 0..MaxLen
          /\ head \in [1..4 -> 0..9]
          /\ size \in 0..9999
          /\ got \in 0..BufLen
          /\ text \in 0..(BufLen + Overrun)

Init == /\ stage = "idle"
        /\ len = 0
        /\ head = [i \in 1..4 |-> 0]
        /\ size = 0 /\ got = 0 /\ text = 0
-----------------------------------------------------------------------------
Weight == [i \in 1..4 |-> CASE i = 1 -> 1000 [] i = 2 -> 100 [] i = 3 -> 10 [] OTHER -> 1]

\* Mutant of HeadOf: the digits are not reduced.
HeadOfNoMod(n) == [i \in 1..4 |-> n \div Weight[i]]

\* generate_dimension_head: the last four decimal digits.
HeadOf(n) == [i \in 1..4 |-> (n \div Weight[i]) % 10]

\* strtol on four digits.
ValueOf(h) == 1000 * h[1] + 100 * h[2] + 10 * h[3] + h[4]

\* Mutant of Msend: there is no limit in msendl.
MsendNoLimit(n) == /\ stage = "idle"
                   /\ len' = n
                   /\ stage' = "sent"
                   /\ head' = HeadOf(n)
                   /\ UNCHANGED <<size, got, text>>

\* torchatproto_msend: the header is made first; msendl returns EMSGSIZE
\* for more than MaxSend bytes, and the callers do not look at it.
Msend(n) == /\ stage = "idle"
            /\ len' = n
            /\ head' = HeadOf(n)
            /\ stage' = IF n + 4 > MaxSend THEN "not_sent" ELSE "sent"
            /\ UNCHANGED <<size, got, text>>

\* fd_recv_dimensionhead and the tests behind it.
RecvHead == /\ stage = "sent"
            /\ size' = ValueOf(head)
            /\ stage' = IF size' = 0 \/ size' > BufLen THEN "refused" ELSE "sized"
            /\ UNCHANGED <<len, head, got, text>>

\* recv(): a frame with less body than its header says keeps the coroutine.
RecvBody == /\ stage = "sized"
            /\ got' = Least(size, len)
            /\ stage' = IF got' >= size THEN "read" ELSE "waits"
            /\ UNCHANGED <<len, head, size, text>>

\* strlen(inbuf): the buffer was zero, so the body ends where it was read to,
\* unless it fills the buffer; then the end is wherever a zero follows.
ParseConnection == /\ stage = "read"
                   /\ stage' = "parsed"
                   /\ text' \in IF got < BufLen THEN {got} ELSE BufLen..(BufLen + Overrun)
                   /\ UNCHANGED <<len, head, size, got>>

\* The next frame has a connection, a coroutine and a buffer of its own.
NextFrame == /\ stage \in {"not_sent", "refused", "parsed"}
             /\ stage' = "idle"
             /\ len' = 0
             /\ head' = [i \in 1..4 |-> 0]
             /\ size' = 0 /\ got' = 0 /\ text' = 0

Next == (\E n \in 0..MaxLen : Msend(n)) \/ RecvHead \/ RecvBody \/ ParseConnection \/ NextFrame

Spec == Init /\ [][Next]_vars
-----------------------------------------------------------------------------
\* A body that is parsed is the one that was sent, none of it missing (one
\* that fills the buffer may have something behind it); a frame is refused
\* for being empty or longer than the buffer; and no coroutine waits for
\* bytes that were never sent.  The header has four digits only: it is the
\* limit of msendl that keeps it from lying about a longer body.
WholeOrRefused == /\ stage = "parsed" => text >= len /\ (len < BufLen => text = len)
                  /\ stage = "refused" => len = 0 \/ len > BufLen
                  /\ stage # "waits"
=============================================================================
