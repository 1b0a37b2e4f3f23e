------------------------------- MODULE MailBox -------------------------------
(***************************************************************************)
(* What the daemon promises about unread messages, told without the hash   *)
(* table and the linked lists of datastruct.c: every peer has a mail box,  *)
(* messages are put into it in the order they arrive, and they are handed  *)
(* out in that order, each of them once.                                   *)
(***************************************************************************)
EXTENDS Naturals, Sequences

CONSTANTS Peers,   \* the ids ("id" field) that send messages to the daemon
          Texts    \* the message contents ("msg" field)

VARIABLES in,      \* in[p]: every message received from p, oldest first
          out,     \* out[p]: every message of p handed to the client
          open     \* FALSE once the daemon has dropped its messages at exit

vars == <<in, out, open>>

Init == /\ in = [p \in Peers |-> <<>>]
        /\ out = [p \in Peers |-> <<>>]
        /\ open = TRUE

\* A message t of peer p is received.
Deposit(p, t) == /\ open
                 /\ in' = [in EXCEPT ![p] = Append(@, t)]
                 /\ UNCHANGED <<out, open>>

\* The oldest message of p that was not handed out yet is handed out.
Withdraw(p) == /\ open
               /\ Len(out[p]) < Len(in[p])
               /\ out' = [out EXCEPT ![p] = Append(@, in[p][Len(@) + 1])]
               /\ UNCHANGED <<in, open>>

\* The daemon exits: whatever was not handed out is gone.
Close == /\ open
         /\ open' = FALSE
         /\ UNCHANGED <<in, out>>

Next == \/ \E p \in Peers, t \in Texts : Deposit(p, t)
        \/ \E p \in Peers : Withdraw(p)
        \/ Close

Spec == Init /\ [][Next]_vars
=============================================================================
