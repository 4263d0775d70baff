------------------------------ MODULE ReplyOnce ------------------------------
(***************************************************************************)
(* What the live responder promises about its room, with no mention of     *)
(* processes, files or requests: every input sequence is answered at most  *)
(* once, an answer is placed after the input it answers, and once the      *)
(* durable cursor has passed an input the fate of that input is sealed: no *)
(* answer to it appears in the room any more.                              *)
(*                                                                         *)
(* Answer picks its witness from replies', so the module is checked as a   *)
(* property of a detailed specification and is not executed by itself.     *)
(***************************************************************************)
EXTENDS Naturals

VARIABLES
    replies,    \* set of [input, seq]: the answers the room has accepted
    settled     \* the highest input sequence whose handling is durable

vars == <<replies, settled>>

Init ==
    /\ replies = {}
    /\ settled = 0

Answer ==
    /\ \E r \in replies' :
          /\ replies' = replies \cup {r}
          /\ r.input > settled
          /\ r.seq > r.input
          /\ \A q \in replies : q.input # r.input
    /\ UNCHANGED settled

Settle ==
    /\ settled' > settled
    /\ UNCHANGED replies

Next == Answer \/ Settle

Spec == Init /\ [][Next]_vars
=============================================================================
