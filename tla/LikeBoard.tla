------------------------------ MODULE LikeBoard ------------------------------
(***************************************************************************)
(* What POST /marketplace/:id/like promises.  A request decides, from the  *)
(* pair it sees, whether it likes or unlikes; it then makes the pair so,   *)
(* once, and answers what it made it, or it ends without an answer.  No    *)
(* request touches a pair other than its own.                              *)
(***************************************************************************)
CONSTANTS Users, Items, Slots, NoTicket

VARIABLES
  likes,     (* the pairs of a user and an item the user likes              *)
  ticket     (* slot -> its request                                         *)

Pairs == Users \X Items
Ticket == [pair : Pairs, liked : BOOLEAN, done : BOOLEAN]

Init ==
  /\ likes = {}
  /\ ticket = [s \in Slots |-> NoTicket]

Decide(s, pair) ==
  /\ ticket[s] = NoTicket
  /\ ticket' = [ticket EXCEPT ![s] = [pair |-> pair, liked |-> pair \notin likes, done |-> FALSE]]
  /\ UNCHANGED likes

Apply(s) ==
  /\ ticket[s] # NoTicket /\ ~ticket[s].done
  /\ likes' = IF ticket[s].liked THEN likes \cup {ticket[s].pair} ELSE likes \ {ticket[s].pair}
  /\ ticket' = [ticket EXCEPT ![s].done = TRUE]

(* The answer, or an error: of these only the first needs the write. *)
Leave(S) ==
  /\ UNCHANGED likes
  /\ ticket' = [s \in Slots |-> IF s \in S THEN NoTicket ELSE ticket[s]]

Next ==
  \/ \E S \in SUBSET Slots : Leave(S)
  \/ \E s \in Slots : Apply(s) \/ \E pair \in Pairs : Decide(s, pair)

Spec == Init /\ [][Next]_<<likes, ticket>>
=============================================================================
