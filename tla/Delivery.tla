------------------------------ MODULE Delivery ------------------------------
(***************************************************************************)
(* What sending promises, without queue, retries or connections: the       *)
(* server stores only what the user has sent, a message is shown as sent   *)
(* only when it is stored there, and it may be given up at any time, which *)
(* says nothing about the server.                                          *)
(***************************************************************************)
EXTENDS Naturals

CONSTANT Msg

VARIABLES shown,   \* what the sender sees of each message
          stored   \* messages the server has

Init == shown = [m \in Msg |-> "none"] /\ stored = {}

Submit(m) ==
  /\ shown' = [shown EXCEPT ![m] = "sending"]
  /\ UNCHANGED stored

Accept(m) ==
  /\ shown[m] # "none" /\ m \notin stored
  /\ stored' = stored \cup {m}
  /\ UNCHANGED shown

Confirm(m) ==
  /\ m \in stored
  /\ shown' = [shown EXCEPT ![m] = "sent"]
  /\ UNCHANGED stored

(* Giving up may concern several messages at once, when the client closes. *)
GiveUp(S) ==
  /\ \A m \in S : shown[m] # "none"
  /\ shown' = [m \in Msg |-> IF m \in S THEN "failed" ELSE shown[m]]
  /\ UNCHANGED stored

Next ==
  \/ \E m \in Msg : Submit(m) \/ Accept(m) \/ Confirm(m)
  \/ \E S \in SUBSET Msg : GiveUp(S)

Spec == Init /\ [][Next]_<<shown, stored>>
=============================================================================
