----------------------------- MODULE CallSlots -----------------------------
(***************************************************************************)
(* What call signalling promises the users of it, without connections,     *)
(* messages or blocks: each user has one slot, a call takes the slots of   *)
(* two users at once and gives them back together, and it is answered at   *)
(* most once, while it is offered.                                         *)
(***************************************************************************)
EXTENDS UserIds

CONSTANT Call

VARIABLES phase,    \* of each call id: free, offered, answered
          slot      \* of each user: the call the user is in

slotVars == <<phase, slot>>

SlotInit ==
  /\ phase = [id \in Call |-> "free"]
  /\ slot = [u \in User |-> None]

Offer(id, i, r) ==
  /\ phase[id] = "free" /\ i # r
  /\ slot[i] = None /\ slot[r] = None
  /\ phase' = [phase EXCEPT ![id] = "offered"]
  /\ slot' = [slot EXCEPT ![i] = id, ![r] = id]

Answer(id) ==
  /\ phase[id] = "offered"
  /\ phase' = [phase EXCEPT ![id] = "answered"]
  /\ UNCHANGED slot

End(id) ==
  /\ phase[id] # "free"
  /\ phase' = [phase EXCEPT ![id] = "free"]
  /\ slot' = [u \in User |-> IF slot[u] = id THEN None ELSE slot[u]]

SlotNext == \E id \in Call :
  \/ \E i, r \in User : Offer(id, i, r)
  \/ Answer(id)
  \/ End(id)

SlotSpec == SlotInit /\ [][SlotNext]_slotVars
=============================================================================
