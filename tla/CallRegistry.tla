---------------------------- MODULE CallRegistry ---------------------------
(***************************************************************************)
(* The registry of active 1:1 calls, InMemoryCallRegistry in               *)
(* src/server/app/realtime/call_registry.py: the calls by id and, for      *)
(* each user, the id of the call the user is in.  A call that ended is     *)
(* removed, so its terminal status is seen only in the event that is sent. *)
(***************************************************************************)
EXTENDS UserIds

CONSTANT Call     \* call ids, a uuid4 the calling client makes

ASSUME NoneIsNoCall == None \notin Call \cup User

VARIABLES calls,    \* _calls, NoCall where the key is absent
          callOf    \* _call_id_by_user_id, None where the key is absent

registryVars == <<calls, callOf>>

ActiveStatuses == {"invited", "ringing", "accepted"}

NoCall == [status |-> "none", initiator |-> None, recipient |-> None]

RegistryTypeOK ==
  /\ calls \in [Call -> [status : ActiveStatuses \cup {"none"},
                         initiator : User \cup {None},
                         recipient : User \cup {None}]]
  /\ callOf \in [User -> Call \cup {None}]

RegistryInit ==
  /\ calls = [id \in Call |-> NoCall]
  /\ callOf = [u \in User |-> None]

Live(id) == id \in Call /\ calls[id].status \in ActiveStatuses
Parties(id) == {calls[id].initiator, calls[id].recipient}

(* Wrong on purpose: only an answered call makes a user busy.              *)
BusyOnceAccepted(u) ==
  IF callOf[u] \in Call /\ calls[callOf[u]].status = "accepted" THEN callOf[u]
  ELSE None

(* get_for_user: the call the user is in, None for a stale mapping ...     *)
GetForUser(u) ==
  IF Live(callOf[u]) /\ u \in Parties(callOf[u]) THEN callOf[u] ELSE None

(* ... which that lookup removes.                                          *)
Swept(S) == [u \in User |-> IF u \in S THEN GetForUser(u) ELSE callOf[u]]

(* Wrong on purpose: the callee is not mapped until it answers.            *)
CreateForInitiator(id, i, r) ==
  /\ calls' = [calls EXCEPT ![id] =
                 [status |-> "invited", initiator |-> i, recipient |-> r]]
  /\ callOf' = [callOf EXCEPT ![i] = id]

(* create *)
CreateCall(id, i, r) ==
  /\ calls' = [calls EXCEPT ![id] =
                 [status |-> "invited", initiator |-> i, recipient |-> r]]
  /\ callOf' = [u \in User |-> IF u \in {i, r} THEN id ELSE callOf[u]]

(* mark_ringing and mark_accepted move a live call forward only.           *)
MarkRinging(id) ==
  /\ calls' = [calls EXCEPT ![id].status =
                 IF @ = "invited" THEN "ringing" ELSE @]
  /\ UNCHANGED callOf

MarkAccepted(id) ==
  /\ calls' = [calls EXCEPT ![id].status =
                 IF @ \in {"invited", "ringing"} THEN "accepted" ELSE @]
  /\ UNCHANGED callOf

(* Wrong on purpose: the call gets a terminal status but stays in _calls.  *)
EndKeepingCall(id) ==
  /\ calls' = [calls EXCEPT ![id].status = "ended"]
  /\ callOf' = [u \in User |-> IF callOf[u] = id THEN None ELSE callOf[u]]

(* end, with _drop_user_mappings_for_call: only a mapping that still       *)
(* points at this call is taken away.                                      *)
EndCall(id) ==
  /\ calls' = [calls EXCEPT ![id] = NoCall]
  /\ callOf' = [u \in User |->
                  IF u \in Parties(id) /\ callOf[u] = id THEN None
                  ELSE callOf[u]]

(* Wrong on purpose: only a call that was answered is ended.               *)
EndAnsweredForOfflineUser(u) ==
  IF GetForUser(u) # None /\ calls[GetForUser(u)].status = "accepted"
  THEN EndCall(GetForUser(u))
  ELSE callOf' = Swept({u}) /\ UNCHANGED calls

(* end_for_offline_user *)
EndForOfflineUser(u) ==
  IF GetForUser(u) # None THEN EndCall(GetForUser(u))
  ELSE callOf' = Swept({u}) /\ UNCHANGED calls

(***************************************************************************)
(* "Track one active call per user" (call_registry.py:49), as the admin    *)
(* health check for "user-to-call mapping drift" (server/README.md:180)    *)
(* puts it: both users of a live call map to it, and a mapping leads to a  *)
(* live call of that user.  So no user is in two calls, and none is left   *)
(* busy by a call that is gone.                                            *)
(***************************************************************************)
RegistryConsistent ==
  /\ \A id \in Call : Live(id) =>
       /\ calls[id].initiator # calls[id].recipient
       /\ \A u \in User : u \in Parties(id) <=> callOf[u] = id
       /\ Parties(id) \subseteq User
  /\ \A u \in User : callOf[u] # None => Live(callOf[u])
=============================================================================
