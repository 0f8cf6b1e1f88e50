---------------------------- MODULE ClientCalls ----------------------------
(***************************************************************************)
(* 1:1 calls as their two clients see them: CallManager in                 *)
(* src/client/managers/call_manager.py with the prompt and the call window *)
(* of ui/windows/chat_interface.py, one client per user, and between them  *)
(* the server's registry and handlers, which CallSignaling has in detail.  *)
(*                                                                         *)
(* A client is one event loop.  Inbound messages are handled one at a time *)
(* under a lock, but a handler that emits an event waits for its           *)
(* subscribers, and a send waits for the worker thread: in between, clicks *)
(* and the timer run, and a send may return after the server's answer.     *)
(* Both waits are steps of their own where something is done after them.   *)
(***************************************************************************)
EXTENDS CallRegistry, Naturals, Sequences, Functions

CONSTANTS MaxFaults,   \* BOUND: breaking connections, sends that are given up
                       \* although they went out, blocks between the users
          MaxAhead,    \* BOUND: requests of a client the server has yet to take
          MaxBehind    \* BOUND: events a client has yet to take when more come

ASSUME BoundsAreNaturals == {MaxFaults, MaxAhead, MaxBehind} \subseteq Nat

VARIABLES
  active,     \* _active_call, Idle for None
  timer,      \* the call _unanswered_timeout_task was armed for
  accepting,  \* _local_accepting_call_ids
  actions,    \* _pending_call_actions: <<call, event type>>
  starting,   \* start_call coroutines that await their send, oldest first
  ending,     \* the call whose end the inbound handler is telling of
  prompt,     \* calls with an IncomingCallToast
  alert,      \* calls whose send_call_ringing task is scheduled
  link,       \* the connection of a user: up (and authenticated) or down
  old,        \* the server has not noticed yet that a connection broke
  up, down,   \* requests and events on the way
  hidden,     \* calls whose session is hidden by a block
  party,      \* <<initiator, recipient>> of a call that was started
  faults,
  strayed,    \* history: <<user, call>> the client did not take up or forgot
  torn        \* history: <<user, call>> a message of which was lost or unsent

clientVars == <<active, timer, accepting, actions, starting, ending, prompt,
                alert>>
netVars == <<link, old, up, down>>
historyVars == <<strayed, torn>>
vars == <<registryVars, clientVars, netVars, hidden, party, faults, historyVars>>

Idle == [id |-> None, dir |-> "none", status |-> "none"]
NoParty == <<None, None>>

Kinds == {"call_invite", "call_ringing", "call_accept", "call_reject",
          "call_hangup"}
Terminal == {"ended", "rejected", "failed", "busy"}
Shown == {"invited", "inviting", "ringing", "accepted"}

Request == [type : Kinds, call : Call]
Event == [type : Kinds \cup {"call_busy"}, call : Call]
           \cup [type : {"error"}, re : Kinds, call : Call]

TypeOK ==
  /\ RegistryTypeOK
  /\ active \in [User -> [id : Call, dir : {"in", "out"},
                          status : Shown \cup Terminal] \cup {Idle}]
  /\ timer \in [User -> Call \cup {None}]
  /\ accepting \in [User -> SUBSET Call]
  /\ actions \in [User -> SUBSET (Call \X Kinds)]
  /\ starting \in [User -> Seq(Call)]
  /\ ending \in [User -> Call \cup {None}]
  /\ prompt \in [User -> SUBSET Call]
  /\ alert \in [User -> SUBSET Call]
  /\ link \in [User -> {"up", "down"}]
  /\ old \in [User -> BOOLEAN]
  /\ up \in [User -> Seq(Request)]
  /\ down \in [User -> Seq(Event)]
  /\ hidden \in SUBSET Call
  /\ party \in [Call -> (User \X User) \cup {NoParty}]
  /\ faults \in 0..MaxFaults
  /\ strayed \in SUBSET (User \X Call)
  /\ torn \in SUBSET (User \X Call)

Init ==
  /\ RegistryInit
  /\ active = [u \in User |-> Idle]
  /\ timer = [u \in User |-> None]
  /\ accepting = [u \in User |-> {}]
  /\ actions = [u \in User |-> {}]
  /\ starting = [u \in User |-> <<>>]
  /\ ending = [u \in User |-> None]
  /\ prompt = [u \in User |-> {}]
  /\ alert = [u \in User |-> {}]
  /\ link = [u \in User |-> "up"]
  /\ old = [u \in User |-> FALSE]
  /\ up = [u \in User |-> <<>>]
  /\ down = [u \in User |-> <<>>]
  /\ hidden = {}
  /\ party = [k \in Call |-> NoParty]
  /\ faults = 0
  /\ strayed = {} /\ torn = {}

-----------------------------------------------------------------------------
(* The user's side of the client.                                          *)

(* _require_current_call *)
Current(u, k) == active[u].id = k /\ active[u].status \notin Terminal

(* An incoming call that may still be answered or announced.               *)
Waiting(u, k) ==
  /\ Current(u, k) /\ active[u].dir = "in"
  /\ active[u].status \in {"invited", "ringing"}

(* _register_pending_call_action and send_call_event.  A connection that   *)
(* is down refuses at once and the action is forgotten again; so it is if  *)
(* the worker gives up waiting for a frame that goes out all the same.     *)
Ask(u, k, kind) ==
  /\ Len(up[u]) < MaxAhead
  /\ up' = IF link[u] = "up"
           THEN [up EXCEPT ![u] = Append(@, [type |-> kind, call |-> k])]
           ELSE up
  /\ \/ /\ link[u] = "up"
        /\ actions' = [actions EXCEPT ![u] = @ \cup {<<k, kind>>}]
        /\ UNCHANGED <<faults, torn>>
     \/ /\ link[u] = "down"
        /\ torn' = torn \cup {<<u, k>>}
        /\ UNCHANGED <<actions, faults>>
     \/ /\ link[u] = "up" /\ faults < MaxFaults
        /\ faults' = faults + 1
        /\ torn' = torn \cup {<<u, k>>}
        /\ UNCHANGED actions

AskNothing == UNCHANGED <<up, actions, faults, torn>>
Elsewhere == UNCHANGED <<registryVars, link, old, down, hidden, strayed>>

(* start_call up to its await.  Nothing keeps a second click out.          *)
StartCall(u, v, k) ==
  /\ u # v /\ link[u] = "up"
  /\ active[u] = Idle \/ active[u].status \in Terminal
  /\ party[k] = NoParty /\ Len(up[u]) < MaxAhead
  /\ party' = [party EXCEPT ![k] = <<u, v>>]
  /\ actions' = [actions EXCEPT ![u] = @ \cup {<<k, "call_invite">>}]
  /\ starting' = [starting EXCEPT ![u] = Append(@, k)]
  /\ up' = [up EXCEPT ![u] = Append(@, [type |-> "call_invite", call |-> k])]
  /\ UNCHANGED <<active, timer, accepting, ending, prompt, alert, faults, torn>>
  /\ Elsewhere

(* start_call after its await: whatever came up meanwhile is replaced, and *)
(* its timer with it.                                                      *)
InviteSent(u) ==
  /\ starting[u] # <<>>
  /\ LET k == Head(starting[u])
     IN /\ active' = [active EXCEPT ![u] =
                        [id |-> k, dir |-> "out", status |-> "inviting"]]
        /\ timer' = [timer EXCEPT ![u] = k]
  /\ starting' = [starting EXCEPT ![u] = Tail(@)]
  /\ strayed' = strayed \cup
       (IF active[u] = Idle THEN {} ELSE {<<u, active[u].id>>})
  /\ UNCHANGED <<registryVars, accepting, actions, ending, prompt, alert,
                 netVars, hidden, party, faults, torn>>

(* The send answers False: the connection broke, or the worker gave up.    *)
InviteFails(u) ==
  /\ starting[u] # <<>>
  /\ faults' = IF link[u] = "down" THEN faults ELSE faults + 1
  /\ faults' <= MaxFaults
  /\ LET k == Head(starting[u])
     IN /\ actions' = [actions EXCEPT ![u] = @ \ {<<k, "call_invite">>}]
        /\ torn' = torn \cup {<<u, k>>}
  /\ starting' = [starting EXCEPT ![u] = Tail(@)]
  /\ UNCHANGED <<registryVars, active, timer, accepting, ending, prompt,
                 alert, netVars, hidden, party, strayed>>

(* The toast closes, then accept_call runs, unless the call has changed.   *)
AcceptCall(u, k) ==
  /\ k \in prompt[u] /\ Waiting(u, k)
  /\ prompt' = [prompt EXCEPT ![u] = @ \ {k}]
  /\ Ask(u, k, "call_accept")
  /\ accepting' = [accepting EXCEPT ![u] =
       IF <<k, "call_accept">> \in actions'[u] THEN @ \cup {k} ELSE @ \ {k}]
  /\ UNCHANGED <<active, timer, starting, ending, alert, party>>
  /\ Elsewhere

RejectCall(u, k) ==
  /\ k \in prompt[u] /\ Waiting(u, k)
  /\ prompt' = [prompt EXCEPT ![u] = @ \ {k}]
  /\ Ask(u, k, "call_reject")
  /\ UNCHANGED <<active, timer, accepting, starting, ending, alert, party>>
  /\ Elsewhere

(* The user closes the call window, or calls the peer of a call again.     *)
(* BOUND: not while the hangup before is unanswered.                       *)
HangupCall(u, k) ==
  /\ Current(u, k) /\ <<k, "call_hangup">> \notin actions[u]
  /\ prompt' = [prompt EXCEPT ![u] = @ \ {k}]
  /\ Ask(u, k, "call_hangup")
  /\ UNCHANGED <<active, timer, accepting, starting, ending, alert, party>>
  /\ Elsewhere

(* send_ringing, from the task the prompt scheduled.                       *)
SendRinging(u, k) ==
  /\ k \in alert[u]
  /\ alert' = [alert EXCEPT ![u] = @ \ {k}]
  /\ IF Waiting(u, k) THEN Ask(u, k, "call_ringing") ELSE AskNothing
  /\ UNCHANGED <<active, timer, accepting, starting, ending, prompt, party>>
  /\ Elsewhere

(* Wrong on purpose: a call the peer is alerted of is not timed out.       *)
UnansweredUnlessRinging(u, k) ==
  /\ active[u].id = k /\ active[u].dir = "out"
  /\ active[u].status = "inviting"

Unanswered(u, k) ==
  /\ active[u].id = k /\ active[u].dir = "out"
  /\ active[u].status \in {"inviting", "ringing"}

(* _run_unanswered_timeout *)
TimeOut(u) ==
  /\ timer[u] # None
  /\ timer' = [timer EXCEPT ![u] = None]
  /\ IF Unanswered(u, timer[u]) THEN Ask(u, timer[u], "call_hangup")
     ELSE AskNothing
  /\ UNCHANGED <<active, accepting, starting, ending, prompt, alert, party>>
  /\ Elsewhere

-----------------------------------------------------------------------------
(* Inbound messages.                                                       *)

Forget(u, k) == [actions EXCEPT ![u] = {a \in @ : a[1] # k}]

PassOver == UNCHANGED <<active, timer, accepting, actions, ending, prompt,
                        alert, strayed>>

(* _handle_invite.  Nothing comes of the caller's own echo; an invitation  *)
(* that meets another call is dropped without a word.                      *)
TakeInvite(u, k) ==
  LET dir == IF party[k][1] = u THEN "out" ELSE "in"
  IN IF IF active[u] = Idle THEN dir = "in"
        ELSE active[u].id = k /\ active[u].status \in Terminal
     THEN /\ active' = [active EXCEPT ![u] =
                          [id |-> k, dir |-> dir, status |-> "invited"]]
          /\ IF dir = "in" /\ k \notin prompt[u]
             THEN /\ prompt' = [prompt EXCEPT ![u] = @ \cup {k}]
                  /\ alert' = [alert EXCEPT ![u] = @ \cup {k}]
             ELSE UNCHANGED <<prompt, alert>>
          /\ UNCHANGED <<timer, accepting, actions, ending, strayed>>
     ELSE /\ strayed' = IF dir = "in" THEN strayed \cup {<<u, k>>} ELSE strayed
          /\ UNCHANGED <<active, timer, accepting, actions, ending, prompt,
                         alert>>

TakeRinging(u, k) ==
  IF active[u].id = k
  THEN /\ active' = [active EXCEPT ![u].status = "ringing"]
       /\ UNCHANGED <<timer, accepting, actions, ending, prompt, alert,
                      strayed>>
  ELSE PassOver

(* An answer this client did not give is that of another client of its     *)
(* user: the call is let go.                                               *)
TakeAccept(u, k) ==
  IF active[u].id = k /\ active[u].status # "accepted"
  THEN /\ timer' = [timer EXCEPT ![u] = None]
       /\ prompt' = [prompt EXCEPT ![u] = @ \ {k}]
       /\ accepting' = [accepting EXCEPT ![u] = @ \ {k}]
       /\ IF active[u].dir = "out" \/ k \in accepting[u]
          THEN /\ active' = [active EXCEPT ![u].status = "accepted"]
               /\ UNCHANGED actions
          ELSE /\ active' = [active EXCEPT ![u] = Idle]
               /\ actions' = Forget(u, k)
       /\ UNCHANGED <<ending, alert, strayed>>
  ELSE PassOver

(* The call gets a terminal status; it is let go when the subscribers have *)
(* run.                                                                    *)
Finish(u, k, status) ==
  /\ active' = [active EXCEPT ![u].status = status]
  /\ timer' = [timer EXCEPT ![u] = None]
  /\ prompt' = [prompt EXCEPT ![u] = @ \ {k}]
  /\ ending' = [ending EXCEPT ![u] = k]
  /\ UNCHANGED <<accepting, alert, strayed>>

(* Wrong on purpose: the end of any call ends the current one.             *)
TakeAnyEnd(u, k, status) ==
  IF active[u] # Idle
  THEN Finish(u, active[u].id, status) /\ UNCHANGED actions
  ELSE PassOver

(* call_reject, call_hangup and call_busy *)
TakeEnd(u, k, status) ==
  IF active[u].id = k THEN Finish(u, k, status) /\ UNCHANGED actions
  ELSE PassOver

(* Wrong on purpose: a refused hangup leaves the call as it is.            *)
TakeErrorKeepingCall(u, k, kind) ==
  LET known == <<k, kind>> \in actions[u]
  IN IF active[u] = Idle THEN PassOver
     ELSE /\ actions' = [actions EXCEPT ![u] = @ \ {<<k, kind>>}]
          /\ IF known /\ active[u].id = k /\ kind \in {"call_invite", "call_accept"}
             THEN Finish(u, k, "failed")
             ELSE UNCHANGED <<active, timer, accepting, ending, prompt, alert,
                              strayed>>

(* _handle_error_message: a refused hangup ends the call here all the      *)
(* same, a refused invitation or answer fails it.                          *)
TakeError(u, k, kind) ==
  LET known == <<k, kind>> \in actions[u]
  IN IF active[u] = Idle THEN PassOver
     ELSE /\ actions' = [actions EXCEPT ![u] = @ \ {<<k, kind>>}]
          /\ \/ /\ known /\ active[u].id = k /\ kind = "call_hangup"
                /\ Finish(u, k, "ended")
             \/ /\ known /\ active[u].id = k
                /\ kind \in {"call_invite", "call_accept"}
                /\ Finish(u, k, "failed")
             \/ /\ ~known \/ active[u].id # k
                   \/ kind \in {"call_reject", "call_ringing"}
                /\ UNCHANGED <<active, timer, accepting, ending, prompt, alert,
                               strayed>>

(* _handle_ws_message, under the dispatch lock.                            *)
Receive(u) ==
  /\ down[u] # <<>> /\ ending[u] = None
  /\ LET m == Head(down[u])
     IN \/ m.type = "call_invite" /\ TakeInvite(u, m.call)
        \/ m.type = "call_ringing" /\ TakeRinging(u, m.call)
        \/ m.type = "call_accept" /\ TakeAccept(u, m.call)
        \/ m.type = "call_reject" /\ TakeEnd(u, m.call, "rejected")
        \/ m.type = "call_hangup" /\ TakeEnd(u, m.call, "ended")
        \/ m.type = "call_busy" /\ TakeEnd(u, m.call, "busy")
        \/ m.type = "error" /\ TakeError(u, m.call, m.re)
  /\ down' = [down EXCEPT ![u] = Tail(@)]
  /\ UNCHANGED <<registryVars, starting, link, old, up, hidden, party,
                 faults, torn>>

(* The subscribers have run.  A call that was set meanwhile is let go like *)
(* the one that ended.                                                     *)
LetGo(u) ==
  /\ ending[u] # None
  /\ active' = [active EXCEPT ![u] = Idle]
  /\ accepting' = [accepting EXCEPT ![u] = @ \ {ending[u]}]
  /\ actions' = Forget(u, ending[u])
  /\ strayed' = strayed \cup
       (IF active[u].id = ending[u] THEN {} ELSE {<<u, active[u].id>>})
  /\ ending' = [ending EXCEPT ![u] = None]
  /\ UNCHANGED <<registryVars, timer, starting, prompt, alert, netVars,
                 hidden, party, faults, torn>>

-----------------------------------------------------------------------------
(* The server.  A request and the events it causes are one step here;      *)
(* CallSignaling sends them one by one.                                    *)

(* An event is lost on a connection that broke, which is thereby dropped,  *)
(* and nobody asks whether that made its user offline.                     *)
Push(S, m) ==
  /\ down' = [v \in User |-> IF v \in S /\ link[v] = "up"
                             THEN Append(down[v], m) ELSE down[v]]
  /\ old' = [v \in User |-> old[v] /\ v \notin S]
  /\ torn' = torn \cup ({v \in S : link[v] = "down"} \X {m.call})

Both(k) == {party[k][1], party[k][2]}
Plain(type, k) == [type |-> type, call |-> k]

Invite(u, k) ==
  IF \A v \in Both(k) : GetForUser(v) = None
  THEN /\ CreateCall(k, u, party[k][2])
       /\ Push(Both(k), Plain("call_invite", k))
  ELSE /\ callOf' = Swept(Both(k)) /\ UNCHANGED calls
       /\ Push({u}, Plain("call_busy", k))

Ringing(u, k) ==
  /\ MarkRinging(k)
  /\ Push(IF calls[k].status = "ringing" THEN {u} ELSE Both(k),
          Plain("call_ringing", k))

Refuses(m) ==
  \/ m.call \in hidden
  \/ m.type # "call_invite" /\ ~Live(m.call)
  \/ /\ m.type \in {"call_ringing", "call_accept", "call_reject"}
     /\ calls[m.call].status = "accepted"

Serve(u) ==
  /\ up[u] # <<>> /\ \A v \in User : Len(down[v]) < MaxBehind
  /\ LET m == Head(up[u])
         k == m.call
     IN \/ /\ Refuses(m)
           /\ Push({u}, [type |-> "error", re |-> m.type, call |-> k])
           /\ UNCHANGED registryVars
        \/ /\ ~Refuses(m)
           /\ \/ m.type = "call_invite" /\ Invite(u, k)
              \/ m.type = "call_ringing" /\ Ringing(u, k)
              \/ /\ m.type = "call_accept" /\ MarkAccepted(k)
                 /\ Push(Both(k), Plain(m.type, k))
              \/ /\ m.type \in {"call_reject", "call_hangup"} /\ EndCall(k)
                 /\ Push(Both(k), Plain(m.type, k))
  /\ up' = [up EXCEPT ![u] = Tail(@)]
  /\ UNCHANGED <<clientVars, link, hidden, party, faults, strayed>>

(* A block makes the private session, and with it the call, unfindable.    *)
Hide(k) ==
  /\ party[k] # NoParty /\ k \notin hidden /\ faults < MaxFaults
  /\ hidden' = hidden \cup {k}
  /\ faults' = faults + 1
  /\ UNCHANGED <<registryVars, clientVars, netVars, party, historyVars>>

(* The connection breaks; what was on the way is gone.                     *)
Drop(u) ==
  /\ link[u] = "up" /\ ~old[u] /\ faults < MaxFaults
  /\ link' = [link EXCEPT ![u] = "down"]
  /\ old' = [old EXCEPT ![u] = TRUE]
  /\ up' = [up EXCEPT ![u] = <<>>]
  /\ down' = [down EXCEPT ![u] = <<>>]
  /\ faults' = faults + 1
  /\ torn' = torn \cup ({u} \X {m.call : m \in Range(up[u] \o down[u])})
  /\ UNCHANGED <<registryVars, clientVars, hidden, party, strayed>>

(* The broken connection's handler ends; without another connection its    *)
(* user is offline now.                                                    *)
Leave(u) ==
  /\ old[u]
  /\ IF link[u] = "down" /\ GetForUser(u) # None
     THEN Push(Both(GetForUser(u)), Plain("call_hangup", GetForUser(u)))
     ELSE old' = [old EXCEPT ![u] = FALSE] /\ UNCHANGED <<down, torn>>
  /\ IF link[u] = "down" THEN EndForOfflineUser(u) ELSE UNCHANGED registryVars
  /\ UNCHANGED <<clientVars, link, up, hidden, party, faults, strayed>>

Reconnect(u) ==
  /\ link[u] = "down"
  /\ link' = [link EXCEPT ![u] = "up"]
  /\ UNCHANGED <<registryVars, clientVars, old, up, down, hidden,
                 party, faults, historyVars>>

-----------------------------------------------------------------------------

UserStep(u) ==
  \/ \E v \in User, k \in Call : StartCall(u, v, k)
  \/ \E k \in Call : AcceptCall(u, k) \/ RejectCall(u, k) \/ HangupCall(u, k)

ClientStep(u) ==
  \/ \E k \in Call : SendRinging(u, k)
  \/ TimeOut(u) \/ InviteSent(u) \/ InviteFails(u) \/ Receive(u) \/ LetGo(u)

Next ==
  \/ \E u \in User : \/ UserStep(u) \/ ClientStep(u)
                     \/ Serve(u) \/ Leave(u) \/ Drop(u) \/ Reconnect(u)
  \/ \E k \in Call : Hide(k)

Spec == Init /\ [][Next]_vars

-----------------------------------------------------------------------------
(* Properties.                                                             *)

Settled == \A u \in User :
  /\ starting[u] = <<>> /\ ending[u] = None /\ alert[u] = {}
  /\ up[u] = <<>> /\ down[u] = <<>>
  /\ link[u] = "up" /\ ~old[u]

(* A call a client shows is one the server has, answered or not alike,     *)
(* once nothing is on the way: but for a call a message of which was lost  *)
(* or that is hidden, and for one whose timer still runs, which ends it if *)
(* the end came before the client had taken note of its own invitation.    *)
ShownCallsAreLive ==
  Settled => \A u \in User :
    LET k == active[u].id
    IN \/ active[u] = Idle \/ <<u, k>> \in torn \/ k \in hidden
       \/ timer[u] = k
       \/ /\ Live(k) /\ u \in Parties(k)
          /\ active[u].status = "accepted" <=> calls[k].status = "accepted"

(* The other way round: both users of a call the server has are shown it.  *)
(* A client may pass over an invitation because it shows another call,     *)
(* replace one call by another of its own, or let go a call that was set   *)
(* while it told of the end of the one before; no other way is there.      *)
LiveCallsAreShown ==
  Settled => \A k \in Call : Live(k) =>
    \A u \in Parties(k) :
      active[u].id = k \/ <<u, k>> \in torn \cup strayed \/ k \in hidden

(* When no timer runs any more either, no invitation is left unanswered:   *)
(* the timer of the caller ends what nobody took up, unless a message about*)
(* the call was lost or left unsent, or its client has replaced the call.  *)
UnansweredCallsEnd ==
  (Settled /\ \A u \in User : timer[u] = None) => \A k \in Call :
    \/ ~Live(k) \/ calls[k].status = "accepted" \/ k \in hidden
    \/ <<party[k][1], k>> \in torn \cup strayed
=============================================================================
