--------------------------- MODULE CallSignaling ---------------------------
(***************************************************************************)
(* 1:1 call signalling on the server: the websocket handlers of            *)
(* src/server/app/websocket/chat_ws.py with the CallService, the realtime  *)
(* hub and the call registry they act on, the forced logout of             *)
(* api/v1/auth.py and api/v1/admin.py, and the blocks that hide a private  *)
(* session.                                                                *)
(*                                                                         *)
(* The server is one process with one event loop (src/server/Dockerfile,   *)
(* line 19).  A handler runs without interruption from one await to the    *)
(* next: the service call, which only touches the database and the         *)
(* registry, is one step, and each websocket.send_json that follows is a   *)
(* step of its own between which every other handler may run.              *)
(***************************************************************************)
EXTENDS RealtimeHub, CallRegistry, Integers, Sequences, FiniteSets

CONSTANTS Blockable,    \* BOUND: the blocks that may be made, pairs of users
          MaxSending,   \* BOUND: handlers with sends outstanding at once
          MaxKicks      \* BOUND: users forced out in one behaviour

ASSUME ConnsAreNoUsers == Conn \cap User = {}

VARIABLES
  link,     \* the socket: up, gone (the peer left), shut (no longer usable
            \* by the application: closed by the server or a send failed)
  pc,       \* where the handler of a connection is: none, recv (awaiting
            \* receive_json), send (awaiting a send), final, bye (sending hangups after the
            \* finally block dropped the connection), done
  who,      \* the handler's local user_id
  out,      \* what a handler or a forced logout still has to send
  kick,     \* forced logout of a user: idle, closing (sending the notice
            \* to one connection), closed (awaiting its close), notify, done,
            \* failed (given up at an exception)
  kickCur,  \* the connection it is at
  kicking,  \* the connections it still has to close
  blocks,   \* rows of user_blocks, <<user_id, blocked_user_id>>
  ringing,  \* history: calls each connection got the invitation of and has
            \* not been told the end of since
  late,     \* history: those of them that were over by then, their end
            \* announced to all but this connection
  swallowed \* history: users whose offline transition a failed send caused

handlerVars == <<link, pc, who, out>>
kickVars == <<kick, kickCur, kicking>>
historyVars == <<ringing, late, swallowed>>
vars == <<hubVars, registryVars, handlerVars, kickVars, blocks,
          historyVars>>

Proc == Conn \cup User     \* handlers by connection, forced logouts by user

Events == {"invite", "over", "note"}    \* note: any event that ends nothing
Quiet == [ev |-> "note", call |-> None, users |-> <<>>, to |-> {}]
Fan == {f \in [ev : Events, call : Call \cup {None}, users : Seq(User),
                to : SUBSET Conn] : f.ev # "note" => f.call \in Call}

TypeOK ==
  /\ HubTypeOK
  /\ RegistryTypeOK
  /\ link \in [Conn -> {"up", "gone", "shut"}]
  /\ pc \in [Conn -> {"none", "recv", "send", "final", "bye", "done"}]
  /\ who \in [Conn -> User \cup {None}]
  /\ out \in [Proc -> Fan]
  /\ kick \in [User -> {"idle", "closing", "closed", "notify", "done",
                        "failed"}]
  /\ kickCur \in [User -> Conn \cup {None}]
  /\ kicking \in [User -> SUBSET Conn]
  /\ blocks \in SUBSET (User \X User)
  /\ ringing \in [Conn -> SUBSET Call]
  /\ late \in [Conn -> SUBSET Call]
  /\ swallowed \in SUBSET User

Init ==
  /\ HubInit /\ RegistryInit
  /\ link = [c \in Conn |-> "up"]
  /\ pc = [c \in Conn |-> "none"]
  /\ who = [c \in Conn |-> None]
  /\ out = [p \in Proc |-> Quiet]
  /\ kick = [u \in User |-> "idle"]
  /\ kickCur = [u \in User |-> None]
  /\ kicking = [u \in User |-> {}]
  /\ blocks = {}
  /\ ringing = [c \in Conn |-> {}]
  /\ late = [c \in Conn |-> {}]
  /\ swallowed = {}

-----------------------------------------------------------------------------
(* Fan-out.                                                                *)

ToUsers(ev, id, users) ==       \* send_json_to_users
  [ev |-> ev, call |-> id, users |-> users, to |-> {}]
ToSelfThen(c, users) ==         \* send_json, then send_json_to_users
  [ev |-> "note", call |-> None, users |-> users, to |-> {c}]
ToSelf(c) == ToSelfThen(c, <<>>)
InviteTo(c, id, r) ==           \* the caller's own connection, then one of r's
  [ev |-> "invite", call |-> id, users |-> <<r>>, to |-> {c}]
PartySeq(id) == <<calls[id].initiator, calls[id].recipient>>

(* Wrong on purpose: only the user who went away is told.                  *)
HangupForActor(u) ==
  LET id == GetForUser(u)
  IN IF id = None THEN Quiet ELSE ToUsers("over", id, <<u>>)

(* The hangups for the call end_for_offline_user ends, if there is one.    *)
HangupFor(u) ==
  LET id == GetForUser(u)
  IN IF id = None THEN Quiet ELSE ToUsers("over", id, PartySeq(id))

(* The handler may read one more message of a socket that was shut while   *)
(* it waited in receive_json; a handler that comes back from a send to a   *)
(* shut socket cannot.  Nothing is delivered to a handler once the hub     *)
(* has dropped its connection: the closing handshake is over by then.      *)
Active(p) == IF p \in Conn THEN pc[p] \in {"send", "bye"}
             ELSE kick[p] = "notify"

Receiving(c) ==
  /\ pc[c] = "recv" /\ c \in conns
  /\ Cardinality({p \in Proc : Active(p)}) < MaxSending

Reply(c, fan) ==
  /\ out' = [out EXCEPT ![c] = fan]
  /\ pc' = [pc EXCEPT ![c] = "send"]
  /\ UNCHANGED <<link, who>>

(* The handler leaves its loop: an exception that is no AppError, or an    *)
(* error after which the code breaks.                                      *)
Crash(c) ==
  /\ pc' = [pc EXCEPT ![c] = "final"]
  /\ UNCHANGED <<link, who, out>>

(* send_json_to_users and send_json_to_one_user_connection: when the sends *)
(* to one user have returned, the connections of the next one are read and *)
(* the first of them is sent to.                                           *)
Targets(p) == IF out[p].to # {} THEN out[p].to
              ELSE IF out[p].users = <<>> THEN {} ELSE byUser[Head(out[p].users)]
Waiting(p) == IF out[p].to # {} THEN out[p].users ELSE Tail(out[p].users)

(* One user is left to the sender, or none and it goes on: a handler to    *)
(* receive_json or to its end, a forced logout to its end.                 *)
SendsLeft(p, to, users) ==
  IF to = {} /\ users = <<>>
  THEN /\ out' = [out EXCEPT ![p] = Quiet]
       /\ pc' = IF p \in Conn
                THEN [pc EXCEPT ![p] =
                        IF @ = "bye" THEN "done"
                        ELSE IF link'[p] = "shut" THEN "final" ELSE "recv"]
                ELSE pc
       /\ kick' = IF p \in User THEN [kick EXCEPT ![p] = "done"] ELSE kick
  ELSE /\ out' = [out EXCEPT ![p] = [ev |-> @.ev, call |-> @.call,
                                     users |-> users, to |-> to]]
       /\ UNCHANGED <<pc, kick>>

(* Somebody still has to tell the connection the end of the call.          *)
ToBeTold(c, id) == \E p \in Proc :
  /\ Active(p) /\ out[p].ev = "over" /\ out[p].call = id
  /\ \/ c \in out[p].to
     \/ \E i \in DOMAIN out[p].users : userOf[c] = out[p].users[i]

(* A connection forgets its calls when the hub drops it.                   *)
ForgetCalls(c) ==
  /\ ringing' = [ringing EXCEPT ![c] = {}]
  /\ late' = [late EXCEPT ![c] = {}]

(* send_json succeeds, and the invitation of a callee stops there: it is   *)
(* for one connection.  Nobody asks whether the call is still there when   *)
(* its invitation arrives.  A client that holds a call learns of its end.  *)
Deliver(p, d) ==
  /\ Active(p)
  /\ d \in Targets(p) /\ d \in conns /\ link[d] = "up"
  /\ UNCHANGED link
  /\ SendsLeft(p, IF out[p].ev = "invite" THEN {} ELSE Targets(p) \ {d},
               Waiting(p))
  /\ ringing' = [ringing EXCEPT ![d] =
       CASE out[p].ev = "invite" -> @ \cup {out[p].call}
         [] out[p].ev = "over" -> @ \ {out[p].call}
         [] OTHER -> @]
  /\ late' = [late EXCEPT ![d] =
       CASE out[p].ev = "invite" /\ ~Live(out[p].call)
              /\ ~ToBeTold(d, out[p].call) -> @ \cup {out[p].call}
         [] out[p].ev = "over" -> @ \ {out[p].call}
         [] OTHER -> @]
  /\ UNCHANGED <<hubVars, registryVars, who, kickCur, kicking, blocks,
                 swallowed>>

(* send_json raises: the connection is dropped and the answer of           *)
(* disconnect_by_connection_id, the offline transition, is not looked at.  *)
(* The next connection is tried, for an invitation too.                    *)
SendFails(p, d) ==
  /\ Active(p)
  /\ d \in Targets(p) /\ d \in conns /\ link[d] # "up"
  /\ HubDrop(d)
  /\ link' = [link EXCEPT ![d] = "shut"]
  /\ SendsLeft(p, Targets(p) \ {d}, Waiting(p))
  /\ swallowed' = IF BecomesOffline(d) THEN swallowed \cup {userOf[d]}
                  ELSE swallowed
  /\ ForgetCalls(d)
  /\ UNCHANGED <<registryVars, who, kickCur, kicking, blocks>>

(* Nobody to send to: a connection dropped since the user's connections    *)
(* were read, for which send_json returns False, or a user without any.    *)
PassBy(p) ==
  /\ Active(p)
  /\ UNCHANGED link
  /\ \/ \E d \in Targets(p) : d \notin conns /\ SendsLeft(p, Targets(p) \ {d}, Waiting(p))
     \/ /\ out[p].users # <<>> /\ Targets(p) = {}
        /\ SendsLeft(p, {}, Waiting(p))
  /\ UNCHANGED <<hubVars, registryVars, who, kickCur, kicking, blocks,
                 historyVars>>

-----------------------------------------------------------------------------
(* The life of a connection.                                               *)

Open(c) ==
  /\ pc[c] = "none"
  /\ HubConnect(c)
  /\ pc' = [pc EXCEPT ![c] = "recv"]
  /\ UNCHANGED <<registryVars, link, who, out, kickVars, blocks,
                 historyVars>>

(* auth with a valid token, on a fresh connection or again by its user.    *)
Auth(c, u) ==
  /\ Receiving(c)
  /\ who[c] \in {None, u}
  /\ HubBind(c, u)
  /\ who' = [who EXCEPT ![c] = u]
  /\ swallowed' = swallowed \ {u}
  /\ out' = [out EXCEPT ![c] = ToSelf(c)]
  /\ pc' = [pc EXCEPT ![c] = "send"]
  /\ UNCHANGED <<registryVars, link, kickVars, blocks, ringing, late>>

(* auth with a token that is no longer valid: the error is sent, the       *)
(* server closes the socket and the loop ends.                             *)
AuthRejected(c) ==
  /\ Receiving(c) /\ link[c] = "up"
  /\ link' = [link EXCEPT ![c] = "shut"]
  /\ pc' = [pc EXCEPT ![c] = "final"]
  /\ UNCHANGED <<hubVars, registryVars, who, out, kickVars, blocks,
                 historyVars>>

(* The peer closes, or the server's pings find it dead.                    *)
PeerLeaves(c) ==
  /\ pc[c] \in {"recv", "send"} /\ link[c] = "up"
  /\ link' = [link EXCEPT ![c] = "gone"]
  /\ UNCHANGED <<hubVars, registryVars, pc, who, out, kickVars, blocks,
                 historyVars>>

(* The finally block: disconnect, and the call of a user it made offline   *)
(* ends before anything else runs.                                         *)
Finalize(c) ==
  /\ \/ pc[c] = "final"
     \/ pc[c] = "recv" /\ link[c] # "up"
  /\ HubDrop(c)
  /\ link' = [link EXCEPT ![c] = "shut"]
  /\ IF BecomesOffline(c)
     THEN LET fan == HangupFor(userOf[c])
          IN /\ EndForOfflineUser(userOf[c])
             /\ out' = [out EXCEPT ![c] = fan]
             /\ pc' = [pc EXCEPT ![c] = IF fan = Quiet THEN "done" ELSE "bye"]
     ELSE /\ pc' = [pc EXCEPT ![c] = "done"]
          /\ UNCHANGED <<registryVars, out>>
  /\ ForgetCalls(c)
  /\ who' = [who EXCEPT ![c] = None]
  /\ UNCHANGED <<kickVars, blocks, swallowed>>

-----------------------------------------------------------------------------
(* Forced logout: disconnect_user_connections over a snapshot of the       *)
(* user's connections, then end_active_calls_for_auth_runtime.             *)

(* The loop moves to its next connection, passing over those that went     *)
(* away meanwhile, or ends the user's call when none is left.              *)
KickNext(u, left, fan) ==
  \/ \E d \in left :
       /\ kickCur' = [kickCur EXCEPT ![u] = d]
       /\ kicking' = [kicking EXCEPT ![u] = left \ {d}]
       /\ kick' = [kick EXCEPT ![u] = "closing"]
       /\ UNCHANGED <<registryVars, out>>
  \/ /\ left = {}
     /\ kickCur' = [kickCur EXCEPT ![u] = None]
     /\ kicking' = [kicking EXCEPT ![u] = {}]
     /\ kick' = [kick EXCEPT ![u] = IF fan = Quiet THEN "done" ELSE "notify"]
     /\ EndForOfflineUser(u)
     /\ out' = [out EXCEPT ![u] = fan]

KickStart(u) ==
  /\ kick[u] = "idle"
  /\ Cardinality({v \in User : kick[v] # "idle"}) < MaxKicks
  /\ KickNext(u, byUser[u], HangupFor(u))
  /\ UNCHANGED <<hubVars, link, pc, who, blocks, historyVars>>

(* The notice is sent and close() shuts the socket for the application;    *)
(* until the closing handshake is over the hub still has the connection.   *)
KickClose(u) ==
  /\ kick[u] = "closing"
  /\ link' = [link EXCEPT ![kickCur[u]] = "shut"]
  /\ kick' = [kick EXCEPT ![u] = "closed"]
  /\ UNCHANGED <<hubVars, registryVars, pc, who, out, kickCur, kicking,
                 blocks, historyVars>>

KickDrop(u) ==
  /\ kick[u] = "closed"
  /\ HubDrop(kickCur[u])
  /\ ForgetCalls(kickCur[u])
  /\ KickNext(u, kicking[u] \cap conns, HangupFor(u))
  /\ UNCHANGED <<link, pc, who, blocks, swallowed>>

(* An exception the hub does not catch leaves the loop.  auth.py logs it   *)
(* and gives up, with an error answer or without; in admin.py it ends the  *)
(* request.  Either way the connections not reached yet stay, and nobody   *)
(* looks for the user's call.                                              *)
KickFails(u) ==
  /\ kick[u] \in {"closing", "closed"}
  /\ kick' = [kick EXCEPT ![u] = "failed"]
  /\ kickCur' = [kickCur EXCEPT ![u] = None]
  /\ kicking' = [kicking EXCEPT ![u] = {}]
  /\ UNCHANGED <<hubVars, registryVars, handlerVars, blocks, historyVars>>

-----------------------------------------------------------------------------
(* Blocks, made and removed over HTTP.                                     *)

Block(u, v) ==
  /\ u # v /\ <<u, v>> \in Blockable
  /\ blocks' = blocks \cup {<<u, v>>}
  /\ UNCHANGED <<hubVars, registryVars, handlerVars, kickVars,
                 historyVars>>

Unblock(u, v) ==
  /\ blocks' = blocks \ {<<u, v>>}
  /\ UNCHANGED <<hubVars, registryVars, handlerVars, kickVars,
                 historyVars>>

(* has_block_relation asks for at most one row of either direction: one    *)
(* row hides the session, two rows raise an exception that is no AppError. *)
BlockRows(u, v) == blocks \cap {<<u, v>>, <<v, u>>}
Visible(u, v) == BlockRows(u, v) = {}
Raises(u, v) == BlockRows(u, v) = {<<u, v>>, <<v, u>>}

-----------------------------------------------------------------------------
(* Call signalling.  Every request looks up the private session again, so  *)
(* a block made during a call hides the call from both its users.          *)

Asks(c, u) == Receiving(c) /\ who[c] = u

Peer(id, u) == IF calls[id].initiator = u THEN calls[id].recipient
               ELSE calls[id].initiator

(* _require_participant_call *)
Participant(c, u, id) ==
  Asks(c, u) /\ Live(id) /\ u \in Parties(id) /\ Visible(u, Peer(id, u))

(* start_call makes a fresh uuid4 per call; an id the registry has         *)
(* forgotten, and every send and client with it, stands for a fresh one.   *)
Fresh(id) == /\ \A p \in Proc : out[p].call # id
             /\ \A c \in Conn : id \notin ringing[c]

Invite(c, u, r, id) ==
  /\ Asks(c, u) /\ r # u /\ Visible(u, r)
  /\ ~Live(id) /\ Fresh(id)
  /\ GetForUser(u) = None /\ GetForUser(r) = None
  /\ CreateCall(id, u, r)
  /\ Reply(c, InviteTo(c, id, r))
  /\ UNCHANGED <<hubVars, kickVars, blocks, historyVars>>

Busy(c, u, r) ==
  /\ Asks(c, u) /\ r # u /\ Visible(u, r)
  /\ GetForUser(u) # None \/ GetForUser(r) # None
  /\ callOf' = Swept({u, r})
  /\ Reply(c, ToUsers("note", None, <<u>>))
  /\ UNCHANGED <<hubVars, calls, kickVars, blocks, historyVars>>

Ringing(c, u, id) ==
  /\ Participant(c, u, id) /\ u = calls[id].recipient
  /\ calls[id].status \in {"invited", "ringing"}
  /\ MarkRinging(id)
  /\ Reply(c, ToUsers("note", id, IF calls[id].status = "ringing" THEN <<u>>
                                  ELSE PartySeq(id)))
  /\ UNCHANGED <<hubVars, kickVars, blocks, historyVars>>

Accept(c, u, id) ==
  /\ Participant(c, u, id) /\ u = calls[id].recipient
  /\ calls[id].status \in {"invited", "ringing"}
  /\ MarkAccepted(id)
  /\ Reply(c, ToUsers("note", id, PartySeq(id)))
  /\ UNCHANGED <<hubVars, kickVars, blocks, historyVars>>

Reject(c, u, id) ==
  /\ Participant(c, u, id) /\ u = calls[id].recipient
  /\ calls[id].status \in {"invited", "ringing"}
  /\ EndCall(id)
  /\ Reply(c, ToUsers("over", id, PartySeq(id)))
  /\ UNCHANGED <<hubVars, kickVars, blocks, historyVars>>

Hangup(c, u, id) ==
  /\ Participant(c, u, id)
  /\ EndCall(id)
  /\ Reply(c, ToUsers("over", id, PartySeq(id)))
  /\ UNCHANGED <<hubVars, kickVars, blocks, historyVars>>

(* relay_offer, relay_answer, relay_ice *)
Relay(c, u, id) ==
  /\ Participant(c, u, id) /\ calls[id].status = "accepted"
  /\ Reply(c, ToUsers("note", id, PartySeq(id)))
  /\ UNCHANGED <<hubVars, registryVars, kickVars, blocks, historyVars>>

(* Everything else a handler answers: chat, typing, recall, edit, delete   *)
(* and sync fan out to the members, an AppError goes to the sender.        *)
OtherTraffic(c, users) ==
  /\ Receiving(c)
  /\ Reply(c, ToSelfThen(c, users))
  /\ UNCHANGED <<hubVars, registryVars, kickVars, blocks, historyVars>>

(* A request about a session of two users who blocked each other.          *)
MutualBlockRaises(c, u, v) ==
  /\ Asks(c, u) /\ u # v /\ Raises(u, v)
  /\ Crash(c)
  /\ UNCHANGED <<hubVars, registryVars, kickVars, blocks, historyVars>>

-----------------------------------------------------------------------------

SendStep ==
  \/ \E p \in Proc : PassBy(p)
  \/ \E p \in Proc, d \in Conn : Deliver(p, d) \/ SendFails(p, d)

ConnStep == \E c \in Conn :
  \/ Open(c) \/ AuthRejected(c) \/ PeerLeaves(c) \/ Finalize(c)
  \/ \E u \in User : Auth(c, u)

KickStep == \E u \in User :
  KickStart(u) \/ KickClose(u) \/ KickDrop(u) \/ KickFails(u)

BlockStep == \E u, v \in User : Block(u, v) \/ Unblock(u, v)

CallStep == \E c \in Conn, u \in User :
  \/ \E r \in User, id \in Call : Invite(c, u, r, id)
  \/ \E r \in User : Busy(c, u, r) \/ MutualBlockRaises(c, u, r)
  \/ \E id \in Call : \/ Ringing(c, u, id) \/ Accept(c, u, id)
                      \/ Reject(c, u, id) \/ Hangup(c, u, id)
                      \/ Relay(c, u, id)

TrafficStep == \E c \in Conn, u \in User :
  OtherTraffic(c, IF who[c] = None THEN <<>> ELSE <<u>>)

Next ==
  SendStep \/ ConnStep \/ KickStep \/ BlockStep \/ CallStep \/ TrafficStep

Spec == Init /\ [][Next]_vars

(* A send returns: the server's pings end a connection that does not take  *)
(* what is sent to it.  A handler whose socket is closed is woken, and a   *)
(* coroutine that can go on is scheduled.                                  *)
Fairness ==
  /\ \A p \in Proc :
       WF_vars(PassBy(p) \/ \E d \in Conn : Deliver(p, d) \/ SendFails(p, d))
  /\ \A c \in Conn : WF_vars(Finalize(c))
  /\ \A u \in User : WF_vars(KickClose(u)) /\ WF_vars(KickDrop(u))

FairSpec == Spec /\ Fairness

-----------------------------------------------------------------------------
(* Properties.                                                             *)

(* The user began this call, or answered it: the user was online then.     *)
Committed(u, id) ==
  \/ u = calls[id].initiator
  \/ u = calls[id].recipient /\ calls[id].status = "accepted"

(* "End active calls for a user that has no remaining online connections"  *)
(* (call_registry.py:146): when the last connection of a user who began or *)
(* answered a call is gone and its handlers are through their finally      *)
(* block, the call is gone.                                                *)
OfflineEndsCall ==
  \A id \in Call : Live(id) =>
    \A u \in User : Committed(u, id) =>
      \/ HasUserConnections(u)
      \/ \E c \in Conn : who[c] = u

(* The one way a call outlives the connections of its user is a send that  *)
(* failed on the last of them, whose offline transition send_json ignores; *)
(* and it lasts only until the user is online again.  A forced logout is   *)
(* no other way, even one that gives up between two connections: whichever *)
(* it leaves keeps its user online and ends the call when it goes.         *)
CallOutlivesUserOnlyBySwallow ==
  \A id \in Call : Live(id) =>
    \A u \in User : Committed(u, id) =>
      HasUserConnections(u) \/ u \in swallowed

(* Whoever got the invitation of a call, or the caller's own copy of it,   *)
(* and can still be reached is told of its end by the fan-out that ended   *)
(* it, however many handlers send at the time.  A client is left ringing   *)
(* for a call that is over in one way only, which `late' records: the call *)
(* ended while its invitation was under way (chat_ws.py:402-407 awaits the *)
(* caller's copy, and every dead connection of the callee, before the one  *)
(* that takes it), the announcement of the end had passed this connection  *)
(* when the invitation reached it, and no later one is to come.            *)
EndIsAnnounced ==
  \A c \in conns : link[c] = "up" => \A id \in ringing[c] :
    Live(id) \/ ToBeTold(c, id) \/ id \in late[c]

(* Signalling implements the slots of CallSlots: whatever the connections  *)
(* do, a call takes and frees both users at once and is answered once.     *)
Phase == [id \in Call |-> IF calls[id].status = "none" THEN "free"
                          ELSE IF calls[id].status = "accepted" THEN "answered"
                          ELSE "offered"]
Slots == INSTANCE CallSlots WITH slot <- callOf, phase <- Phase
ImplementsSlots == Slots!SlotSpec

(* A connection whose socket is no longer usable leaves the hub, so its    *)
(* user does not stay "already online" to the next login (auth.py:177).    *)
DeadConnectionLeaves ==
  \A c \in Conn : (c \in conns /\ link[c] # "up") ~> (c \notin conns)

(* A forced logout that began with the user in a call ends that call, or   *)
(* gave up at an exception of the disconnect (auth.py:74-78).              *)
ForcedLogoutEndsCall ==
  \A u \in User, id \in Call :
    (kick[u] = "closing" /\ callOf[u] = id) ~>
      (callOf[u] # id \/ kick[u] = "failed")
=============================================================================
