---------------------------- MODULE RealtimeHub ----------------------------
(***************************************************************************)
(* The in-memory connection hub of the server, InMemoryRealtimeHub in      *)
(* src/server/app/realtime/hub.py.  It is presence: which websockets are   *)
(* accepted, which user each is bound to, and which connections a user     *)
(* has.  The two directions of the binding are two dictionaries of the     *)
(* code and two variables here; that they agree is a property.             *)
(*                                                                         *)
(* The module defines the state and the synchronous operations; the        *)
(* websocket handlers that call them are in CallSignaling.                 *)
(***************************************************************************)
EXTENDS UserIds

CONSTANT Conn     \* connection ids, one uuid4 per accepted websocket

ASSUME NoneIsNoId == None \notin Conn \cup User

VARIABLES conns,    \* _connections: the ids whose websocket the hub holds
          userOf,   \* _user_by_connection, None where the key is absent
          byUser    \* _connections_by_user, {} where the key is absent

hubVars == <<conns, userOf, byUser>>

HubTypeOK ==
  /\ conns \in SUBSET Conn
  /\ userOf \in [Conn -> User \cup {None}]
  /\ byUser \in [User -> SUBSET Conn]

HubInit ==
  /\ conns = {}
  /\ userOf = [c \in Conn |-> None]
  /\ byUser = [u \in User |-> {}]

HasUserConnections(u) == byUser[u] # {}

(* connect: the websocket is accepted and known, bound to nobody.          *)
HubConnect(c) ==
  /\ conns' = conns \cup {c}
  /\ UNCHANGED <<userOf, byUser>>

(* bind_user: a previous binding of the connection is taken back first.    *)
HubBind(c, u) ==
  /\ userOf' = [userOf EXCEPT ![c] = u]
  /\ byUser' = [v \in User |->
                  IF v = u THEN byUser[v] \cup {c}
                  ELSE IF v = userOf[c] THEN byUser[v] \ {c}
                  ELSE byUser[v]]
  /\ UNCHANGED conns

(* Two ways to get _drop_connection wrong, used to test the properties:    *)
(* the user keeps the connection, or the hub keeps the websocket.          *)
DropKeepingUser(c) ==
  /\ conns' = conns \ {c}
  /\ userOf' = [userOf EXCEPT ![c] = None]
  /\ UNCHANGED byUser
DropKeepingSocket(c) ==
  /\ userOf' = [userOf EXCEPT ![c] = None]
  /\ byUser' = [v \in User |->
                  IF v = userOf[c] THEN byUser[v] \ {c} ELSE byUser[v]]
  /\ UNCHANGED conns

(* _drop_connection: every trace of the connection goes.                   *)
HubDrop(c) ==
  /\ conns' = conns \ {c}
  /\ userOf' = [userOf EXCEPT ![c] = None]
  /\ byUser' = [v \in User |->
                  IF v = userOf[c] THEN byUser[v] \ {c} ELSE byUser[v]]

(* Wrong on purpose: asked of the connections before the drop, as they are.*)
OfflineBeforeDrop(c) == userOf[c] # None /\ byUser[userOf[c]] = {}

(* The (user_id, became_offline) answer of disconnect_by_connection_id,    *)
(* asked in the state before the drop.                                     *)
BecomesOffline(c) == userOf[c] # None /\ byUser[userOf[c]] \subseteq {c}

(***************************************************************************)
(* The two dictionaries describe one relation, and only accepted           *)
(* connections are bound.  has_user_connections and every fan-out read     *)
(* one direction, disconnect the other: were they to part, a user would    *)
(* stay online for ever or never become offline.                           *)
(***************************************************************************)
HubConsistent ==
  /\ \A c \in Conn : \A u \in User : c \in byUser[u] <=> userOf[c] = u
  /\ \A c \in Conn : userOf[c] # None => c \in conns
=============================================================================
