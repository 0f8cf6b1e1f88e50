---------------------------- MODULE AuthSession ----------------------------
(***************************************************************************)
(* The sessions of one account on the server: the session version in its   *)
(* row, the tokens that carry a version, and the websockets authenticated  *)
(* with them (src/server/app/api/v1/auth.py, api/v1/admin.py,              *)
(* services/auth_service.py, websocket/auth.py).                           *)
(*                                                                         *)
(* An action is what a request does between two points at which another    *)
(* may act.  A handler declared async runs on the event loop from one      *)
(* await to the next, but what its dependencies read was read by a thread  *)
(* before it began; refresh runs in a thread altogether.  A user row that  *)
(* a request has read stays as it was read until it is refreshed.          *)
(***************************************************************************)
EXTENDS Naturals, FiniteSets

CONSTANTS
  Device,      \* clients of the account; one may hold every token it was given
  Conn,        \* websockets
  Req,         \* requests served at the same time
  MaxVersion   \* BOUND: the session version stays below

ASSUME VersionBound == MaxVersion \in Nat \ {0}

VARIABLES
  version,     \* users.auth_session_version
  disabled,    \* users.is_disabled
  pictureLost, \* the custom avatar's file is missing: backfill_user_avatar_state
               \* then leaves the row as the request has read it
  held,        \* versions of the tokens each device was given
  conn,        \* version each bound websocket was authenticated with, 0: none
  req,         \* requests under way
  written,     \* history: versions that were current
  shared,      \* history: versions written twice, or given by a refresh to
               \* the holder of another
  graced,      \* history: versions given out while the account was disabled
  spared       \* history: websockets a rotation left alone

rowVars == <<version, disabled, pictureLost>>
historyVars == <<written, shared, graced, spared>>
vars == <<rowVars, held, conn, req, historyVars>>

Version == 1..MaxVersion
Done == [st |-> "done"]

TypeOK ==
  /\ version \in Version
  /\ disabled \in BOOLEAN /\ pictureLost \in BOOLEAN
  /\ held \in [Device -> SUBSET Version]
  /\ conn \in [Conn -> Version \cup {0}]
  /\ req \in [Req ->
       {Done}
       \cup [st : {"replacing"}, dev : Device, v : Version, todo : SUBSET Conn]
       \cup [st : {"refreshing", "changing"}, dev : Device, v : Version]
       \cup [st : {"leaving"}, v : Version]
       \cup [st : {"closing"}, todo : (SUBSET Conn) \ {{}}]]
  /\ written \subseteq Version /\ shared \subseteq Version
  /\ graced \subseteq Version /\ spared \subseteq Conn

Bound == {c \in Conn : conn[c] # 0}
Close(S) == IF S = {} THEN Done ELSE [st |-> "closing", todo |-> S]
Todo(r) == IF req[r].st \in {"replacing", "closing"} THEN req[r].todo ELSE {}

(* Registered on one device.                                               *)
Init ==
  /\ version = 1 /\ disabled = FALSE /\ pictureLost \in BOOLEAN
  /\ \E d \in Device : held = [e \in Device |-> IF e = d THEN {1} ELSE {}]
  /\ conn = [c \in Conn |-> 0]
  /\ req = [r \in Req |-> Done]
  /\ written = {1} /\ shared = {} /\ graced = {} /\ spared = {}

-----------------------------------------------------------------------------
(* advance_auth_session_version: one more than the row as it was read.     *)
Advance(v) ==
  /\ v < MaxVersion
  /\ version' = v + 1
  /\ written' = written \cup {v + 1}
  /\ shared' = IF v + 1 \in written THEN shared \cup {v + 1} ELSE shared

(* Tokens of a version are handed to a device.                             *)
Give(d, w) ==
  /\ held' = [held EXCEPT ![d] = @ \cup {w}]
  /\ graced' = IF disabled THEN graced \cup {w} ELSE graced

(* Wrong on purpose: a login leaves the version as it is.                  *)
GrantSame(d, v) ==
  /\ Give(d, version)
  /\ spared' = spared \cup Bound
  /\ UNCHANGED <<version, written, shared>>

(* _build_auth_payload after a login: the avatar is normalised, which      *)
(* reads the row again, and the version advanced.                          *)
Grant(d, v) ==
  LET read == IF pictureLost THEN v ELSE version
  IN /\ Advance(read)
     /\ Give(d, read + 1)
     /\ spared' = spared \cup Bound

-----------------------------------------------------------------------------
(* Login.  While somebody is connected it is refused, unless it is forced. *)

Login(d) ==
  /\ ~disabled /\ Bound = {}
  /\ Grant(d, version)
  /\ UNCHANGED <<disabled, pictureLost, conn, req>>

ForceLogin(r, d) ==
  /\ req[r] = Done /\ ~disabled /\ Bound # {}
  /\ req' = [req EXCEPT ![r] = [st |-> "replacing", dev |-> d, v |-> version,
                                todo |-> Bound]]
  /\ UNCHANGED <<rowVars, held, conn, historyVars>>

(* The old connections are gone: now the version is advanced.  The account *)
(* is not read again to see whether it is still enabled.                   *)
Replace(r) ==
  /\ req[r].st = "replacing" /\ req[r].todo = {}
  /\ Grant(req[r].dev, req[r].v)
  /\ req' = [req EXCEPT ![r] = Done]
  /\ UNCHANGED <<disabled, pictureLost, conn>>

-----------------------------------------------------------------------------
(* What needs a valid access token, checked by get_current_user in a       *)
(* thread; the handler works with the row read there.                      *)

LogoutBegin(r, d) ==
  /\ req[r] = Done /\ ~disabled /\ version \in held[d]
  /\ req' = [req EXCEPT ![r] = [st |-> "leaving", v |-> version]]
  /\ UNCHANGED <<rowVars, held, conn, historyVars>>

Logout(r) ==
  /\ req[r].st = "leaving"
  /\ Advance(req[r].v)
  /\ req' = [req EXCEPT ![r] = Close(Bound)]
  /\ UNCHANGED <<disabled, pictureLost, held, conn, graced, spared>>

ChangeBegin(r, d) ==
  /\ req[r] = Done /\ ~disabled /\ version \in held[d]
  /\ req' = [req EXCEPT ![r] = [st |-> "changing", dev |-> d, v |-> version]]
  /\ UNCHANGED <<rowVars, held, conn, historyVars>>

(* The connections stay.                                                   *)
ChangePassword(r) ==
  /\ req[r].st = "changing"
  /\ Advance(req[r].v)
  /\ Give(req[r].dev, req[r].v + 1)
  /\ spared' = spared \cup Bound
  /\ req' = [req EXCEPT ![r] = Done]
  /\ UNCHANGED <<disabled, pictureLost, conn>>

-----------------------------------------------------------------------------
(* Refresh: the row is read and the token checked against it; then the     *)
(* avatar is normalised, and the answer carries the version read then.     *)

RefreshBegin(r, d) ==
  /\ req[r] = Done /\ ~disabled /\ version \in held[d]
  /\ req' = [req EXCEPT ![r] = [st |-> "refreshing", dev |-> d, v |-> version]]
  /\ UNCHANGED <<rowVars, held, conn, historyVars>>

(* Wrong on purpose: tokens without a version, which is read as 0.         *)
RefreshBare(r) ==
  /\ req[r].st = "refreshing"
  /\ Give(req[r].dev, 0)
  /\ req' = [req EXCEPT ![r] = Done]
  /\ UNCHANGED <<rowVars, conn, written, shared, spared>>

Refresh(r) ==
  LET w == IF pictureLost THEN req[r].v ELSE version
  IN /\ req[r].st = "refreshing"
     /\ Give(req[r].dev, w)
     /\ shared' = IF w # req[r].v THEN shared \cup {w} ELSE shared
     /\ req' = [req EXCEPT ![r] = Done]
     /\ UNCHANGED <<rowVars, conn, written, spared>>

-----------------------------------------------------------------------------
(* What others do to the account: a confirmed password reset and an        *)
(* administrator's forced logout, a disabling, an enabling.                *)

Expel(r) ==
  /\ req[r] = Done
  /\ Advance(version)
  /\ req' = [req EXCEPT ![r] = Close(Bound)]
  /\ UNCHANGED <<disabled, pictureLost, held, conn, graced, spared>>

(* Wrong on purpose: the old tokens stay valid.                            *)
DisableOnly(r) ==
  /\ req[r] = Done
  /\ disabled' = TRUE
  /\ req' = [req EXCEPT ![r] = Close(Bound)]
  /\ UNCHANGED <<version, pictureLost, held, conn, historyVars>>

Disable(r) ==
  /\ req[r] = Done
  /\ disabled' = TRUE
  /\ Advance(version)
  /\ req' = [req EXCEPT ![r] = Close(Bound)]
  /\ UNCHANGED <<pictureLost, held, conn, graced, spared>>

Enable ==
  /\ disabled
  /\ disabled' = FALSE
  /\ UNCHANGED <<version, pictureLost, held, conn, req, historyVars>>

-----------------------------------------------------------------------------
(* Websockets.                                                             *)

(* require_websocket_user_id, bind_user: the version of the token is       *)
(* compared, whether the account is disabled is not.                       *)
Bind(c) ==
  /\ conn[c] = 0 /\ \E d \in Device : version \in held[d]
  /\ conn' = [conn EXCEPT ![c] = version]
  /\ UNCHANGED <<rowVars, held, req, historyVars>>

(* A connection that is gone has no part in what follows: its id is never  *)
(* used again.                                                             *)
Gone(c) ==
  /\ conn' = [conn EXCEPT ![c] = 0]
  /\ spared' = spared \ {c}
  /\ UNCHANGED <<rowVars, held, written, shared, graced>>

Without(c) ==
  [r \in Req |-> IF c \notin Todo(r) THEN req[r]
                 ELSE IF req[r].st = "closing" THEN Close(Todo(r) \ {c})
                 ELSE [req[r] EXCEPT !.todo = @ \ {c}]]

(* The client hangs up.                                                    *)
HangUp(c) ==
  /\ conn[c] # 0
  /\ Gone(c) /\ req' = Without(c)

(* Wrong on purpose: only the first is closed.                             *)
DisconnectFirst(r) ==
  \E c \in Todo(r) : Gone(c) /\ req' = [req EXCEPT ![r] = Done]

(* disconnect_user_connections: one at a time.                             *)
Disconnect(r) == \E c \in Todo(r) : Gone(c) /\ req' = Without(c)

(* Closing one fails in a way that is not expected: the others are left;   *)
(* a forced login ends with an error.                                      *)
DisconnectFails(r) ==
  /\ Todo(r) # {}
  /\ req' = [req EXCEPT ![r] = Done]
  /\ spared' = spared \cup Todo(r)
  /\ UNCHANGED <<rowVars, held, conn, written, shared, graced>>

(* The server process starts again: what it had under way is lost.         *)
Restart ==
  /\ conn' = [c \in Conn |-> 0]
  /\ req' = [r \in Req |-> Done]
  /\ spared' = {}
  /\ UNCHANGED <<rowVars, held, written, shared, graced>>

-----------------------------------------------------------------------------
Begin(r) ==
  \/ \E d \in Device : \/ ForceLogin(r, d) \/ LogoutBegin(r, d)
                       \/ ChangeBegin(r, d) \/ RefreshBegin(r, d)
  \/ Expel(r) \/ Disable(r)
Proceed(r) ==
  \/ Replace(r) \/ Logout(r) \/ ChangePassword(r) \/ Refresh(r)
  \/ Disconnect(r)

Next ==
  \/ \E d \in Device : Login(d)
  \/ \E r \in Req : Begin(r) \/ Proceed(r) \/ DisconnectFails(r)
  \/ \E c \in Conn : Bind(c) \/ HangUp(c)
  \/ Enable \/ Restart

Spec == Init /\ [][Next]_vars

-----------------------------------------------------------------------------
(* Properties.                                                             *)

Closing == UNION {Todo(r) : r \in Req}

(* One live session: the current version is held by one device at most,    *)
(* unless two requests that had read the same row both advanced it, or a   *)
(* refresh was overtaken by the login that replaced its session.           *)
OneLiveSession ==
  version \notin shared =>
    Cardinality({d \in Device : version \in held[d]}) <= 1

(* A connection of an earlier session is about to be closed, except where  *)
(* the code leaves it: a password changed, a forced login that others      *)
(* joined before it advanced the version, a disconnect that failed.        *)
StaleAreClosing ==
  \A c \in Bound : conn[c] # version => c \in Closing \cup spared

(* A disabled account is not connected, but for what is being closed or    *)
(* was left, and for tokens given out by a request that had seen the       *)
(* account enabled or of a version that was written a second time.         *)
DisabledStaysOut ==
  disabled => \A c \in Bound :
    c \in Closing \cup spared \/ conn[c] \in graced \cup shared
=============================================================================
