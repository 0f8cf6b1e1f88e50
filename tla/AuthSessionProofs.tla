------------------------- MODULE AuthSessionProofs -------------------------
(***************************************************************************)
(* Proofs about AuthSession: its types, that a version is held by one      *)
(* device at most, that connections of earlier sessions are being closed,  *)
(* and that a disabled account stays out, each but for what the model      *)
(* records as excused, for any devices, websockets and requests.           *)
(*                                                                         *)
(* What several requests do to versions and tokens comes down to two       *)
(* things: the version is advanced from a value that was read once, and    *)
(* tokens are given to a device.  A version that was never current before  *)
(* is held by nobody; that is what the invariants hang on.                 *)
(***************************************************************************)
EXTENDS AuthSession, FiniteSetTheorems, TLAPS

ReqState ==
  {Done}
  \cup [st : {"replacing"}, dev : Device, v : Version, todo : SUBSET Conn]
  \cup [st : {"refreshing", "changing"}, dev : Device, v : Version]
  \cup [st : {"leaving"}, v : Version]
  \cup [st : {"closing"}, todo : (SUBSET Conn) \ {{}}]

\* tokens are of versions that were current; a refresh holds what it showed
Origins ==
  /\ version \in written
  /\ \A d \in Device : held[d] \subseteq written
  /\ \A r \in Req : req[r].st = "refreshing" => req[r].v \in held[req[r].dev]

\* OneLiveSession for every version, without counting
OneHolder ==
  \A w \in Version \ shared : \A d, e \in Device :
    w \in held[d] /\ w \in held[e] => d = e

\* while the account is disabled, nobody has good tokens but by the excuses
NoGoodTokens ==
  disabled => \A d \in Device : version \in held[d] => version \in graced \cup shared

IInv == /\ TypeOK /\ Origins /\ OneHolder
        /\ StaleAreClosing /\ NoGoodTokens /\ DisabledStaysOut

\* what the steps of a request are
LEMMA CloseIsTyped ==
  ASSUME NEW S \in SUBSET Conn PROVE Close(S) \in ReqState
BY DEF Close, ReqState

LEMMA TodoIsTyped ==
  ASSUME TypeOK, NEW r \in Req PROVE Todo(r) \in SUBSET Conn
<1>1. req[r] \in ReqState BY DEF TypeOK, ReqState
<1>2. CASE req[r].st = "replacing" BY <1>1, <1>2 DEF ReqState, Todo, Done
<1>3. CASE req[r].st = "closing" BY <1>1, <1>3 DEF ReqState, Todo, Done
<1> QED BY <1>2, <1>3 DEF Todo

LEMMA WithoutIsTyped ==
  ASSUME TypeOK, NEW c \in Conn PROVE Without(c) \in [Req -> ReqState]
<1> SUFFICES ASSUME NEW r \in Req PROVE Without(c)[r] \in ReqState
  BY DEF Without
<1>1. req[r] \in ReqState BY DEF TypeOK, ReqState
<1>2. Todo(r) \ {c} \in SUBSET Conn BY TodoIsTyped
<1>3. CASE c \notin Todo(r) BY <1>1, <1>3 DEF Without
<1>4. CASE c \in Todo(r) /\ req[r].st = "closing"
  BY <1>2, <1>4, CloseIsTyped DEF Without
<1>5. CASE c \in Todo(r) /\ req[r].st # "closing"
  <2>1. req[r].st = "replacing" BY <1>5 DEF Todo
  <2>2. req[r] \in [st : {"replacing"}, dev : Device, v : Version, todo : SUBSET Conn]
    BY <1>1, <2>1 DEF ReqState, Done
  <2> QED BY <1>5, <2>2 DEF Without, ReqState
<1> QED BY <1>3, <1>4, <1>5

LEMMA TypeStep ==
  ASSUME TypeOK, Next PROVE TypeOK'
<1> USE VersionBound
<1>0. /\ version \in Version /\ disabled \in BOOLEAN /\ pictureLost \in BOOLEAN
      /\ held \in [Device -> SUBSET Version] /\ conn \in [Conn -> Version \cup {0}]
      /\ req \in [Req -> ReqState]
      /\ written \subseteq Version /\ shared \subseteq Version
      /\ graced \subseteq Version /\ spared \subseteq Conn
  BY DEF TypeOK, ReqState
<1>a. ASSUME NEW v \in Version, Advance(v)
      PROVE  v + 1 \in Version /\ version' \in Version /\ written' \subseteq Version
             /\ shared' \subseteq Version
  BY <1>0, <1>a DEF Advance, Version
<1>b. ASSUME NEW d \in Device, NEW w \in Version, Give(d, w)
      PROVE  held' \in [Device -> SUBSET Version] /\ graced' \subseteq Version
  BY <1>0, <1>b DEF Give
<1>c. ASSUME NEW d \in Device, NEW v \in Version, Grant(d, v)
      PROVE  /\ version' \in Version /\ written' \subseteq Version /\ shared' \subseteq Version
             /\ held' \in [Device -> SUBSET Version] /\ graced' \subseteq Version
             /\ spared' \subseteq Conn
  BY <1>0, <1>a, <1>b, <1>c DEF Grant, Bound
<1>d. Bound \in SUBSET Conn /\ Done \in ReqState /\ \A S \in SUBSET Conn : Close(S) \in ReqState
  BY CloseIsTyped DEF Bound, ReqState
<1> SUFFICES /\ version' \in Version /\ disabled' \in BOOLEAN /\ pictureLost' \in BOOLEAN
             /\ held' \in [Device -> SUBSET Version] /\ conn' \in [Conn -> Version \cup {0}]
             /\ req' \in [Req -> ReqState]
             /\ written' \subseteq Version /\ shared' \subseteq Version
             /\ graced' \subseteq Version /\ spared' \subseteq Conn
  BY DEF TypeOK, ReqState
<1> DEFINE Fine == /\ version' \in Version /\ disabled' \in BOOLEAN /\ pictureLost' \in BOOLEAN
             /\ held' \in [Device -> SUBSET Version] /\ conn' \in [Conn -> Version \cup {0}]
             /\ req' \in [Req -> ReqState]
             /\ written' \subseteq Version /\ shared' \subseteq Version
             /\ graced' \subseteq Version /\ spared' \subseteq Conn
<1>1. ASSUME NEW d \in Device, Login(d) PROVE Fine
  BY <1>0, <1>1, <1>c DEF Login
<1>2. ASSUME NEW r \in Req, NEW d \in Device, ForceLogin(r, d) PROVE Fine
  BY <1>0, <1>2, <1>d DEF ForceLogin, rowVars, historyVars, ReqState
<1>3. ASSUME NEW r \in Req, Replace(r) PROVE Fine
  <2>1. req[r].dev \in Device /\ req[r].v \in Version
    BY <1>0, <1>3 DEF Replace, ReqState, Done
  <2> QED BY <1>0, <1>3, <1>c, <1>d, <2>1 DEF Replace
<1>4. ASSUME NEW r \in Req, NEW d \in Device, LogoutBegin(r, d) \/ ChangeBegin(r, d) \/ RefreshBegin(r, d)
      PROVE  Fine
  BY <1>0, <1>4 DEF LogoutBegin, ChangeBegin, RefreshBegin, rowVars, historyVars, ReqState
<1>5. ASSUME NEW r \in Req, Logout(r) PROVE Fine
  <2>1. req[r].v \in Version
    BY <1>0, <1>5 DEF Logout, ReqState, Done
  <2> QED BY <1>0, <1>5, <1>a, <1>d, <2>1 DEF Logout
<1>6. ASSUME NEW r \in Req, ChangePassword(r) PROVE Fine
  <2>1. req[r].dev \in Device /\ req[r].v \in Version
    BY <1>0, <1>6 DEF ChangePassword, ReqState, Done
  <2>2. Advance(req[r].v) /\ Give(req[r].dev, req[r].v + 1)
    BY <1>6 DEF ChangePassword
  <2>3. req[r].v + 1 \in Version BY <2>1, <2>2, <1>a
  <2> QED BY <1>0, <1>6, <1>a, <1>b, <1>d, <2>1, <2>2, <2>3 DEF ChangePassword
<1>7. ASSUME NEW r \in Req, Refresh(r) PROVE Fine
  <2>1. req[r].dev \in Device /\ req[r].v \in Version
    BY <1>0, <1>7 DEF Refresh, ReqState, Done
  <2> QED BY <1>0, <1>7, <1>b, <1>d, <2>1 DEF Refresh, rowVars
<1>8. ASSUME NEW r \in Req, Expel(r) \/ Disable(r) PROVE Fine
  BY <1>0, <1>8, <1>a, <1>d DEF Expel, Disable
<1>9. ASSUME NEW c \in Conn, Gone(c), req' = Without(c) PROVE Fine
  BY <1>0, <1>9, WithoutIsTyped DEF Gone, rowVars
<1>10. ASSUME NEW r \in Req, Disconnect(r) PROVE Fine
  BY <1>9, <1>10, TodoIsTyped DEF Disconnect
<1>11. ASSUME NEW r \in Req, DisconnectFails(r) PROVE Fine
  BY <1>0, <1>11, <1>d, TodoIsTyped DEF DisconnectFails, rowVars
<1>12. ASSUME NEW c \in Conn, Bind(c) \/ HangUp(c) PROVE Fine
  BY <1>0, <1>9, <1>12 DEF Bind, HangUp, rowVars, historyVars
<1>13. ASSUME Enable \/ Restart PROVE Fine
  BY <1>0, <1>13, <1>d DEF Enable, Restart, rowVars, historyVars
<1> QED BY <1>1, <1>2, <1>3, <1>4, <1>5, <1>6, <1>7, <1>8, <1>10, <1>11, <1>12, <1>13
        DEF Next, Begin, Proceed

-----------------------------------------------------------------------------
(* Versions and who holds them.                                            *)

\* advancing to a version nobody was given
LEMMA HoldersStep ==
  ASSUME TypeOK, Origins, OneHolder, NoGoodTokens, Next
  PROVE  (Origins /\ OneHolder /\ NoGoodTokens)'
<1> DEFINE Fine == Origins' /\ OneHolder' /\ NoGoodTokens'
<1>0. /\ version \in Version /\ held \in [Device -> SUBSET Version]
      /\ req \in [Req -> ReqState]
      /\ written \subseteq Version /\ shared \subseteq Version
  BY DEF TypeOK, ReqState
<1>a. \A r \in Req : req[r].st \in {"replacing", "refreshing", "changing", "leaving"}
        => req[r].v \in Version
  BY <1>0 DEF ReqState, Done
<1>b. \A r \in Req : req[r].st \in {"replacing", "refreshing", "changing"}
        => req[r].dev \in Device
  BY <1>0 DEF ReqState, Done
<1>c. \A S : Close(S).st # "refreshing"
  BY DEF Close, Done
<1>d. Done.st # "refreshing" BY DEF Done
<1> DEFINE NoNewRefresh ==
      \A r \in Req : req'[r].st = "refreshing" => req'[r] = req[r]
<1>e. ASSUME NEW v \in Version, Advance(v), UNCHANGED <<held, graced>>, NoNewRefresh
      PROVE  Fine
  BY <1>0, <1>e, VersionBound DEF Advance, Origins, OneHolder, NoGoodTokens, Version
<1>f. ASSUME NEW v \in Version, NEW d \in Device, Advance(v), Give(d, v + 1), NoNewRefresh,
             UNCHANGED disabled
      PROVE  Fine
  <2>1. v + 1 \in Version /\ version' = v + 1
    BY <1>0, <1>f, VersionBound DEF Advance, Version
  <2>2. \A e \in Device : held'[e] = (IF e = d THEN held[e] \cup {v + 1} ELSE held[e])
    BY <1>0, <1>f DEF Give
  <2>3. Origins'
    BY <1>0, <1>b, <1>f, <2>1, <2>2 DEF Origins, Advance
  <2>4. OneHolder'
    <3> SUFFICES ASSUME NEW x \in Version \ shared', NEW d1 \in Device, NEW d2 \in Device,
                        x \in held'[d1], x \in held'[d2]
                 PROVE  d1 = d2
      BY DEF OneHolder
    <3>1. x \notin shared BY <1>f DEF Advance
    <3>2. CASE x = v + 1
      <4>1. x \notin written BY <1>f, <3>2 DEF Advance
      <4>2. \A e \in Device : x \notin held[e] BY <4>1 DEF Origins
      <4> QED BY <2>2, <4>2
    <3>3. CASE x # v + 1
      BY <2>2, <3>1, <3>3 DEF OneHolder
    <3> QED BY <3>2, <3>3
  <2>5. NoGoodTokens'
    BY <1>f, <2>1, <2>2 DEF NoGoodTokens, Origins, Advance, Give
  <2> QED BY <2>3, <2>4, <2>5
<1>g. ASSUME UNCHANGED <<version, held, written, shared, graced>>, NoNewRefresh,
             disabled' => disabled
      PROVE  Fine
  BY <1>g DEF Origins, OneHolder, NoGoodTokens
<1>h. ASSUME NEW c \in Conn, req' = Without(c) PROVE NoNewRefresh
  <2> SUFFICES ASSUME NEW r \in Req, Without(c)[r].st = "refreshing"
               PROVE  Without(c)[r] = req[r]
    BY <1>h
  <2>1. CASE c \notin Todo(r) BY <2>1 DEF Without
  <2>2. CASE c \in Todo(r) /\ req[r].st = "closing" BY <1>c, <2>2 DEF Without
  <2>3. CASE c \in Todo(r) /\ req[r].st # "closing"
    <3>1. req[r].st = "replacing" BY <2>3 DEF Todo
    <3>2. req[r] \in [st : {"replacing"}, dev : Device, v : Version, todo : SUBSET Conn]
      BY <1>0, <3>1 DEF ReqState, Done
    <3>3. Without(c)[r].st = "replacing" BY <2>3, <3>2 DEF Without
    <3> QED BY <3>3
  <2> QED BY <2>1, <2>2, <2>3
<1>1. ASSUME NEW d \in Device, Login(d) PROVE Fine
  <2>1. Grant(d, version) /\ UNCHANGED <<disabled, req>> BY <1>1 DEF Login
  <2>2. Advance(version) /\ Give(d, version + 1) BY <2>1 DEF Grant
  <2> QED BY <1>0, <1>f, <2>1, <2>2
<1>2. ASSUME NEW r \in Req, NEW d \in Device, ForceLogin(r, d) PROVE Fine
  BY <1>0, <1>2, <1>g DEF ForceLogin, rowVars, historyVars
<1>3. ASSUME NEW r \in Req, Replace(r) PROVE Fine
  <2>1. NoNewRefresh /\ UNCHANGED disabled BY <1>0, <1>3, <1>d DEF Replace
  <2>2. PICK v \in Version : Advance(v) /\ Give(req[r].dev, v + 1)
    BY <1>0, <1>3, <1>a DEF Replace, Grant
  <2> QED BY <1>3, <1>b, <1>f, <2>1, <2>2 DEF Replace
<1>4. ASSUME NEW r \in Req, NEW d \in Device, LogoutBegin(r, d) \/ ChangeBegin(r, d)
      PROVE  Fine
  BY <1>0, <1>4, <1>g DEF LogoutBegin, ChangeBegin, rowVars, historyVars
<1>5. ASSUME NEW r \in Req, NEW d \in Device, RefreshBegin(r, d) PROVE Fine
  BY <1>0, <1>5 DEF RefreshBegin, rowVars, historyVars, Origins, OneHolder, NoGoodTokens
<1>6. ASSUME NEW r \in Req, Logout(r) PROVE Fine
  BY <1>0, <1>6, <1>a, <1>c, <1>e DEF Logout
<1>7. ASSUME NEW r \in Req, ChangePassword(r) PROVE Fine
  BY <1>0, <1>7, <1>a, <1>b, <1>d, <1>f DEF ChangePassword
<1>8. ASSUME NEW r \in Req, Refresh(r) PROVE Fine
  <2> DEFINE d == req[r].dev
             w == IF pictureLost THEN req[r].v ELSE version
  <2>1. /\ d \in Device /\ w \in Version /\ Give(d, w)
        /\ w # req[r].v => w \in shared'
        /\ shared \subseteq shared'
        /\ UNCHANGED <<version, disabled, written>> /\ NoNewRefresh
        /\ req[r].v \in held[d] /\ req[r].v \in written
    BY <1>0, <1>8, <1>a, <1>b, <1>d DEF Refresh, rowVars, Origins
  <2>2. \A e \in Device : held'[e] = (IF e = d THEN held[e] \cup {w} ELSE held[e])
    BY <1>0, <2>1 DEF Give
  <2>3. w \in written BY <1>8, <2>1 DEF Origins
  <2>4. Origins'
    BY <1>b, <2>1, <2>2, <2>3 DEF Origins
  <2>5. OneHolder'
    <3> SUFFICES ASSUME NEW x \in Version \ shared', NEW d1 \in Device, NEW d2 \in Device,
                        x \in held'[d1], x \in held'[d2]
                 PROVE  d1 = d2
      BY DEF OneHolder
    <3>1. x \notin shared BY <2>1
    <3>2. CASE x = w
      <4>1. x \in held[d] BY <2>1, <3>2
      <4> QED BY <2>2, <3>1, <4>1 DEF OneHolder
    <3>3. CASE x # w
      BY <2>2, <3>1, <3>3 DEF OneHolder
    <3> QED BY <3>2, <3>3
  <2>6. NoGoodTokens'
    BY <2>1, <2>2 DEF NoGoodTokens, Give
  <2> QED BY <2>4, <2>5, <2>6
<1>9. ASSUME NEW r \in Req, Expel(r) PROVE Fine
  BY <1>0, <1>9, <1>c, <1>e DEF Expel
<1>10. ASSUME NEW r \in Req, Disable(r) PROVE Fine
  BY <1>0, <1>10, <1>c, <1>e DEF Disable
<1>11. ASSUME NEW r \in Req, Disconnect(r) \/ DisconnectFails(r) PROVE Fine
  BY <1>0, <1>11, <1>d, <1>g, <1>h, TodoIsTyped
  DEF Disconnect, DisconnectFails, Gone, rowVars
<1>12. ASSUME NEW c \in Conn, Bind(c) \/ HangUp(c) PROVE Fine
  BY <1>12, <1>g, <1>h DEF Bind, HangUp, Gone, rowVars, historyVars
<1>13. ASSUME Enable \/ Restart PROVE Fine
  BY <1>13, <1>d, <1>g DEF Enable, Restart, rowVars, historyVars
<1> QED BY <1>1, <1>2, <1>3, <1>4, <1>5, <1>6, <1>7, <1>8, <1>9, <1>10, <1>11, <1>12, <1>13
        DEF Next, Begin, Proceed

-----------------------------------------------------------------------------
(* Connections of earlier sessions.                                        *)

\* a websocket that is gone leaves the others where they were
LEMMA GoneLeaves ==
  ASSUME TypeOK, NEW c \in Conn, Gone(c), req' = Without(c)
  PROVE  /\ \A b \in Bound' : b # c /\ b \in Bound /\ conn'[b] = conn[b]
         /\ \A b \in Closing \cup spared : b # c => b \in (Closing \cup spared)'
<1>1. \A b \in Bound' : b # c /\ b \in Bound /\ conn'[b] = conn[b]
  BY DEF TypeOK, Gone, Bound
<1>2. ASSUME NEW b, b \in Closing, b # c PROVE b \in Closing'
  <2>1. PICK r \in Req : b \in Todo(r) BY <1>2 DEF Closing
  <2>2. req[r] \in ReqState BY DEF TypeOK, ReqState
  <2>3. CASE c \notin Todo(r)
    <3>1. req'[r] = req[r] BY <2>3 DEF Without
    <3> QED BY <2>1, <3>1 DEF Closing, Todo
  <2>4. CASE c \in Todo(r) /\ req[r].st = "closing"
    <3>1. req'[r] = [st |-> "closing", todo |-> Todo(r) \ {c}]
      BY <1>2, <2>1, <2>4 DEF Without, Close
    <3>2. b \in Todo(r)' BY <1>2, <2>1, <3>1 DEF Todo
    <3> QED BY <3>2 DEF Closing
  <2>5. CASE c \in Todo(r) /\ req[r].st # "closing"
    <3>1. req[r].st = "replacing" BY <2>5 DEF Todo
    <3>2. req[r] \in [st : {"replacing"}, dev : Device, v : Version, todo : SUBSET Conn]
      BY <2>2, <3>1 DEF ReqState, Done
    <3>3. req'[r].st = "replacing" /\ req'[r].todo = req[r].todo \ {c}
      BY <2>5, <3>2 DEF Without
    <3>4. b \in Todo(r)' BY <1>2, <2>1, <3>1, <3>3 DEF Todo
    <3> QED BY <3>4 DEF Closing
  <2> QED BY <2>3, <2>4, <2>5
<1>3. \A b \in spared : b # c => b \in spared' BY DEF Gone
<1> QED BY <1>1, <1>2, <1>3

\* a request that is done leaves what the others are to close
LEMMA OthersClose ==
  ASSUME TypeOK, NEW r \in Req, NEW x, req' = [req EXCEPT ![r] = x]
  PROVE  /\ \A b \in Closing : b \in Todo(r) \/ b \in Closing'
         /\ \A S : x = Close(S) => S \subseteq Closing'
<1>1. req \in [Req -> ReqState] BY DEF TypeOK, ReqState
<1>2. ASSUME NEW b, b \in Closing PROVE b \in Todo(r) \/ b \in Closing'
  <2>1. PICK q \in Req : b \in Todo(q) BY <1>2 DEF Closing
  <2>2. CASE q = r BY <2>1, <2>2
  <2>3. CASE q # r
    <3>1. req'[q] = req[q] BY <1>1, <2>3
    <3>2. b \in Todo(q)' BY <2>1, <3>1 DEF Todo
    <3> QED BY <3>2 DEF Closing
  <2> QED BY <2>2, <2>3
<1>3. ASSUME NEW S, x = Close(S), NEW b \in S PROVE b \in Closing'
  <2>1. req'[r] = [st |-> "closing", todo |-> S] BY <1>1, <1>3 DEF Close
  <2>2. b \in Todo(r)' BY <2>1 DEF Todo
  <2> QED BY <2>2 DEF Closing
<1> QED BY <1>2, <1>3

\* what an action leaves of the two invariants about websockets
Settled == StaleAreClosing' /\ DisabledStaysOut'

LEMMA WebsocketStep ==
  ASSUME TypeOK, Origins, NoGoodTokens, StaleAreClosing, DisabledStaysOut, Next
  PROVE  Settled
<1>0. /\ conn \in [Conn -> Version \cup {0}] /\ req \in [Req -> ReqState]
      /\ spared \subseteq Conn
  BY DEF TypeOK, ReqState
\* the version moves and every bound websocket is spared or to be closed
<1>a. ASSUME UNCHANGED conn, Bound \subseteq (Closing \cup spared)' PROVE Settled
  BY <1>a DEF Settled, StaleAreClosing, DisabledStaysOut, Bound
\* the version stays and so do the websockets
<1>b. ASSUME UNCHANGED <<version, conn>>, Closing \cup spared \subseteq (Closing \cup spared)',
             disabled' => disabled, graced \cup shared \subseteq (graced \cup shared)'
      PROVE  Settled
  BY <1>b DEF Settled, StaleAreClosing, DisabledStaysOut, Bound
<1>c. ASSUME NEW d \in Device, NEW v, Grant(d, v), UNCHANGED conn PROVE Settled
  BY <1>a, <1>c DEF Grant
<1>d. ASSUME NEW r \in Req, req' = [req EXCEPT ![r] = Close(Bound)], UNCHANGED conn
      PROVE  Settled
  <2>1. Bound \subseteq Closing' BY <1>d, OthersClose
  <2> QED BY <1>a, <1>d, <2>1
<1>e. ASSUME NEW c \in Conn, Gone(c), req' = Without(c), UNCHANGED disabled PROVE Settled
  <2>1. UNCHANGED <<version, graced, shared>> BY <1>e DEF Gone, rowVars
  <2> QED BY <1>e, <2>1, GoneLeaves DEF Settled, StaleAreClosing, DisabledStaysOut
<1>f. ASSUME NEW r \in Req, Todo(r) = {}, NEW x, req' = [req EXCEPT ![r] = x]
      PROVE  Closing \subseteq Closing'
  BY <1>f, OthersClose
<1>1. ASSUME NEW d \in Device, Login(d) PROVE Settled
  BY <1>1, <1>c DEF Login
<1>2. ASSUME NEW r \in Req, NEW d \in Device,
             ForceLogin(r, d) \/ LogoutBegin(r, d) \/ ChangeBegin(r, d) \/ RefreshBegin(r, d)
      PROVE  Settled
  <2>1. Todo(r) = {} BY <1>2 DEF ForceLogin, LogoutBegin, ChangeBegin, RefreshBegin, Todo, Done
  <2>2. Closing \subseteq Closing'
    BY <1>2, <1>f, <2>1 DEF ForceLogin, LogoutBegin, ChangeBegin, RefreshBegin
  <2> QED BY <1>2, <1>b, <2>2
    DEF ForceLogin, LogoutBegin, ChangeBegin, RefreshBegin, rowVars, historyVars
<1>3. ASSUME NEW r \in Req, Replace(r) PROVE Settled
  <2>1. PICK d, v : Grant(d, v) BY <1>3 DEF Replace
  <2> QED BY <1>3, <1>a, <2>1 DEF Replace, Grant
<1>4. ASSUME NEW r \in Req, Logout(r) \/ Expel(r) \/ Disable(r) PROVE Settled
  BY <1>4, <1>d DEF Logout, Expel, Disable
<1>5. ASSUME NEW r \in Req, ChangePassword(r) PROVE Settled
  BY <1>5, <1>a DEF ChangePassword
<1>6. ASSUME NEW r \in Req, Refresh(r) PROVE Settled
  <2>1. Todo(r) = {} BY <1>6 DEF Refresh, Todo
  <2>2. Closing \subseteq Closing' BY <1>6, <1>f, <2>1 DEF Refresh
  <2> QED BY <1>6, <1>b, <2>2 DEF Refresh, Give, rowVars
<1>7. ASSUME NEW r \in Req, Disconnect(r) PROVE Settled
  BY <1>7, <1>e, TodoIsTyped DEF Disconnect, Gone, rowVars
<1>8. ASSUME NEW r \in Req, DisconnectFails(r) PROVE Settled
  <2>1. Closing \cup spared \subseteq (Closing \cup spared)'
    BY <1>8, OthersClose DEF DisconnectFails
  <2> QED BY <1>8, <1>b, <2>1 DEF DisconnectFails, rowVars
<1>9. ASSUME NEW c \in Conn, Bind(c) PROVE Settled
  <2>1. PICK d \in Device : version \in held[d] BY <1>9 DEF Bind
  <2>2. \A b \in Bound' : b = c \/ (b \in Bound /\ conn'[b] = conn[b])
    BY <1>0, <1>9 DEF Bind, Bound
  <2>3. UNCHANGED <<version, disabled, req, graced, shared, spared>> /\ conn'[c] = version
    BY <1>0, <1>9 DEF Bind, rowVars, historyVars
  <2>4. (Closing \cup spared)' = Closing \cup spared
    BY <2>3 DEF Closing, Todo
  <2>5. StaleAreClosing' BY <2>2, <2>3, <2>4 DEF StaleAreClosing
  <2>6. DisabledStaysOut'
    BY <2>1, <2>2, <2>3, <2>4 DEF DisabledStaysOut, NoGoodTokens
  <2> QED BY <2>5, <2>6 DEF Settled
<1>10. ASSUME NEW c \in Conn, HangUp(c) PROVE Settled
  BY <1>10, <1>e DEF HangUp, Gone, rowVars
<1>11. CASE Enable
  <2>1. Closing' = Closing BY <1>11 DEF Enable, Closing, Todo
  <2> QED BY <1>11, <1>b, <2>1 DEF Enable, historyVars
<1>12. CASE Restart
  <2>1. Bound' = {} BY <1>12 DEF Restart, Bound
  <2> QED BY <2>1 DEF Settled, StaleAreClosing, DisabledStaysOut
<1> QED BY <1>1, <1>2, <1>3, <1>4, <1>5, <1>6, <1>7, <1>8, <1>9, <1>10, <1>11, <1>12
        DEF Next, Begin, Proceed

-----------------------------------------------------------------------------
(* The invariant and the theorems.                                         *)

LEMMA InitInv == Init => IInv
<1> SUFFICES ASSUME Init PROVE IInv OBVIOUS
<1>0. 1 \in Version BY VersionBound DEF Version
<1>1. TypeOK BY <1>0 DEF Init, TypeOK, Done
<1>2. Bound = {} BY DEF Init, Bound
<1>3. Origins /\ OneHolder /\ NoGoodTokens
  BY DEF Init, Origins, OneHolder, NoGoodTokens, Done
<1> QED BY <1>1, <1>2, <1>3 DEF IInv, StaleAreClosing, DisabledStaysOut

LEMMA NextInv == IInv /\ [Next]_vars => IInv'
<1> SUFFICES ASSUME IInv, [Next]_vars PROVE IInv' OBVIOUS
<1>1. CASE Next
  BY <1>1, TypeStep, HoldersStep, WebsocketStep DEF IInv, Settled
<1>2. CASE UNCHANGED vars
  BY <1>2 DEF vars, rowVars, historyVars, IInv, TypeOK, Origins, OneHolder, NoGoodTokens,
              StaleAreClosing, DisabledStaysOut, Bound, Closing, Todo
<1> QED BY <1>1, <1>2

LEMMA Invariance == Spec => []IInv
<1> QED BY InitInv, NextInv, PTL DEF Spec

(* Versions, tokens, websockets and requests stay what the handlers take   *)
(* them for, whatever overlaps.                                            *)
THEOREM AuthTypes == Spec => []TypeOK
<1>1. IInv => TypeOK BY DEF IInv
<1> QED BY <1>1, Invariance, PTL

(* Of any number of devices at most one holds tokens of the current        *)
(* version, unless the version was written twice or given by a refresh     *)
(* that a login had overtaken (_build_auth_payload).                       *)
THEOREM OneDeviceAtATime == Spec => []OneLiveSession
<1>1. IInv => OneLiveSession
  <2> SUFFICES ASSUME IInv, version \notin shared PROVE OneLiveSession BY DEF OneLiveSession
  <2> DEFINE H == {d \in Device : version \in held[d]}
  <2>1. \A d, e \in H : d = e BY DEF IInv, OneHolder, TypeOK
  <2>2. CASE H = {} BY <2>2, FS_EmptySet DEF OneLiveSession
  <2>3. CASE H # {}
    <3>1. PICK d : d \in H BY <2>3
    <3>2. H = {d} BY <2>1, <3>1
    <3>3. Cardinality(H) = 1 BY <3>2, FS_Singleton
    <3> QED BY <3>3 DEF OneLiveSession
  <2> QED BY <2>2, <2>3
<1> QED BY <1>1, Invariance, PTL

(* Every websocket of an earlier session is about to be closed or was left *)
(* on purpose (disconnect_user_connections after each rotation).           *)
THEOREM EarlierSessionsEnd == Spec => []StaleAreClosing
<1>1. IInv => StaleAreClosing BY DEF IInv
<1> QED BY <1>1, Invariance, PTL

(* A disabled account is connected by the excuses only (disable_user).     *)
THEOREM DisabledAreOut == Spec => []DisabledStaysOut
<1>1. IInv => DisabledStaysOut BY DEF IInv
<1> QED BY <1>1, Invariance, PTL
=============================================================================
