------------------------ MODULE CallSignalingProofs ------------------------
(***************************************************************************)
(* Proofs about CallSignaling: its types, that the hub and the call        *)
(* registry stay consistent, that it implements CallSlots, that calls end  *)
(* with their users and that ends are announced, for any users,            *)
(* connections and calls and without the bounds TLC needs.                 *)
(*                                                                         *)
(* The hub and the registry are changed only through their operations, so  *)
(* the argument has two layers: each operation keeps the consistency of    *)
(* its own module, and each action of CallSignaling is operations of the   *)
(* two and steps that leave them alone.                                    *)
(***************************************************************************)
EXTENDS CallSignaling, TLAPS

HubInv == HubTypeOK /\ HubConsistent
RegInv == RegistryTypeOK /\ RegistryConsistent

-----------------------------------------------------------------------------
(* Operations of the hub.                                                  *)

\* connect, bind_user and _drop_connection keep the two dictionaries alike
LEMMA ConnectKeepsHub ==
  ASSUME HubInv, NEW c \in Conn, HubConnect(c)
  PROVE  HubInv'
BY DEF HubInv, HubTypeOK, HubConsistent, HubConnect

LEMMA BindKeepsHub ==
  ASSUME HubInv, NEW c \in conns, NEW u \in User, HubBind(c, u)
  PROVE  HubInv'
BY NoneIsNoId DEF HubInv, HubTypeOK, HubConsistent, HubBind

LEMMA DropKeepsHub ==
  ASSUME HubInv, NEW c \in Conn \cup {None}, HubDrop(c)
  PROVE  HubInv'
<1>1. HubTypeOK'
  BY DEF HubInv, HubTypeOK, HubDrop
<1>2. CASE c \in Conn
  BY <1>1, <1>2, NoneIsNoId DEF HubInv, HubTypeOK, HubConsistent, HubDrop
<1>3. CASE c = None
  <2>1. UNCHANGED hubVars
    BY <1>3, NoneIsNoId DEF HubInv, HubTypeOK, HubDrop, hubVars
  <2> QED BY <2>1 DEF HubInv, HubTypeOK, HubConsistent, hubVars
<1> QED BY <1>2, <1>3

LEMMA StutterKeepsHub == ASSUME HubInv, UNCHANGED hubVars PROVE HubInv'
BY DEF HubInv, HubTypeOK, HubConsistent, hubVars

-----------------------------------------------------------------------------
(* Operations of the registry.                                             *)

\* in a consistent registry get_for_user is the mapping itself ...
LEMMA LookupIsMapping ==
  ASSUME RegInv, NEW u \in User
  PROVE  GetForUser(u) = callOf[u]
BY NoneIsNoCall DEF RegInv, RegistryTypeOK, RegistryConsistent, GetForUser, Live

\* ... so that looking a user up removes nothing
LEMMA SweepIsIdle ==
  ASSUME RegInv, NEW S \in SUBSET User
  PROVE  Swept(S) = callOf
BY LookupIsMapping DEF RegInv, RegistryTypeOK, Swept

LEMMA CreateKeepsRegistry ==
  ASSUME RegInv, NEW id \in Call, NEW i \in User, NEW r \in User, i # r,
         ~Live(id), GetForUser(i) = None, GetForUser(r) = None,
         CreateCall(id, i, r)
  PROVE  RegInv'
<1>1. callOf[i] = None /\ callOf[r] = None
  BY LookupIsMapping
<1>2. RegistryTypeOK'
  BY DEF RegInv, RegistryTypeOK, CreateCall, ActiveStatuses
<1>3. RegistryConsistent'
  BY <1>1, NoneIsNoCall
  DEF RegInv, RegistryTypeOK, RegistryConsistent, CreateCall, Live, Parties,
      ActiveStatuses
<1> QED BY <1>2, <1>3 DEF RegInv

LEMMA RingKeepsRegistry ==
  ASSUME RegInv, NEW id \in Call, Live(id), MarkRinging(id)
  PROVE  RegInv'
BY DEF RegInv, RegistryTypeOK, RegistryConsistent, MarkRinging, Live, Parties,
       ActiveStatuses

LEMMA AcceptKeepsRegistry ==
  ASSUME RegInv, NEW id \in Call, Live(id), MarkAccepted(id)
  PROVE  RegInv'
BY DEF RegInv, RegistryTypeOK, RegistryConsistent, MarkAccepted, Live, Parties,
       ActiveStatuses

LEMMA EndKeepsRegistry ==
  ASSUME RegInv, NEW id \in Call, Live(id), EndCall(id)
  PROVE  RegInv'
<1>1. RegistryTypeOK'
  BY DEF RegInv, RegistryTypeOK, EndCall, NoCall
<1>2. RegistryConsistent'
  BY NoneIsNoCall
  DEF RegInv, RegistryTypeOK, RegistryConsistent, EndCall, Live, Parties,
      ActiveStatuses, NoCall
<1> QED BY <1>1, <1>2 DEF RegInv

LEMMA StutterKeepsRegistry ==
  ASSUME RegInv, UNCHANGED registryVars PROVE RegInv'
BY DEF RegInv, RegistryTypeOK, RegistryConsistent, registryVars, Live, Parties

LEMMA EndForOfflineKeepsRegistry ==
  ASSUME RegInv, NEW u \in User, EndForOfflineUser(u)
  PROVE  RegInv'
<1>1. CASE GetForUser(u) # None
  <2>1. GetForUser(u) \in Call /\ Live(GetForUser(u))
    BY <1>1 DEF GetForUser, Live
  <2> QED BY <1>1, <2>1, EndKeepsRegistry DEF EndForOfflineUser
<1>2. CASE GetForUser(u) = None
  BY <1>2, SweepIsIdle, StutterKeepsRegistry DEF EndForOfflineUser, registryVars
<1> QED BY <1>1, <1>2
-----------------------------------------------------------------------------
(* The rest of the state: types only.                                      *)

KickStages == {"idle", "closing", "closed", "notify", "done", "failed"}

RestTypeOK ==
  /\ link \in [Conn -> {"up", "gone", "shut"}]
  /\ pc \in [Conn -> {"none", "recv", "send", "final", "bye", "done"}]
  /\ who \in [Conn -> User \cup {None}]
  /\ out \in [Proc -> Fan]
  /\ kick \in [User -> KickStages]
  /\ kickCur \in [User -> Conn \cup {None}]
  /\ kicking \in [User -> SUBSET Conn]
  /\ blocks \in SUBSET (User \X User)
  /\ ringing \in [Conn -> SUBSET Call]
  /\ late \in [Conn -> SUBSET Call]
  /\ swallowed \in SUBSET User

IInv == HubInv /\ RegInv /\ RestTypeOK

LEMMA TypeOKSplits == IInv <=> TypeOK /\ HubConsistent /\ RegistryConsistent
BY DEF IInv, HubInv, RegInv, RestTypeOK, TypeOK, KickStages

\* the two users of a live call are users
LEMMA PartySeqType ==
  ASSUME IInv, NEW id \in Call, Live(id)
  PROVE  PartySeq(id) \in Seq(User)
BY DEF IInv, RegInv, RegistryTypeOK, RegistryConsistent, Parties, PartySeq

LEMMA QuietType == Quiet \in Fan
<1>1. <<>> \in Seq(User)
  OBVIOUS
<1> QED BY <1>1 DEF Quiet, Fan, Events

LEMMA SingletonFanType ==
  ASSUME NEW u \in User, NEW id \in Call \cup {None}
  PROVE  ToUsers("note", id, <<u>>) \in Fan
<1>1. <<u>> \in Seq(User)
  OBVIOUS
<1> QED BY <1>1 DEF ToUsers, Fan, Events

LEMMA HangupType ==
  ASSUME IInv, NEW u \in User
  PROVE  HangupFor(u) \in Fan
<1>1. CASE GetForUser(u) = None
  BY <1>1, QuietType DEF HangupFor
<1>2. CASE GetForUser(u) # None
  <2>1. GetForUser(u) \in Call /\ Live(GetForUser(u))
    BY <1>2 DEF GetForUser, Live
  <2>2. PartySeq(GetForUser(u)) \in Seq(User)
    BY <2>1, PartySeqType
  <2>3. ToUsers("over", GetForUser(u), PartySeq(GetForUser(u))) \in Fan
    BY <2>1, <2>2 DEF ToUsers, Fan, Events
  <2> QED BY <1>2, <2>3 DEF HangupFor
<1> QED BY <1>1, <1>2

\* what SendsLeft leaves has its type, given what is left of the fan-out
LEMMA SendsLeftTypes ==
  ASSUME IInv, NEW p \in Proc, NEW to \in SUBSET Conn, NEW us \in Seq(User),
         SendsLeft(p, to, us)
  PROVE  /\ out' \in [Proc -> Fan]
         /\ pc' \in [Conn -> {"none", "recv", "send", "final", "bye", "done"}]
         /\ kick' \in [User -> KickStages]
<1>1. CASE to = {} /\ us = <<>>
  <2>1. out' = [out EXCEPT ![p] = Quiet]
    BY <1>1 DEF SendsLeft
  <2>2. out' \in [Proc -> Fan]
    BY <2>1, QuietType DEF IInv, RestTypeOK
  <2>3. pc' \in [Conn -> {"none", "recv", "send", "final", "bye", "done"}]
    BY <1>1 DEF SendsLeft, IInv, RestTypeOK
  <2>4. kick' \in [User -> KickStages]
    BY <1>1 DEF SendsLeft, IInv, RestTypeOK, KickStages
  <2> QED BY <2>2, <2>3, <2>4
<1>2. CASE ~(to = {} /\ us = <<>>)
  <2>1. /\ out' = [out EXCEPT ![p] = [ev |-> @.ev, call |-> @.call,
                                    users |-> us, to |-> to]]
        /\ UNCHANGED <<pc, kick>>
    BY <1>2 DEF SendsLeft
  <2>2. [ev |-> out[p].ev, call |-> out[p].call, users |-> us, to |-> to] \in Fan
    BY DEF IInv, RestTypeOK, Fan
  <2>3. out' \in [Proc -> Fan]
    BY <2>1, <2>2 DEF IInv, RestTypeOK
  <2> QED BY <2>1, <2>3 DEF IInv, RestTypeOK
<1> QED BY <1>1, <1>2

LEMMA TargetTypes ==
  ASSUME IInv, NEW p \in Proc, out[p].to # {} \/ out[p].users # <<>>
  PROVE  Targets(p) \in SUBSET Conn /\ Waiting(p) \in Seq(User)
<1>1. out[p].to \in SUBSET Conn /\ out[p].users \in Seq(User)
  BY DEF IInv, RestTypeOK, Fan
<1>2. CASE out[p].to # {}
  BY <1>1, <1>2 DEF Targets, Waiting
<1>3. CASE out[p].to = {}
  <2>1. Head(out[p].users) \in User /\ Tail(out[p].users) \in Seq(User)
    BY <1>1, <1>3
  <2> QED BY <1>3, <2>1 DEF Targets, Waiting, IInv, HubInv, HubTypeOK
<1> QED BY <1>2, <1>3
-----------------------------------------------------------------------------
(* Every action keeps the invariant.                                       *)

LEMMA InitInv == Init => IInv
<1> SUFFICES ASSUME Init PROVE IInv
  OBVIOUS
<1>1. HubInv
  BY NoneIsNoId DEF Init, HubInit, HubInv, HubTypeOK, HubConsistent
<1>2. RegInv
  BY NoneIsNoCall
  DEF Init, RegistryInit, RegInv, RegistryTypeOK, RegistryConsistent, NoCall,
      Live, ActiveStatuses
<1>3. RestTypeOK
  BY QuietType DEF Init, RestTypeOK, KickStages
<1> QED BY <1>1, <1>2, <1>3 DEF IInv

LEMMA DeliverInv ==
  ASSUME IInv, NEW p \in Proc, NEW d \in Conn, Deliver(p, d) PROVE IInv'
<1>1. HubInv' /\ RegInv'
  BY StutterKeepsHub, StutterKeepsRegistry DEF Deliver, IInv
<1>2. Targets(p) \in SUBSET Conn /\ Waiting(p) \in Seq(User)
  BY TargetTypes DEF Deliver, Targets
<1>3. /\ out' \in [Proc -> Fan]
      /\ pc' \in [Conn -> {"none", "recv", "send", "final", "bye", "done"}]
      /\ kick' \in [User -> KickStages]
  <2> DEFINE to == IF out[p].ev = "invite" THEN {} ELSE Targets(p) \ {d}
  <2>1. to \in SUBSET Conn
    BY <1>2
  <2>2. SendsLeft(p, to, Waiting(p))
    BY DEF Deliver
  <2> HIDE DEF to
  <2> QED BY <2>1, <2>2, <1>2, SendsLeftTypes
<1>4. ringing' \in [Conn -> SUBSET Call] /\ late' \in [Conn -> SUBSET Call]
  <2>1. out[p].ev = "invite" => out[p].call \in Call
    BY DEF IInv, RestTypeOK, Fan
  <2>2. PICK R \in {ringing[d], ringing[d] \cup {out[p].call}, ringing[d] \ {out[p].call}} :
          /\ ringing' = [ringing EXCEPT ![d] = R]
          /\ R = ringing[d] \cup {out[p].call} => out[p].ev = "invite" \/ R = ringing[d]
    BY DEF Deliver
  <2>3. PICK L \in {late[d], late[d] \cup {out[p].call}, late[d] \ {out[p].call}} :
          /\ late' = [late EXCEPT ![d] = L]
          /\ L = late[d] \cup {out[p].call} => out[p].ev = "invite" \/ L = late[d]
    BY DEF Deliver
  <2>4. ringing[d] \in SUBSET Call /\ late[d] \in SUBSET Call
    BY DEF IInv, RestTypeOK
  <2>5. R \in SUBSET Call /\ L \in SUBSET Call
    BY <2>1, <2>2, <2>3, <2>4
  <2> QED BY <2>2, <2>3, <2>5 DEF IInv, RestTypeOK
<1>5. RestTypeOK'
  BY <1>3, <1>4 DEF Deliver, IInv, RestTypeOK
<1> QED BY <1>1, <1>5 DEF IInv

LEMMA SendFailsInv ==
  ASSUME IInv, NEW p \in Proc, NEW d \in Conn, SendFails(p, d) PROVE IInv'
<1>1. HubInv' /\ RegInv'
  BY DropKeepsHub, StutterKeepsRegistry DEF SendFails, IInv
<1>2. Targets(p) \in SUBSET Conn /\ Waiting(p) \in Seq(User)
  BY TargetTypes DEF SendFails, Targets
<1>3. /\ out' \in [Proc -> Fan]
      /\ pc' \in [Conn -> {"none", "recv", "send", "final", "bye", "done"}]
      /\ kick' \in [User -> KickStages]
  BY <1>2, SendsLeftTypes DEF SendFails
<1>4. swallowed' \in SUBSET User
  BY DEF SendFails, BecomesOffline, IInv, RestTypeOK, HubInv, HubTypeOK
<1>5. RestTypeOK'
  BY <1>3, <1>4 DEF SendFails, ForgetCalls, IInv, RestTypeOK
<1> QED BY <1>1, <1>5 DEF IInv

LEMMA PassByInv ==
  ASSUME IInv, NEW p \in Proc, PassBy(p) PROVE IInv'
<1>1. HubInv' /\ RegInv'
  BY StutterKeepsHub, StutterKeepsRegistry DEF PassBy, IInv
<1>2. Targets(p) \in SUBSET Conn /\ Waiting(p) \in Seq(User)
  BY TargetTypes DEF PassBy, Targets
<1>3. /\ out' \in [Proc -> Fan]
      /\ pc' \in [Conn -> {"none", "recv", "send", "final", "bye", "done"}]
      /\ kick' \in [User -> KickStages]
  <2>1. PICK to \in SUBSET Conn : SendsLeft(p, to, Waiting(p))
    BY <1>2 DEF PassBy
  <2> QED BY <2>1, <1>2, SendsLeftTypes
<1>4. RestTypeOK'
  BY <1>3 DEF PassBy, IInv, RestTypeOK, historyVars
<1> QED BY <1>1, <1>4 DEF IInv

\* what a request leaves in the handler has its type
LEMMA ReplyTypes ==
  ASSUME IInv, NEW c \in Conn, NEW fan \in Fan, Reply(c, fan)
  PROVE  /\ link' \in [Conn -> {"up", "gone", "shut"}]
         /\ pc' \in [Conn -> {"none", "recv", "send", "final", "bye", "done"}]
         /\ who' \in [Conn -> User \cup {None}]
         /\ out' \in [Proc -> Fan]
BY DEF Reply, IInv, RestTypeOK, Proc

LEMMA OpenInv ==
  ASSUME IInv, NEW c \in Conn, Open(c) PROVE IInv'
<1>1. HubInv' /\ RegInv'
  BY ConnectKeepsHub, StutterKeepsRegistry DEF Open, IInv
<1>2. RestTypeOK'
  BY DEF Open, IInv, RestTypeOK, kickVars, historyVars
<1> QED BY <1>1, <1>2 DEF IInv

LEMMA AuthInv ==
  ASSUME IInv, NEW c \in Conn, NEW u \in User, Auth(c, u) PROVE IInv'
<1>1. HubInv' /\ RegInv'
  BY BindKeepsHub, StutterKeepsRegistry DEF Auth, Receiving, IInv
<1>2. ToSelf(c) \in Fan
  <2>1. <<>> \in Seq(User)
    OBVIOUS
  <2> QED BY <2>1 DEF ToSelf, ToSelfThen, Fan, Events
<1>3. RestTypeOK'
  BY <1>2 DEF Auth, IInv, RestTypeOK, kickVars, Proc
<1> QED BY <1>1, <1>3 DEF IInv

LEMMA AuthRejectedInv ==
  ASSUME IInv, NEW c \in Conn, AuthRejected(c) PROVE IInv'
<1>1. HubInv' /\ RegInv'
  BY StutterKeepsHub, StutterKeepsRegistry DEF AuthRejected, IInv
<1>2. RestTypeOK'
  BY DEF AuthRejected, IInv, RestTypeOK, kickVars, historyVars
<1> QED BY <1>1, <1>2 DEF IInv

LEMMA PeerLeavesInv ==
  ASSUME IInv, NEW c \in Conn, PeerLeaves(c) PROVE IInv'
<1>1. HubInv' /\ RegInv'
  BY StutterKeepsHub, StutterKeepsRegistry DEF PeerLeaves, IInv
<1>2. RestTypeOK'
  BY DEF PeerLeaves, IInv, RestTypeOK, kickVars, historyVars
<1> QED BY <1>1, <1>2 DEF IInv

LEMMA FinalizeInv ==
  ASSUME IInv, NEW c \in Conn, Finalize(c) PROVE IInv'
<1>1. HubInv'
  BY DropKeepsHub DEF Finalize, IInv
<1>2. CASE BecomesOffline(c)
  <2>1. userOf[c] \in User
    BY <1>2 DEF BecomesOffline, IInv, HubInv, HubTypeOK
  <2>2. RegInv'
    BY <1>2, <2>1, EndForOfflineKeepsRegistry DEF Finalize, IInv
  <2>3. RestTypeOK'
    BY <1>2, <2>1, HangupType
    DEF Finalize, ForgetCalls, IInv, RestTypeOK, kickVars, Proc
  <2> QED BY <1>1, <2>2, <2>3 DEF IInv
<1>3. CASE ~BecomesOffline(c)
  <2>1. RegInv'
    BY <1>3, StutterKeepsRegistry DEF Finalize, IInv
  <2>2. RestTypeOK'
    BY <1>3 DEF Finalize, ForgetCalls, IInv, RestTypeOK, kickVars
  <2> QED BY <1>1, <2>1, <2>2 DEF IInv
<1> QED BY <1>2, <1>3

\* the loop of a forced logout, over connections and with a hangup to send
LEMMA KickNextInv ==
  ASSUME IInv, NEW u \in User, NEW left \in SUBSET Conn, NEW fan \in Fan,
         KickNext(u, left, fan)
  PROVE  /\ RegInv'
         /\ out' \in [Proc -> Fan]
         /\ kick' \in [User -> KickStages]
         /\ kickCur' \in [User -> Conn \cup {None}]
         /\ kicking' \in [User -> SUBSET Conn]
<1>1. CASE left # {} /\ UNCHANGED <<registryVars, out>>
           /\ \E d \in left :
                /\ kickCur' = [kickCur EXCEPT ![u] = d]
                /\ kicking' = [kicking EXCEPT ![u] = left \ {d}]
                /\ kick' = [kick EXCEPT ![u] = "closing"]
  BY <1>1, StutterKeepsRegistry DEF IInv, RestTypeOK, KickStages
<1>2. CASE left = {} /\ EndForOfflineUser(u)
           /\ kickCur' = [kickCur EXCEPT ![u] = None]
           /\ kicking' = [kicking EXCEPT ![u] = {}]
           /\ kick' = [kick EXCEPT ![u] = IF fan = Quiet THEN "done" ELSE "notify"]
           /\ out' = [out EXCEPT ![u] = fan]
  BY <1>2, EndForOfflineKeepsRegistry DEF IInv, RestTypeOK, Proc, KickStages
<1> QED BY <1>1, <1>2 DEF KickNext

LEMMA KickInv ==
  ASSUME IInv, NEW u \in User,
         KickStart(u) \/ KickClose(u) \/ KickDrop(u) \/ KickFails(u)
  PROVE  IInv'
<1>1. CASE KickStart(u)
  <2>1. byUser[u] \in SUBSET Conn /\ HangupFor(u) \in Fan
    BY HangupType DEF IInv, HubInv, HubTypeOK
  <2>2. KickNext(u, byUser[u], HangupFor(u))
    BY <1>1 DEF KickStart
  <2>3. HubInv'
    BY <1>1, StutterKeepsHub DEF KickStart, IInv
  <2> QED BY <1>1, <2>1, <2>2, <2>3, KickNextInv
          DEF KickStart, IInv, RestTypeOK, historyVars
<1>2. CASE KickClose(u)
  <2>1. HubInv' /\ RegInv'
    BY <1>2, StutterKeepsHub, StutterKeepsRegistry DEF KickClose, IInv
  <2>2. RestTypeOK'
    BY <1>2 DEF KickClose, IInv, RestTypeOK, historyVars, KickStages
  <2> QED BY <2>1, <2>2 DEF IInv
<1>3. CASE KickDrop(u)
  <2>1. kicking[u] \cap conns \in SUBSET Conn /\ HangupFor(u) \in Fan
    BY HangupType DEF IInv, RestTypeOK
  <2>2. KickNext(u, kicking[u] \cap conns, HangupFor(u))
    BY <1>3 DEF KickDrop
  <2>3. HubInv'
    BY <1>3, DropKeepsHub DEF KickDrop, IInv, RestTypeOK
  <2> QED BY <1>3, <2>1, <2>2, <2>3, KickNextInv
          DEF KickDrop, ForgetCalls, IInv, RestTypeOK
<1>4. CASE KickFails(u)
  <2>1. HubInv' /\ RegInv'
    BY <1>4, StutterKeepsHub, StutterKeepsRegistry DEF KickFails, IInv
  <2>2. RestTypeOK'
    BY <1>4 DEF KickFails, IInv, RestTypeOK, handlerVars, historyVars, KickStages
  <2> QED BY <2>1, <2>2 DEF IInv
<1> QED BY <1>1, <1>2, <1>3, <1>4

-----------------------------------------------------------------------------

LEMMA BlockInv ==
  ASSUME IInv, NEW u \in User, NEW v \in User, Block(u, v) \/ Unblock(u, v)
  PROVE  IInv'
<1>1. HubInv' /\ RegInv'
  BY StutterKeepsHub, StutterKeepsRegistry DEF Block, Unblock, IInv
<1>2. RestTypeOK'
  BY DEF Block, Unblock, IInv, RestTypeOK, handlerVars, kickVars, historyVars
<1> QED BY <1>1, <1>2 DEF IInv

\* a request that begins, changes or ends a call, and its answer
LEMMA RequestInv ==
  ASSUME IInv, RegInv', NEW c \in Conn, NEW fan \in Fan, Reply(c, fan),
         UNCHANGED <<hubVars, kickVars, blocks, historyVars>>
  PROVE  IInv'
<1>1. HubInv'
  BY StutterKeepsHub DEF IInv
<1>2. RestTypeOK'
  BY ReplyTypes DEF IInv, RestTypeOK, kickVars, historyVars
<1> QED BY <1>1, <1>2 DEF IInv

LEMMA InviteInv ==
  ASSUME IInv, NEW c \in Conn, NEW u \in User, NEW r \in User, NEW id \in Call,
         Invite(c, u, r, id)
  PROVE  IInv'
<1>1. RegInv'
  BY CreateKeepsRegistry DEF Invite, IInv
<1>2. InviteTo(c, id, r) \in Fan
  BY DEF InviteTo, Fan, Events
<1> QED BY <1>1, <1>2, RequestInv DEF Invite

LEMMA BusyInv ==
  ASSUME IInv, NEW c \in Conn, NEW u \in User, NEW r \in User, Busy(c, u, r)
  PROVE  IInv'
<1>1. RegInv'
  BY SweepIsIdle, StutterKeepsRegistry DEF Busy, registryVars, IInv
<1>2. ToUsers("note", None, <<u>>) \in Fan
  BY SingletonFanType
<1> QED BY <1>1, <1>2, RequestInv DEF Busy

\* the requests about a call that is live
LEMMA OngoingInv ==
  ASSUME IInv, NEW c \in Conn, NEW u \in User, NEW id \in Call,
         \/ Ringing(c, u, id) \/ Accept(c, u, id)
         \/ Reject(c, u, id) \/ Hangup(c, u, id) \/ Relay(c, u, id)
  PROVE  IInv'
<1>1. RegInv /\ Live(id)
  BY DEF IInv, Ringing, Accept, Reject, Hangup, Relay, Participant
<1>2. /\ PartySeq(id) \in Seq(User)
      /\ ToUsers("note", id, PartySeq(id)) \in Fan
      /\ ToUsers("note", id, <<u>>) \in Fan
      /\ ToUsers("over", id, PartySeq(id)) \in Fan
  <2>1. PartySeq(id) \in Seq(User)
    BY <1>1, PartySeqType
  <2>2. /\ ToUsers("note", id, PartySeq(id)) \in Fan
        /\ ToUsers("over", id, PartySeq(id)) \in Fan
    BY <2>1 DEF ToUsers, Fan, Events
  <2> QED BY <2>1, <2>2, SingletonFanType
<1>3. CASE Ringing(c, u, id)
  <2>1. RegInv'
    BY <1>3, <1>1, RingKeepsRegistry DEF Ringing
  <2>2. PICK us \in {<<u>>, PartySeq(id)} : Reply(c, ToUsers("note", id, us))
    BY <1>3 DEF Ringing
  <2>3. ToUsers("note", id, us) \in Fan
    BY <1>2
  <2> QED BY <1>3, <2>1, <2>2, <2>3, RequestInv DEF Ringing
<1>4. CASE Accept(c, u, id)
  <2>1. RegInv'
    BY <1>4, <1>1, AcceptKeepsRegistry DEF Accept
  <2> QED BY <1>4, <1>2, <2>1, RequestInv DEF Accept
<1>5. CASE Reject(c, u, id) \/ Hangup(c, u, id)
  <2>1. RegInv'
    BY <1>5, <1>1, EndKeepsRegistry DEF Reject, Hangup
  <2> QED BY <1>5, <1>2, <2>1, RequestInv DEF Reject, Hangup
<1>6. CASE Relay(c, u, id)
  <2>1. RegInv'
    BY <1>6, <1>1, StutterKeepsRegistry DEF Relay
  <2> QED BY <1>6, <1>2, <2>1, RequestInv DEF Relay
<1> QED BY <1>3, <1>4, <1>5, <1>6

LEMMA OtherInv ==
  ASSUME IInv, NEW c \in Conn, NEW u \in User, NEW v \in User,
         \/ OtherTraffic(c, IF who[c] = None THEN <<>> ELSE <<u>>)
         \/ MutualBlockRaises(c, u, v)
  PROVE  IInv'
<1>1. CASE OtherTraffic(c, IF who[c] = None THEN <<>> ELSE <<u>>)
  <2> DEFINE us == IF who[c] = None THEN <<>> ELSE <<u>>
  <2>1. us \in Seq(User)
    OBVIOUS
  <2>2. RegInv'
    BY <1>1, StutterKeepsRegistry DEF OtherTraffic, IInv
  <2>3. Reply(c, ToSelfThen(c, us))
    BY <1>1 DEF OtherTraffic
  <2> HIDE DEF us
  <2>4. ToSelfThen(c, us) \in Fan
    BY <2>1 DEF ToSelfThen, Fan, Events
  <2> QED BY <1>1, <2>2, <2>3, <2>4, RequestInv DEF OtherTraffic
<1>2. CASE MutualBlockRaises(c, u, v)
  <2>1. HubInv' /\ RegInv'
    BY <1>2, StutterKeepsHub, StutterKeepsRegistry DEF MutualBlockRaises, IInv
  <2>2. RestTypeOK'
    BY <1>2 DEF MutualBlockRaises, Crash, IInv, RestTypeOK, kickVars, historyVars
  <2> QED BY <2>1, <2>2 DEF IInv
<1> QED BY <1>1, <1>2

LEMMA NextInv == ASSUME IInv, Next PROVE IInv'
<1>1. CASE SendStep
  BY <1>1, DeliverInv, SendFailsInv, PassByInv DEF SendStep
<1>2. CASE ConnStep
  <2>1. PICK c \in Conn :
          \/ Open(c) \/ AuthRejected(c) \/ PeerLeaves(c) \/ Finalize(c)
          \/ \E u \in User : Auth(c, u)
    BY <1>2 DEF ConnStep
  <2>2. CASE Finalize(c)
    BY <2>2, FinalizeInv
  <2>3. CASE Open(c)
    BY <2>3, OpenInv
  <2>4. CASE AuthRejected(c)
    BY <2>4, AuthRejectedInv
  <2>5. CASE PeerLeaves(c)
    BY <2>5, PeerLeavesInv
  <2>6. CASE \E u \in User : Auth(c, u)
    BY <2>6, AuthInv
  <2> QED BY <2>1, <2>2, <2>3, <2>4, <2>5, <2>6
<1>3. CASE KickStep
  BY <1>3, KickInv DEF KickStep
<1>4. CASE BlockStep
  BY <1>4, BlockInv DEF BlockStep
<1>5. CASE CallStep
  <2>1. PICK c \in Conn, u \in User :
          \/ \E r \in User, id \in Call : Invite(c, u, r, id)
          \/ \E r \in User : Busy(c, u, r) \/ MutualBlockRaises(c, u, r)
          \/ \E id \in Call : \/ Ringing(c, u, id) \/ Accept(c, u, id)
                              \/ Reject(c, u, id) \/ Hangup(c, u, id)
                              \/ Relay(c, u, id)
    BY <1>5 DEF CallStep
  <2> QED BY <2>1, InviteInv, BusyInv, OngoingInv, OtherInv
<1>6. CASE TrafficStep
  BY <1>6, OtherInv DEF TrafficStep
<1> QED BY <1>1, <1>2, <1>3, <1>4, <1>5, <1>6 DEF Next

LEMMA StutterInv == ASSUME IInv, UNCHANGED vars PROVE IInv'
<1>1. HubInv' /\ RegInv'
  BY StutterKeepsHub, StutterKeepsRegistry DEF vars, IInv
<1>2. RestTypeOK'
  BY DEF vars, handlerVars, kickVars, historyVars, IInv, RestTypeOK
<1> QED BY <1>1, <1>2 DEF IInv

-----------------------------------------------------------------------------
(* The theorems.                                                           *)

\* the inductive invariant holds in every reachable state
THEOREM Invariance == Spec => []IInv
<1>1. IInv /\ [Next]_vars => IInv'
  BY NextInv, StutterInv
<1> QED BY <1>1, InitInv, PTL DEF Spec

\* the variables keep their types
THEOREM TypeCorrect == Spec => []TypeOK
<1>1. IInv => TypeOK
  BY TypeOKSplits
<1> QED BY <1>1, Invariance, PTL

\* the two dictionaries of the hub describe one relation: presence, fan-out
\* and disconnect agree on who is connected
THEOREM HubStaysConsistent == Spec => []HubConsistent
<1>1. IInv => HubConsistent
  BY TypeOKSplits
<1> QED BY <1>1, Invariance, PTL

\* one active call per user: no drift between the calls and the mapping
THEOREM RegistryStaysConsistent == Spec => []RegistryConsistent
<1>1. IInv => RegistryConsistent
  BY TypeOKSplits
<1> QED BY <1>1, Invariance, PTL

-----------------------------------------------------------------------------
(* Refinement of CallSlots.  Each operation of the registry is one step of *)
(* the slots, or none; every other step leaves the registry alone.         *)

SlotStep == [Slots!SlotNext]_<<Phase, callOf>>

LEMMA StutterIsSlotStep == ASSUME UNCHANGED registryVars PROVE SlotStep
BY DEF registryVars, SlotStep, Phase

LEMMA CreateIsSlotStep ==
  ASSUME RegInv, NEW id \in Call, NEW i \in User, NEW r \in User, i # r,
         ~Live(id), GetForUser(i) = None, GetForUser(r) = None,
         CreateCall(id, i, r)
  PROVE  SlotStep
<1>1. callOf[i] = None /\ callOf[r] = None
  BY LookupIsMapping
<1>2. Phase[id] = "free"
  BY DEF Phase, Live, RegInv, RegistryTypeOK, ActiveStatuses
<1>3. Phase' = [Phase EXCEPT ![id] = "offered"]
  BY DEF Phase, CreateCall, RegInv, RegistryTypeOK
<1>4. callOf' = [callOf EXCEPT ![i] = id, ![r] = id]
  BY DEF CreateCall, RegInv, RegistryTypeOK
<1>5. Slots!Offer(id, i, r)
  BY <1>1, <1>2, <1>3, <1>4 DEF Slots!Offer
<1> QED BY <1>5 DEF SlotStep, Slots!SlotNext

LEMMA RingIsSlotStep ==
  ASSUME RegInv, NEW id \in Call, MarkRinging(id)
  PROVE  SlotStep
<1>1. Phase' = Phase
  BY DEF Phase, MarkRinging, RegInv, RegistryTypeOK
<1> QED BY <1>1 DEF SlotStep, MarkRinging

LEMMA AcceptIsSlotStep ==
  ASSUME RegInv, NEW id \in Call, MarkAccepted(id),
         calls[id].status \in {"invited", "ringing"}
  PROVE  SlotStep
<1>1. Phase[id] = "offered" /\ Phase' = [Phase EXCEPT ![id] = "answered"]
  BY DEF Phase, MarkAccepted, RegInv, RegistryTypeOK
<1>2. Slots!Answer(id)
  BY <1>1 DEF Slots!Answer, MarkAccepted
<1> QED BY <1>2 DEF SlotStep, Slots!SlotNext

LEMMA EndIsSlotStep ==
  ASSUME RegInv, NEW id \in Call, Live(id), EndCall(id)
  PROVE  SlotStep
<1>1. Phase[id] # "free" /\ Phase' = [Phase EXCEPT ![id] = "free"]
  BY DEF Phase, EndCall, Live, ActiveStatuses, NoCall, RegInv, RegistryTypeOK
<1>2. callOf' = [u \in User |-> IF callOf[u] = id THEN None ELSE callOf[u]]
  BY DEF EndCall, RegInv, RegistryTypeOK, RegistryConsistent
<1>3. Slots!End(id)
  BY <1>1, <1>2 DEF Slots!End
<1> QED BY <1>3 DEF SlotStep, Slots!SlotNext

LEMMA EndForOfflineIsSlotStep ==
  ASSUME RegInv, NEW u \in User, EndForOfflineUser(u)
  PROVE  SlotStep
<1>1. CASE GetForUser(u) # None
  <2>1. GetForUser(u) \in Call /\ Live(GetForUser(u))
    BY <1>1 DEF GetForUser, Live
  <2> QED BY <1>1, <2>1, EndIsSlotStep DEF EndForOfflineUser
<1>2. CASE GetForUser(u) = None
  BY <1>2, SweepIsIdle, StutterIsSlotStep DEF EndForOfflineUser, registryVars
<1> QED BY <1>1, <1>2

LEMMA NextIsSlotStep == ASSUME IInv, Next PROVE SlotStep
<1>0. RegInv
  BY DEF IInv
<1>1. CASE SendStep
  BY <1>1, StutterIsSlotStep DEF SendStep, Deliver, SendFails, PassBy
<1>2. CASE ConnStep
  <2>1. PICK c \in Conn :
          \/ Open(c) \/ AuthRejected(c) \/ PeerLeaves(c) \/ Finalize(c)
          \/ \E u \in User : Auth(c, u)
    BY <1>2 DEF ConnStep
  <2>2. CASE Finalize(c)
    <3>1. CASE BecomesOffline(c)
      <4>1. userOf[c] \in User
        BY <3>1 DEF BecomesOffline, IInv, HubInv, HubTypeOK
      <4> QED BY <2>2, <3>1, <4>1, <1>0, EndForOfflineIsSlotStep DEF Finalize
    <3>2. CASE ~BecomesOffline(c)
      BY <2>2, <3>2, StutterIsSlotStep DEF Finalize
    <3> QED BY <3>1, <3>2
  <2>3. CASE Open(c) \/ AuthRejected(c) \/ PeerLeaves(c)
    BY <2>3, StutterIsSlotStep DEF Open, AuthRejected, PeerLeaves
  <2>4. CASE \E u \in User : Auth(c, u)
    BY <2>4, StutterIsSlotStep DEF Auth
  <2> QED BY <2>1, <2>2, <2>3, <2>4
<1>3. CASE KickStep
  <2>1. PICK u \in User :
          KickStart(u) \/ KickClose(u) \/ KickDrop(u) \/ KickFails(u)
    BY <1>3 DEF KickStep
  <2>2. UNCHANGED registryVars \/ EndForOfflineUser(u)
    BY <2>1 DEF KickStart, KickClose, KickDrop, KickFails, KickNext
  <2> QED BY <2>2, <1>0, EndForOfflineIsSlotStep, StutterIsSlotStep
<1>4. CASE BlockStep
  BY <1>4, StutterIsSlotStep DEF BlockStep, Block, Unblock
<1>5. CASE CallStep
  <2>1. PICK c \in Conn, u \in User :
          \/ \E r \in User, id \in Call : Invite(c, u, r, id)
          \/ \E r \in User : Busy(c, u, r) \/ MutualBlockRaises(c, u, r)
          \/ \E id \in Call : \/ Ringing(c, u, id) \/ Accept(c, u, id)
                              \/ Reject(c, u, id) \/ Hangup(c, u, id)
                              \/ Relay(c, u, id)
    BY <1>5 DEF CallStep
  <2>2. CASE \E r \in User, id \in Call : Invite(c, u, r, id)
    BY <2>2, <1>0, CreateIsSlotStep DEF Invite
  <2>3. CASE \E r \in User : Busy(c, u, r) \/ MutualBlockRaises(c, u, r)
    BY <2>3, <1>0, SweepIsIdle, StutterIsSlotStep
    DEF Busy, MutualBlockRaises, registryVars
  <2>4. CASE \E id \in Call : Ringing(c, u, id)
    BY <2>4, <1>0, RingIsSlotStep DEF Ringing
  <2>5. CASE \E id \in Call : Accept(c, u, id)
    BY <2>5, <1>0, AcceptIsSlotStep DEF Accept
  <2>6. CASE \E id \in Call : Reject(c, u, id) \/ Hangup(c, u, id)
    BY <2>6, <1>0, EndIsSlotStep DEF Reject, Hangup, Participant
  <2>7. CASE \E id \in Call : Relay(c, u, id)
    BY <2>7, StutterIsSlotStep DEF Relay
  <2> QED BY <2>1, <2>2, <2>3, <2>4, <2>5, <2>6, <2>7
<1>6. CASE TrafficStep
  BY <1>6, StutterIsSlotStep DEF TrafficStep, OtherTraffic
<1> QED BY <1>1, <1>2, <1>3, <1>4, <1>5, <1>6 DEF Next

LEMMA InitIsSlotInit == Init => Slots!SlotInit
BY DEF Init, RegistryInit, NoCall, Phase, Slots!SlotInit

\* signalling implements the slots: a call takes and frees both users at
\* once and is answered at most once, whatever connections and blocks do
THEOREM Refinement == Spec => ImplementsSlots
<1>1. IInv /\ [Next]_vars => SlotStep
  BY NextIsSlotStep, StutterIsSlotStep DEF vars
<1>2. Spec => []IInv
  BY Invariance
<1> QED BY <1>1, <1>2, InitIsSlotInit, PTL
        DEF Spec, ImplementsSlots, SlotStep, Slots!SlotSpec, Slots!slotVars

-----------------------------------------------------------------------------
(* Calls and the connections of their users.  Handlers, bindings and       *)
(* forced logouts agree on whose connection it is, so the last connection  *)
(* of a user goes with the user's call or went in a send that failed: a    *)
(* forced logout ends the call in the step that drops the last connection, *)
(* for what it still has to close is never the one it drops.               *)

OwnBinding ==
  \A c \in Conn : /\ c \in conns => who[c] = userOf[c]
                  /\ pc[c] = "none" => c \notin conns /\ who[c] = None

Kicked(u) == kick[u] \in {"closing", "closed"}

KickOwn ==
  \A u \in User : Kicked(u) =>
    /\ kickCur[u] \in Conn \ kicking[u]
    /\ \A d \in kicking[u] \cup {kickCur[u]} :
         pc[d] # "none" /\ (d \in conns => userOf[d] = u)

Covered(u) == HasUserConnections(u) \/ u \in swallowed

OnlineInv == OwnBinding /\ KickOwn /\ CallOutlivesUserOnlyBySwallow

\* of a user without a call nothing is asked
LEMMA CoveredSuffices ==
  ASSUME RegInv',
         \A id \in Call, u \in User :
           Live(id)' /\ Committed(u, id)' =>
             (Live(id) /\ Committed(u, id)) \/ Covered(u)',
         CallOutlivesUserOnlyBySwallow,
         \A u \in User : Covered(u) => Covered(u)' \/ callOf'[u] = None
  PROVE  CallOutlivesUserOnlyBySwallow'
<1> SUFFICES ASSUME NEW id \in Call, Live(id)', NEW u \in User, Committed(u, id)'
             PROVE  Covered(u)'
  BY DEF CallOutlivesUserOnlyBySwallow, Covered, Kicked
<1>1. callOf'[u] = id
  BY DEF RegInv, RegistryConsistent, Committed, Parties
<1>2. callOf'[u] # None
  BY <1>1, NoneIsNoCall
<1>3. CASE Live(id) /\ Committed(u, id)
  BY <1>2, <1>3 DEF CallOutlivesUserOnlyBySwallow, Covered, Kicked
<1> QED BY <1>3

\* dropping a connection leaves its user another one, or offline
LEMMA DropCovers ==
  ASSUME HubInv, NEW d \in Conn, HubDrop(d), NEW u \in User, HasUserConnections(u)
  PROVE  HasUserConnections(u)' \/ (BecomesOffline(d) /\ userOf[d] = u)
<1>1. CASE u = userOf[d]
  <2>1. byUser'[u] = byUser[u] \ {d}
    BY <1>1 DEF HubDrop
  <2>2. byUser[u] \ {d} = {} => byUser[u] \subseteq {d}
    OBVIOUS
  <2> QED BY <1>1, <2>1, <2>2, NoneIsNoId DEF HasUserConnections, BecomesOffline
<1>2. CASE u # userOf[d]
  BY <1>2 DEF HubDrop, HasUserConnections
<1> QED BY <1>1, <1>2

\* a send leaves its sender where it is in the life of its connection, and no
\* forced logout begins or ends
LEMMA SendsLeftStages ==
  ASSUME IInv, NEW p \in Proc, Active(p), NEW to, NEW us, SendsLeft(p, to, us)
  PROVE  /\ \A c \in Conn : pc'[c] = "none" <=> pc[c] = "none"
         /\ \A u \in User : kick'[u] \in {"closing", "closed"} <=> Kicked(u)
<1>1. CASE to = {} /\ us = <<>>
  BY <1>1, ConnsAreNoUsers
  DEF SendsLeft, IInv, RestTypeOK, Active, Kicked, Proc
<1>2. CASE ~(to = {} /\ us = <<>>)
  BY <1>2 DEF SendsLeft, Kicked
<1> QED BY <1>1, <1>2

\* who is told of a call and where: the types a step works with
LEMMA StatusTypes ==
  ASSUME IInv
  PROVE  /\ pc \in [Conn -> {"none", "recv", "send", "final", "bye", "done"}]
         /\ kick \in [User -> KickStages]
         /\ kickCur \in [User -> Conn \cup {None}]
         /\ kicking \in [User -> SUBSET Conn]
         /\ who \in [Conn -> User \cup {None}]
         /\ userOf \in [Conn -> User \cup {None}]
         /\ byUser \in [User -> SUBSET Conn]
         /\ conns \in SUBSET Conn
BY DEF IInv, RestTypeOK, HubInv, HubTypeOK

\* steps that leave hub and registry alone
LEMMA RestOnline ==
  ASSUME IInv, IInv', OnlineInv, UNCHANGED <<hubVars, registryVars, who, swallowed,
                                            kickCur, kicking>>,
         \A c \in Conn : pc'[c] = "none" => pc[c] = "none",
         \A c \in Conn : pc[c] # "none" => pc'[c] # "none",
         \A u \in User : kick'[u] \in {"closing", "closed"} <=> Kicked(u)
  PROVE  OnlineInv'
<1>1. OwnBinding' /\ KickOwn'
  BY StatusTypes DEF OnlineInv, OwnBinding, KickOwn, Kicked, hubVars
<1>2. CallOutlivesUserOnlyBySwallow'
  BY DEF OnlineInv, CallOutlivesUserOnlyBySwallow, Kicked, HasUserConnections,
     Committed, Live, hubVars, registryVars
<1> QED BY <1>1, <1>2 DEF OnlineInv

LEMMA SendOnline == ASSUME IInv, IInv', OnlineInv, SendStep PROVE OnlineInv'
<1>1. CASE \E p \in Proc : PassBy(p)
  <2>1. PICK p \in Proc : PassBy(p)
    BY <1>1
  <2>2. Active(p) /\ \E to, us : SendsLeft(p, to, us)
    BY <2>1, Zenon DEF PassBy
  <2> QED BY <2>1, <2>2, SendsLeftStages, RestOnline DEF PassBy, historyVars
<1>2. CASE \E p \in Proc, d \in Conn : Deliver(p, d)
  <2>1. PICK p \in Proc, d \in Conn : Deliver(p, d)
    BY <1>2
  <2>2. Active(p) /\ \E to, us : SendsLeft(p, to, us)
    BY <2>1, Zenon DEF Deliver
  <2> QED BY <2>1, <2>2, SendsLeftStages, RestOnline DEF Deliver
<1>3. CASE \E p \in Proc, d \in Conn : SendFails(p, d)
  <2>1. PICK p \in Proc, d \in Conn : SendFails(p, d)
    BY <1>3
  <2>2. /\ \A c \in Conn : pc'[c] = "none" <=> pc[c] = "none"
        /\ \A u \in User : kick'[u] \in {"closing", "closed"} <=> Kicked(u)
    BY <2>1, SendsLeftStages DEF SendFails
  <2>3. /\ UNCHANGED <<registryVars, who, kickCur, kicking>>
        /\ conns' = conns \ {d} /\ userOf' = [userOf EXCEPT ![d] = None]
        /\ byUser' = [v \in User |->
                        IF v = userOf[d] THEN byUser[v] \ {d} ELSE byUser[v]]
        /\ swallowed' = IF BecomesOffline(d) THEN swallowed \cup {userOf[d]}
                        ELSE swallowed
    BY <2>1 DEF SendFails, HubDrop
  <2>4. OwnBinding' /\ KickOwn'
    BY <2>2, <2>3, StatusTypes DEF OnlineInv, OwnBinding, KickOwn, Kicked
  <2>5. ASSUME NEW u \in User, Covered(u) PROVE Covered(u)'
    <3>1. HasUserConnections(u) =>
            HasUserConnections(u)' \/ (BecomesOffline(d) /\ userOf[d] = u)
      BY <2>1, DropCovers DEF SendFails, IInv
    <3> QED BY <2>2, <2>3, <2>5, <3>1 DEF Covered, Kicked
  <2>6. CallOutlivesUserOnlyBySwallow'
    BY <2>3, <2>5, CoveredSuffices
    DEF OnlineInv, IInv, Live, Committed, registryVars
  <2> QED BY <2>4, <2>6 DEF OnlineInv
<1> QED BY <1>1, <1>2, <1>3 DEF SendStep

\* a user who went offline is in no call, and no other call changed
LEMMA EndForOfflineLeaves ==
  ASSUME RegInv, NEW u \in User, EndForOfflineUser(u)
  PROVE  /\ callOf'[u] = None
         /\ \A id \in Call : Live(id)' => Live(id) /\ calls'[id] = calls[id]
<1>1. CASE GetForUser(u) # None
  <2>1. GetForUser(u) \in Call /\ Live(GetForUser(u)) /\ callOf[u] = GetForUser(u)
        /\ u \in Parties(GetForUser(u))
    BY <1>1 DEF GetForUser, Live
  <2> QED BY <1>1, <2>1
          DEF EndForOfflineUser, EndCall, RegInv, RegistryTypeOK, Live, NoCall,
              ActiveStatuses
<1>2. CASE GetForUser(u) = None
  BY <1>2 DEF EndForOfflineUser, Swept, RegInv, RegistryTypeOK, Live
<1> QED BY <1>1, <1>2

\* the loop of a forced logout: the user's connections, one by one, and then
\* the call
LEMMA KickNextOnline ==
  ASSUME IInv, IInv', OnlineInv, NEW u \in User, NEW left \in SUBSET Conn, NEW fan,
         KickNext(u, left, fan), UNCHANGED <<pc, who, swallowed>>,
         conns' \subseteq conns, \A c \in conns' : userOf'[c] = userOf[c],
         \A v \in User : v # u => byUser'[v] = byUser[v],
         \A d \in left : pc[d] # "none" /\ d \in conns' /\ userOf'[d] = u
  PROVE  OnlineInv'
<1>1. OwnBinding'
  BY StatusTypes DEF OnlineInv, OwnBinding
<1>2. \/ /\ UNCHANGED registryVars
         /\ \E d \in left : /\ kickCur' = [kickCur EXCEPT ![u] = d]
                            /\ kicking' = [kicking EXCEPT ![u] = left \ {d}]
                            /\ kick' = [kick EXCEPT ![u] = "closing"]
      \/ /\ kickCur' = [kickCur EXCEPT ![u] = None]
         /\ kicking' = [kicking EXCEPT ![u] = {}]
         /\ \E s \in {"done", "notify"} : kick' = [kick EXCEPT ![u] = s]
         /\ EndForOfflineUser(u)
  BY DEF KickNext
<1>3. KickOwn'
  BY <1>2, StatusTypes DEF OnlineInv, KickOwn, Kicked
<1>4. /\ \A id \in Call, v \in User : Live(id)' /\ Committed(v, id)' =>
             Live(id) /\ Committed(v, id)
      /\ \A v \in User : Covered(v) => Covered(v)' \/ callOf'[v] = None
  <2>1. CASE EndForOfflineUser(u) /\ \E s \in {"done", "notify"} : kick' = [kick EXCEPT ![u] = s]
    <3>1. /\ callOf'[u] = None
          /\ \A id \in Call : Live(id)' => Live(id) /\ calls'[id] = calls[id]
      BY <2>1, EndForOfflineLeaves DEF IInv
    <3> QED BY <2>1, <3>1, StatusTypes
            DEF Committed, Covered, Kicked, HasUserConnections
  <2>2. CASE UNCHANGED registryVars /\ left # {}
    <3>1. byUser'[u] # {}
      BY <2>2 DEF IInv, HubInv, HubConsistent
    <3> QED BY <2>2, <3>1
            DEF Committed, Covered, HasUserConnections, registryVars, Live
  <2> QED BY <1>2, <2>1, <2>2
<1>5. CallOutlivesUserOnlyBySwallow'
  BY <1>4, CoveredSuffices DEF OnlineInv, IInv
<1> QED BY <1>1, <1>3, <1>5 DEF OnlineInv

LEMMA ConnOnline == ASSUME IInv, IInv', OnlineInv, ConnStep PROVE OnlineInv'
<1>1. PICK c \in Conn :
        \/ Open(c) \/ AuthRejected(c) \/ PeerLeaves(c) \/ Finalize(c)
        \/ \E u \in User : Auth(c, u)
  BY DEF ConnStep
<1>2. CASE Open(c)
  <2>1. /\ UNCHANGED <<registryVars, who, kickVars, swallowed, userOf, byUser>>
        /\ conns' = conns \cup {c} /\ pc' = [pc EXCEPT ![c] = "recv"] /\ pc[c] = "none"
    BY <1>2 DEF Open, HubConnect, historyVars
  <2>2. userOf[c] = None /\ who[c] = None
    BY <2>1, StatusTypes DEF OnlineInv, OwnBinding, IInv, HubInv, HubConsistent
  <2>3. OwnBinding' /\ KickOwn'
    BY <2>1, <2>2, StatusTypes DEF OnlineInv, OwnBinding, KickOwn, Kicked, kickVars
  <2>4. CallOutlivesUserOnlyBySwallow'
    BY <2>1 DEF OnlineInv, CallOutlivesUserOnlyBySwallow, Kicked, HasUserConnections,
       Committed, Live, registryVars, kickVars
  <2> QED BY <2>3, <2>4 DEF OnlineInv
<1>3. CASE AuthRejected(c)
  BY <1>3, StatusTypes, RestOnline
  DEF AuthRejected, Receiving, kickVars, historyVars, Kicked
<1>4. CASE PeerLeaves(c)
  BY <1>4, StatusTypes, RestOnline DEF PeerLeaves, kickVars, historyVars, Kicked
<1>5. CASE Finalize(c)
  <2>1. /\ UNCHANGED <<kickVars, swallowed>>
        /\ conns' = conns \ {c} /\ userOf' = [userOf EXCEPT ![c] = None]
        /\ byUser' = [v \in User |->
                        IF v = userOf[c] THEN byUser[v] \ {c} ELSE byUser[v]]
        /\ who' = [who EXCEPT ![c] = None]
        /\ \E s \in {"done", "bye"} : pc' = [pc EXCEPT ![c] = s]
    BY <1>5 DEF Finalize, HubDrop
  <2>2. OwnBinding' /\ KickOwn'
    BY <2>1, StatusTypes DEF OnlineInv, OwnBinding, KickOwn, Kicked, kickVars
  <2>3. /\ \A id \in Call, u \in User : Live(id)' /\ Committed(u, id)' =>
               Live(id) /\ Committed(u, id)
        /\ BecomesOffline(c) => callOf'[userOf[c]] = None
    <3>1. CASE BecomesOffline(c)
      <4>1. userOf[c] \in User
        BY <3>1, StatusTypes DEF BecomesOffline
      <4>2. EndForOfflineUser(userOf[c])
        BY <1>5, <3>1 DEF Finalize
      <4>3. /\ callOf'[userOf[c]] = None
            /\ \A id \in Call : Live(id)' => Live(id) /\ calls'[id] = calls[id]
        BY <4>1, <4>2, EndForOfflineLeaves DEF IInv
      <4> QED BY <4>3 DEF Committed
    <3>2. CASE ~BecomesOffline(c)
      BY <1>5, <3>2 DEF Finalize, registryVars, Live, Committed
    <3> QED BY <3>1, <3>2
  <2>4. ASSUME NEW u \in User, Covered(u) PROVE Covered(u)' \/ callOf'[u] = None
    <3>1. HasUserConnections(u) =>
            HasUserConnections(u)' \/ (BecomesOffline(c) /\ userOf[c] = u)
      BY <1>5, DropCovers DEF Finalize, IInv
    <3> QED BY <2>1, <2>3, <2>4, <3>1 DEF Covered, Kicked, kickVars
  <2>5. CallOutlivesUserOnlyBySwallow'
    BY <2>3, <2>4, CoveredSuffices DEF OnlineInv, IInv
  <2> QED BY <2>2, <2>5 DEF OnlineInv
<1>6. CASE \E u \in User : Auth(c, u)
  <2>1. PICK u \in User : Auth(c, u)
    BY <1>6
  <2>2. /\ UNCHANGED <<registryVars, kickVars, conns>>
        /\ c \in conns /\ who[c] \in {None, u} /\ pc[c] = "recv"
        /\ userOf' = [userOf EXCEPT ![c] = u]
        /\ byUser' = [v \in User |->
                        IF v = u THEN byUser[v] \cup {c}
                        ELSE IF v = userOf[c] THEN byUser[v] \ {c}
                        ELSE byUser[v]]
        /\ who' = [who EXCEPT ![c] = u]
        /\ swallowed' = swallowed \ {u}
        /\ pc' = [pc EXCEPT ![c] = "send"]
    BY <2>1 DEF Auth, Receiving, HubBind
  <2>3. userOf[c] \in {None, u}
    BY <2>2 DEF OnlineInv, OwnBinding
  <2>4. OwnBinding'
    BY <2>2, StatusTypes DEF OnlineInv, OwnBinding
  <2>5. KickOwn'
    BY <2>2, <2>3, StatusTypes, NoneIsNoId DEF OnlineInv, KickOwn, Kicked, kickVars
  <2>6. \A v \in User : Covered(v) => Covered(v)'
    BY <2>2, <2>3, StatusTypes, NoneIsNoId
    DEF Covered, Kicked, HasUserConnections, kickVars
  <2>7. CallOutlivesUserOnlyBySwallow'
    BY <2>2, <2>6, CoveredSuffices
    DEF OnlineInv, IInv, Live, Committed, registryVars
  <2> QED BY <2>4, <2>5, <2>7 DEF OnlineInv
<1> QED BY <1>1, <1>2, <1>3, <1>4, <1>5, <1>6

LEMMA KickOnline == ASSUME IInv, IInv', OnlineInv, KickStep PROVE OnlineInv'
<1>1. PICK u \in User :
        KickStart(u) \/ KickClose(u) \/ KickDrop(u) \/ KickFails(u)
  BY DEF KickStep
<1>2. CASE KickStart(u)
  <2>1. /\ UNCHANGED <<hubVars, pc, who, swallowed>> /\ ~Kicked(u)
        /\ KickNext(u, byUser[u], HangupFor(u))
    BY <1>2 DEF KickStart, historyVars, Kicked
  <2>2. \A d \in byUser[u] : d \in Conn /\ d \in conns /\ userOf[d] = u /\ pc[d] # "none"
    BY StatusTypes, NoneIsNoId
    DEF IInv, HubInv, HubConsistent, OnlineInv, OwnBinding
  <2> QED BY <2>1, <2>2, KickNextOnline DEF hubVars, OnlineInv
<1>3. CASE KickClose(u)
  BY <1>3, StatusTypes, RestOnline DEF KickClose, historyVars, Kicked
<1>4. CASE KickDrop(u)
  <2> DEFINE d == kickCur[u]
  <2>1. /\ UNCHANGED <<pc, who, swallowed>> /\ Kicked(u)
        /\ conns' = conns \ {d} /\ userOf' = [userOf EXCEPT ![d] = None]
        /\ byUser' = [v \in User |->
                        IF v = userOf[d] THEN byUser[v] \ {d} ELSE byUser[v]]
        /\ KickNext(u, kicking[u] \cap conns, HangupFor(u))
    BY <1>4 DEF KickDrop, HubDrop, Kicked
  <2>2. /\ d \in Conn /\ userOf[d] \in {u, None}
        /\ \A e \in kicking[u] \cap conns :
             e \in Conn /\ userOf[e] = u /\ pc[e] # "none" /\ e # d
        /\ d \in conns => userOf[d] = u
    BY <2>1, StatusTypes DEF OnlineInv, KickOwn, IInv, HubInv, HubConsistent
  <2>3. /\ conns' \subseteq conns /\ \A c \in conns' : userOf'[c] = userOf[c]
        /\ \A v \in User : v # u => byUser'[v] = byUser[v]
        /\ \A e \in kicking[u] \cap conns :
             pc[e] # "none" /\ e \in conns' /\ userOf'[e] = u
    BY <2>1, <2>2, StatusTypes, NoneIsNoId
  <2>4. kicking[u] \cap conns \in SUBSET Conn
    BY StatusTypes
  <2> HIDE DEF d
  <2> QED BY <2>1, <2>3, <2>4, KickNextOnline
<1>5. CASE KickFails(u)
  <2>1. /\ UNCHANGED <<hubVars, registryVars, pc, who, swallowed>>
        /\ kick' = [kick EXCEPT ![u] = "failed"]
        /\ kickCur' = [kickCur EXCEPT ![u] = None]
        /\ kicking' = [kicking EXCEPT ![u] = {}]
    BY <1>5 DEF KickFails, handlerVars, historyVars
  <2>2. OwnBinding' /\ KickOwn'
    BY <2>1, StatusTypes DEF OnlineInv, OwnBinding, KickOwn, Kicked, hubVars
  <2>3. CallOutlivesUserOnlyBySwallow'
    BY <2>1 DEF OnlineInv, CallOutlivesUserOnlyBySwallow, HasUserConnections,
       Committed, Live, hubVars, registryVars
  <2> QED BY <2>2, <2>3 DEF OnlineInv
<1> QED BY <1>1, <1>2, <1>3, <1>4, <1>5

\* a request is made by a user over a connection, who is online with it
LEMMA RequestOnline ==
  ASSUME IInv, IInv', OnlineInv, NEW c \in Conn, NEW u \in User, Asks(c, u),
         UNCHANGED <<hubVars, who, kickVars, swallowed>>,
         \E s \in {"send", "final"} : pc' = [pc EXCEPT ![c] = s],
         \A id \in Call, v \in User : Live(id)' /\ Committed(v, id)' =>
           (Live(id) /\ Committed(v, id)) \/ v = u
  PROVE  OnlineInv'
<1>1. OwnBinding' /\ KickOwn'
  BY StatusTypes
  DEF OnlineInv, OwnBinding, KickOwn, Kicked, hubVars, kickVars, Asks, Receiving
<1>2. HasUserConnections(u)
  BY NoneIsNoId, StatusTypes
  DEF OnlineInv, OwnBinding, IInv, HubInv, HubConsistent, HasUserConnections,
      Asks, Receiving
<1>3. /\ Covered(u)'
      /\ \A v \in User : Covered(v) => Covered(v)'
  BY <1>2 DEF Covered, Kicked, HasUserConnections, hubVars, kickVars
<1>4. CallOutlivesUserOnlyBySwallow'
  BY <1>3, CoveredSuffices DEF OnlineInv, IInv
<1> QED BY <1>1, <1>4 DEF OnlineInv

LEMMA CallOnline == ASSUME IInv, IInv', OnlineInv, CallStep PROVE OnlineInv'
<1>0. calls \in [Call -> [status : ActiveStatuses \cup {"none"},
                          initiator : User \cup {None}, recipient : User \cup {None}]]
  BY DEF IInv, RegInv, RegistryTypeOK
<1>1. PICK c \in Conn, u \in User :
        \/ \E r \in User, id \in Call : Invite(c, u, r, id)
        \/ \E r \in User : Busy(c, u, r) \/ MutualBlockRaises(c, u, r)
        \/ \E id \in Call : \/ Ringing(c, u, id) \/ Accept(c, u, id)
                            \/ Reject(c, u, id) \/ Hangup(c, u, id)
                            \/ Relay(c, u, id)
  BY DEF CallStep
<1>2. CASE \E r \in User, id \in Call : Invite(c, u, r, id)
  <2>1. PICK r \in User, id \in Call : Invite(c, u, r, id)
    BY <1>2
  <2>2. \A k \in Call, v \in User : Live(k)' /\ Committed(v, k)' =>
          (Live(k) /\ Committed(v, k)) \/ v = u
    BY <2>1, <1>0 DEF Invite, CreateCall, Live, Committed
  <2> QED BY <2>1, <2>2, RequestOnline DEF Invite, Reply, historyVars
<1>3. CASE \E r \in User : Busy(c, u, r) \/ MutualBlockRaises(c, u, r)
  <2>1. PICK r \in User : Busy(c, u, r) \/ MutualBlockRaises(c, u, r)
    BY <1>3
  <2>2. UNCHANGED calls
    BY <2>1 DEF Busy, MutualBlockRaises, registryVars
  <2>3. \A k \in Call, v \in User : Live(k)' /\ Committed(v, k)' =>
          (Live(k) /\ Committed(v, k)) \/ v = u
    BY <2>2 DEF Live, Committed
  <2> QED BY <2>1, <2>3, RequestOnline
          DEF Busy, MutualBlockRaises, Reply, Crash, historyVars
<1>4. CASE \E id \in Call : Ringing(c, u, id) \/ Accept(c, u, id)
  <2>1. PICK id \in Call : Ringing(c, u, id) \/ Accept(c, u, id)
    BY <1>4
  <2>2. /\ u = calls[id].recipient /\ Live(id)
        /\ calls'[id].initiator = calls[id].initiator
        /\ calls'[id].recipient = calls[id].recipient
        /\ \A k \in Call : k # id => calls'[k] = calls[k]
    BY <2>1, <1>0 DEF Ringing, Accept, Participant, MarkRinging, MarkAccepted
  <2>3. \A k \in Call, v \in User : Live(k)' /\ Committed(v, k)' =>
          (Live(k) /\ Committed(v, k)) \/ v = u
    BY <2>2 DEF Live, Committed
  <2> QED BY <2>1, <2>3, RequestOnline
          DEF Ringing, Accept, Participant, Reply, historyVars
<1>5. CASE \E id \in Call : Reject(c, u, id) \/ Hangup(c, u, id)
  <2>1. PICK id \in Call : Reject(c, u, id) \/ Hangup(c, u, id)
    BY <1>5
  <2>2. ~Live(id)' /\ \A k \in Call : k # id => calls'[k] = calls[k]
    BY <2>1, <1>0 DEF Reject, Hangup, EndCall, Live, NoCall, ActiveStatuses
  <2>3. \A k \in Call, v \in User : Live(k)' /\ Committed(v, k)' =>
          (Live(k) /\ Committed(v, k)) \/ v = u
    BY <2>2 DEF Live, Committed
  <2> QED BY <2>1, <2>3, RequestOnline
          DEF Reject, Hangup, Participant, Reply, historyVars
<1>6. CASE \E id \in Call : Relay(c, u, id)
  <2>1. PICK id \in Call : Relay(c, u, id)
    BY <1>6
  <2>2. \A k \in Call, v \in User : Live(k)' /\ Committed(v, k)' =>
          (Live(k) /\ Committed(v, k)) \/ v = u
    BY <2>1 DEF Relay, registryVars, Live, Committed
  <2> QED BY <2>1, <2>2, RequestOnline DEF Relay, Participant, Reply, historyVars
<1> QED BY <1>1, <1>2, <1>3, <1>4, <1>5, <1>6

LEMMA OtherOnline ==
  ASSUME IInv, IInv', OnlineInv, BlockStep \/ TrafficStep PROVE OnlineInv'
<1>1. CASE BlockStep
  BY <1>1, RestOnline
  DEF BlockStep, Block, Unblock, handlerVars, kickVars, historyVars, Kicked
<1>2. CASE TrafficStep
  <2>0. PICK c \in Conn : \E us : OtherTraffic(c, us)
    BY <1>2, Zenon DEF TrafficStep
  <2>1. PICK fan : /\ Receiving(c) /\ Reply(c, fan)
                   /\ UNCHANGED <<hubVars, registryVars, kickVars,
                                  blocks, historyVars>>
    BY <2>0, Zenon DEF OtherTraffic
  <2>2. \A d \in Conn : pc'[d] = "none" <=> pc[d] = "none"
    BY <2>1, StatusTypes DEF Reply, Receiving
  <2> QED BY <2>1, <2>2, RestOnline DEF Reply, kickVars, historyVars, Kicked
<1> QED BY <1>1, <1>2

LEMMA InitOnline == Init => OnlineInv
<1> SUFFICES ASSUME Init PROVE OnlineInv
  OBVIOUS
<1>1. OwnBinding /\ KickOwn
  BY DEF Init, HubInit, OwnBinding, KickOwn, Kicked
<1>2. \A id \in Call : ~Live(id)
  BY DEF Init, RegistryInit, Live, NoCall, ActiveStatuses
<1> QED BY <1>1, <1>2 DEF OnlineInv, CallOutlivesUserOnlyBySwallow

LEMMA OnlineNext ==
  ASSUME IInv, IInv', OnlineInv, [Next]_vars PROVE OnlineInv'
<1>1. ASSUME UNCHANGED vars PROVE OnlineInv'
  BY <1>1, RestOnline DEF vars, handlerVars, kickVars, historyVars, Kicked
<1> QED BY <1>1, SendOnline, ConnOnline, KickOnline, CallOnline, OtherOnline DEF Next

\* A call outlives the last connection of a user who began or answered it only
\* because a failed send dropped that connection and its offline transition was
\* not looked at; no forced logout leaves it behind, one that gave up included.
THEOREM CallsEndWithTheirUsers == Spec => []CallOutlivesUserOnlyBySwallow
<1>1. IInv /\ IInv' /\ OnlineInv /\ [Next]_vars => OnlineInv'
  BY OnlineNext
<1>2. OnlineInv => CallOutlivesUserOnlyBySwallow
  BY DEF OnlineInv
<1> QED BY <1>1, <1>2, InitOnline, Invariance, PTL DEF Spec

-----------------------------------------------------------------------------
(* Announcements.  A connection that holds a live call is bound to one of  *)
(* its users, so the fan-out to both that ends the call reaches it; a call *)
(* that ended is still being announced to every connection that holds it   *)
(* but those that got its invitation after its end had passed them.        *)

Tells(p, c, id) ==
  /\ Active(p) /\ out[p].ev = "over" /\ out[p].call = id
  /\ \/ c \in out[p].to
     \/ \E i \in DOMAIN out[p].users : userOf[c] = out[p].users[i]

InviteMeant(p) ==
  out[p].ev = "invite" /\ Live(out[p].call) =>
    /\ \A d \in out[p].to : /\ pc[d] # "none"
                            /\ d \in conns => userOf[d] \in Parties(out[p].call)
    /\ \A i \in DOMAIN out[p].users : out[p].users[i] \in Parties(out[p].call)

Informed(c, id) ==
  \/ Live(id) /\ userOf[c] \in Parties(id)
  \/ \E p \in Proc : Tells(p, c, id)

RingInv ==
  /\ \A c \in Conn : c \notin conns => ringing[c] = {}
  /\ \A p \in Proc : InviteMeant(p)
  /\ \A c \in conns : \A id \in ringing[c] : Informed(c, id) \/ id \in late[c]

LEMMA OutTypes ==
  ASSUME IInv, NEW p \in Proc
  PROVE  /\ out[p].to \in SUBSET Conn /\ out[p].users \in Seq(User)
         /\ out[p].call \in Call \cup {None}
         /\ out \in [Proc -> Fan] /\ ringing \in [Conn -> SUBSET Call]
         /\ late \in [Conn -> SUBSET Call]
         /\ out[p].users # <<>> =>
              /\ 1 \in DOMAIN out[p].users /\ Head(out[p].users) = out[p].users[1]
              /\ Head(out[p].users) \in User /\ Tail(out[p].users) \in Seq(User)
              /\ \A i \in DOMAIN out[p].users : i # 1 =>
                   /\ i - 1 \in DOMAIN Tail(out[p].users)
                   /\ Tail(out[p].users)[i - 1] = out[p].users[i]
              /\ \A i \in DOMAIN Tail(out[p].users) :
                   /\ i + 1 \in DOMAIN out[p].users
                   /\ Tail(out[p].users)[i] = out[p].users[i + 1]
<1>1. /\ out[p] \in Fan /\ out \in [Proc -> Fan]
      /\ ringing \in [Conn -> SUBSET Call] /\ late \in [Conn -> SUBSET Call]
  BY DEF IInv, RestTypeOK
<1>2. out[p].to \in SUBSET Conn /\ out[p].users \in Seq(User)
      /\ out[p].call \in Call \cup {None}
  BY <1>1 DEF Fan
<1> QED BY <1>1, <1>2

\* the users of a live call are users, and a bound connection is its user's
LEMMA BoundTypes ==
  ASSUME IInv
  PROVE  /\ \A id \in Call : Live(id) => Parties(id) \subseteq User
         /\ \A c \in Conn, u \in User : c \in byUser[u] <=> userOf[c] = u
         /\ \A c \in Conn : userOf[c] # None => c \in conns
         /\ None \notin User
BY NoneIsNoId DEF IInv, RegInv, RegistryConsistent, HubInv, HubConsistent

-----------------------------------------------------------------------------
(* Sends.                                                                  *)

\* a send changes what its sender has left, and nobody else's
LEMMA SendsLeftOut ==
  ASSUME IInv, NEW p \in Proc, Active(p), NEW to \in SUBSET Conn,
         NEW us \in Seq(User), SendsLeft(p, to, us)
  PROVE  /\ \A q \in Proc : q # p => out'[q] = out[q] /\ Active(q)' = Active(q)
         /\ \/ out'[p].ev = "note"
            \/ /\ Active(p)'
               /\ out'[p].ev = out[p].ev /\ out'[p].call = out[p].call
               /\ out'[p].to = to /\ out'[p].users = us
         /\ to # {} \/ us # <<>> =>
               /\ Active(p)'
               /\ out'[p].ev = out[p].ev /\ out'[p].call = out[p].call
               /\ out'[p].to = to /\ out'[p].users = us
<1>1. CASE to = {} /\ us = <<>>
  BY <1>1, OutTypes, StatusTypes, ConnsAreNoUsers
  DEF SendsLeft, Active, Quiet, Proc
<1>2. CASE ~(to = {} /\ us = <<>>)
  BY <1>2, OutTypes DEF SendsLeft, Active
<1> QED BY <1>1, <1>2

\* whoever was still to be told is a target now or is waited with
LEMMA StillTold ==
  ASSUME IInv, NEW p \in Proc, NEW c \in conns, NEW id, Tells(p, c, id)
  PROVE  c \in Targets(p) \/ \E i \in DOMAIN Waiting(p) : userOf[c] = Waiting(p)[i]
<1>1. CASE out[p].to # {}
  BY <1>1 DEF Tells, Targets, Waiting
<1>2. CASE out[p].to = {}
  <2>1. PICK i \in DOMAIN out[p].users : userOf[c] = out[p].users[i]
    BY <1>2 DEF Tells
  <2>2. out[p].users # <<>>
    BY <2>1
  <2>3. c \in Conn
    BY StatusTypes
  <2>4. CASE i = 1
    BY <1>2, <2>1, <2>2, <2>3, <2>4, OutTypes, BoundTypes DEF Targets
  <2>5. CASE i # 1
    <3>1. i - 1 \in DOMAIN Waiting(p) /\ Waiting(p)[i - 1] = out[p].users[i]
      BY <1>2, <2>2, <2>5, OutTypes DEF Waiting
    <3> QED BY <2>1, <3>1
  <2> QED BY <2>4, <2>5
<1> QED BY <1>1, <1>2

\* an invitation only ever goes to connections of the users of its call
LEMMA TargetsMeant ==
  ASSUME IInv, OnlineInv, NEW p \in Proc, InviteMeant(p), out[p].ev = "invite",
         Live(out[p].call), out[p].to # {} \/ out[p].users # <<>>
  PROVE  /\ \A d \in Targets(p) :
              /\ pc[d] # "none"
              /\ d \in conns => userOf[d] \in Parties(out[p].call)
         /\ \A i \in DOMAIN Waiting(p) : Waiting(p)[i] \in Parties(out[p].call)
<1>1. CASE out[p].to # {}
  BY <1>1 DEF InviteMeant, Targets, Waiting
<1>2. CASE out[p].to = {}
  <2>1. Targets(p) = byUser[Head(out[p].users)] /\ Waiting(p) = Tail(out[p].users)
    BY <1>2 DEF Targets, Waiting
  <2>2. Head(out[p].users) \in Parties(out[p].call) /\ Head(out[p].users) \in User
    BY <1>2, OutTypes DEF InviteMeant
  <2>3. \A d \in Targets(p) : d \in Conn /\ userOf[d] = Head(out[p].users) /\ d \in conns
    BY <2>1, <2>2, BoundTypes, StatusTypes
  <2>4. \A d \in Targets(p) : pc[d] # "none"
    BY <2>3 DEF OnlineInv, OwnBinding
  <2>5. \A i \in DOMAIN Waiting(p) : Waiting(p)[i] \in Parties(out[p].call)
    BY <1>2, <2>1, OutTypes DEF InviteMeant
  <2> QED BY <2>2, <2>3, <2>4, <2>5
<1> QED BY <1>1, <1>2

\* the same of a send to one part of its targets
LEMMA SendOut ==
  ASSUME IInv, NEW p \in Proc, Active(p), out[p].to # {} \/ out[p].users # <<>>,
         NEW to \in SUBSET Targets(p), SendsLeft(p, to, Waiting(p))
  PROVE  /\ \A q \in Proc : q # p => out'[q] = out[q] /\ Active(q)' = Active(q)
         /\ \/ out'[p].ev = "note"
            \/ /\ Active(p)'
               /\ out'[p].ev = out[p].ev /\ out'[p].call = out[p].call
               /\ out'[p].to = to /\ out'[p].users = Waiting(p)
         /\ to # {} \/ Waiting(p) # <<>> =>
               /\ Active(p)'
               /\ out'[p].ev = out[p].ev /\ out'[p].call = out[p].call
               /\ out'[p].to = to /\ out'[p].users = Waiting(p)
<1>1. Targets(p) \in SUBSET Conn /\ Waiting(p) \in Seq(User) /\ to \in SUBSET Conn
  BY TargetTypes
<1> QED BY <1>1, SendsLeftOut

\* one send: those in D are done with, and of those only who was told of the
\* end or is gone may forget a call, and who gets one that is over and hears no
\* more of it is late
LEMMA SendRing ==
  ASSUME IInv, OnlineInv, RingInv, NEW p \in Proc, Active(p),
         out[p].to # {} \/ out[p].users # <<>>,
         NEW to \in SUBSET Targets(p), NEW D,
         out[p].ev # "invite" => to = Targets(p) \ D,
         SendsLeft(p, to, Waiting(p)),
         UNCHANGED registryVars, conns' \subseteq conns,
         \A c \in conns' : userOf'[c] = userOf[c],
         \A c \in Conn : c \notin conns' => ringing'[c] = {},
         \A c \in conns' : \A id \in ringing'[c] :
           \/ id \in ringing[c] /\ ~(c \in D /\ out[p].ev = "over" /\ out[p].call = id)
           \/ Live(id) /\ userOf[c] \in Parties(id)
           \/ \E q \in Proc : q # p /\ Tells(q, c, id)
           \/ id \in late'[c],
         \A c \in conns' : late[c] \cap ringing'[c] \subseteq late'[c]
  PROVE  RingInv'
<1>1. Targets(p) \in SUBSET Conn /\ Waiting(p) \in Seq(User) /\ to \in SUBSET Conn
  BY TargetTypes
<1>2. /\ \A q \in Proc : q # p => out'[q] = out[q] /\ Active(q)' = Active(q)
      /\ \/ out'[p].ev = "note"
         \/ /\ Active(p)'
            /\ out'[p].ev = out[p].ev /\ out'[p].call = out[p].call
            /\ out'[p].to = to /\ out'[p].users = Waiting(p)
      /\ to # {} \/ Waiting(p) # <<>> =>
            /\ Active(p)'
            /\ out'[p].ev = out[p].ev /\ out'[p].call = out[p].call
            /\ out'[p].to = to /\ out'[p].users = Waiting(p)
  BY SendOut
<1>3. \A c \in Conn : pc'[c] = "none" <=> pc[c] = "none"
  BY SendsLeftStages
<1>4. \A id : Live(id)' = Live(id) /\ Parties(id)' = Parties(id)
  BY DEF registryVars, Live, Parties
<1>5. ASSUME NEW q \in Proc PROVE InviteMeant(q)'
  <2> SUFFICES ASSUME out'[q].ev = "invite", Live(out'[q].call)
               PROVE  /\ \A d \in out'[q].to :
                           /\ pc'[d] # "none"
                           /\ d \in conns' => userOf'[d] \in Parties(out'[q].call)
                      /\ \A i \in DOMAIN out'[q].users :
                           out'[q].users[i] \in Parties(out'[q].call)
    BY <1>4 DEF InviteMeant
  <2>1. CASE q # p
    BY <1>2, <1>3, <2>1, OutTypes DEF RingInv, InviteMeant
  <2>2. CASE q = p
    <3>1. /\ out[p].ev = "invite" /\ out'[p].call = out[p].call
          /\ out'[p].to = to /\ out'[p].users = Waiting(p)
      BY <1>2, <2>2
    <3>2. /\ \A d \in Targets(p) :
                /\ pc[d] # "none"
                /\ d \in conns => userOf[d] \in Parties(out[p].call)
          /\ \A i \in DOMAIN Waiting(p) : Waiting(p)[i] \in Parties(out[p].call)
      BY <2>2, <3>1, TargetsMeant DEF RingInv
    <3> QED BY <1>1, <1>3, <2>2, <3>1, <3>2
  <2> QED BY <2>1, <2>2
<1>6. ASSUME NEW c \in conns', NEW id \in ringing'[c]
      PROVE  Informed(c, id)' \/ id \in late'[c]
  <2>1. CASE Live(id) /\ userOf[c] \in Parties(id)
    BY <1>4, <2>1 DEF Informed
  <2>2. ASSUME NEW q \in Proc, Tells(q, c, id), q # p PROVE Informed(c, id)'
    BY <1>2, <2>2 DEF Tells, Informed
  <2>3. ASSUME Tells(p, c, id), id \in ringing[c],
               ~(c \in D /\ out[p].ev = "over" /\ out[p].call = id)
        PROVE  Informed(c, id)'
    <3>1. c \in Targets(p) \/ \E i \in DOMAIN Waiting(p) : userOf[c] = Waiting(p)[i]
      BY <2>3, StillTold
    <3>2. out[p].ev = "over" /\ out[p].call = id /\ c \notin D
      BY <2>3 DEF Tells
    <3>3. c \in to \/ \E i \in DOMAIN Waiting(p) : userOf[c] = Waiting(p)[i]
      BY <3>1, <3>2
    <3>4. to # {} \/ Waiting(p) # <<>>
      BY <3>3
    <3>5. Tells(p, c, id)'
      BY <1>2, <3>2, <3>3, <3>4 DEF Tells
    <3> QED BY <3>5 DEF Informed
  <2>4. ASSUME id \in ringing[c], ~(c \in D /\ out[p].ev = "over" /\ out[p].call = id)
        PROVE  Informed(c, id)' \/ id \in late'[c]
    <3>1. Informed(c, id) \/ id \in late[c]
      BY <2>4 DEF RingInv
    <3>2. CASE Informed(c, id)
      BY <2>1, <2>2, <2>3, <2>4, <3>2 DEF Informed
    <3>3. CASE id \in late[c]
      BY <1>6, <3>3
    <3> QED BY <3>1, <3>2, <3>3
  <2>5. \/ id \in ringing[c] /\ ~(c \in D /\ out[p].ev = "over" /\ out[p].call = id)
        \/ Live(id) /\ userOf[c] \in Parties(id)
        \/ \E q \in Proc : q # p /\ Tells(q, c, id)
        \/ id \in late'[c]
    BY <1>6
  <2> QED BY <2>1, <2>2, <2>4, <2>5
<1> QED BY <1>5, <1>6 DEF RingInv

LEMMA SendStepRing == ASSUME IInv, OnlineInv, RingInv, SendStep PROVE RingInv'
<1>1. ASSUME NEW p \in Proc, NEW d \in Conn, Deliver(p, d) PROVE RingInv'
  <2> DEFINE to == IF out[p].ev = "invite" THEN {} ELSE Targets(p) \ {d}
  <2>1. /\ Active(p) /\ d \in Targets(p) /\ d \in conns
        /\ SendsLeft(p, to, Waiting(p))
        /\ UNCHANGED <<hubVars, registryVars>>
    BY <1>1 DEF Deliver
  <2>2. out[p].to # {} \/ out[p].users # <<>>
    BY <2>1 DEF Targets
  <2>3. ringing' = [ringing EXCEPT ![d] =
          IF out[p].ev = "invite" THEN @ \cup {out[p].call}
          ELSE IF out[p].ev = "over" THEN @ \ {out[p].call} ELSE @]
    BY <1>1, Zenon DEF Deliver
  <2>9. late' = [late EXCEPT ![d] =
          IF out[p].ev = "invite" /\ ~Live(out[p].call) /\ ~ToBeTold(d, out[p].call)
          THEN @ \cup {out[p].call}
          ELSE IF out[p].ev = "over" THEN @ \ {out[p].call} ELSE @]
    BY <1>1 DEF Deliver
  <2>10. out[p].ev = "invite" /\ ToBeTold(d, out[p].call) =>
           \E q \in Proc : q # p /\ Tells(q, d, out[p].call)
    BY DEF ToBeTold, Tells
  <2>11. \A c \in conns : late[c] \cap ringing'[c] \subseteq late'[c]
    BY <2>3, <2>9, OutTypes, StatusTypes
  <2>4. out[p].ev = "invite" /\ Live(out[p].call) => userOf[d] \in Parties(out[p].call)
    BY <2>1, <2>2, TargetsMeant DEF RingInv
  <2>5. ASSUME NEW c \in conns, NEW id \in ringing'[c]
        PROVE  \/ id \in ringing[c] /\ ~(c \in {d} /\ out[p].ev = "over" /\ out[p].call = id)
               \/ Live(id) /\ userOf[c] \in Parties(id)
               \/ \E q \in Proc : q # p /\ Tells(q, c, id)
               \/ id \in late'[c]
    <3>1. CASE id \in ringing[c]
      BY <2>3, <2>5, <3>1, OutTypes, StatusTypes
    <3>2. CASE id \notin ringing[c]
      <4>1. c = d /\ out[p].ev = "invite" /\ id = out[p].call
        BY <2>3, <2>5, <3>2, OutTypes, StatusTypes
      <4>2. CASE Live(id)
        BY <2>4, <4>1, <4>2
      <4>3. CASE ~Live(id) /\ ToBeTold(d, id)
        BY <2>10, <4>1, <4>3
      <4>4. CASE ~Live(id) /\ ~ToBeTold(d, id)
        BY <2>9, <4>1, <4>4, OutTypes
      <4> QED BY <4>2, <4>3, <4>4
    <3> QED BY <3>1, <3>2
  <2>6. \A c \in Conn : c \notin conns => ringing'[c] = {}
    BY <2>1, <2>3, OutTypes DEF RingInv
  <2>7. to \in SUBSET Targets(p) /\ (out[p].ev # "invite" => to = Targets(p) \ {d})
    OBVIOUS
  <2>8. conns' = conns /\ userOf' = userOf
    BY <2>1 DEF hubVars
  <2>12. /\ UNCHANGED registryVars /\ conns' \subseteq conns
         /\ \A c \in conns' : userOf'[c] = userOf[c]
         /\ \A c \in Conn : c \notin conns' => ringing'[c] = {}
         /\ \A c \in conns' : late[c] \cap ringing'[c] \subseteq late'[c]
    BY <2>1, <2>6, <2>8, <2>11
  <2>13. \A c \in conns' : \A id \in ringing'[c] :
           \/ id \in ringing[c] /\ ~(c \in {d} /\ out[p].ev = "over" /\ out[p].call = id)
           \/ Live(id) /\ userOf[c] \in Parties(id)
           \/ \E q \in Proc : q # p /\ Tells(q, c, id)
           \/ id \in late'[c]
    BY <2>5, <2>8
  <2> HIDE DEF to
  <2> QED BY <2>1, <2>2, <2>7, <2>12, <2>13, SendRing
<1>2. ASSUME NEW p \in Proc, NEW d \in Conn, SendFails(p, d) PROVE RingInv'
  <2>1. /\ Active(p) /\ d \in Targets(p)
        /\ SendsLeft(p, Targets(p) \ {d}, Waiting(p))
        /\ UNCHANGED registryVars
        /\ conns' = conns \ {d} /\ userOf' = [userOf EXCEPT ![d] = None]
        /\ ringing' = [ringing EXCEPT ![d] = {}] /\ late' = [late EXCEPT ![d] = {}]
    BY <1>2 DEF SendFails, HubDrop, ForgetCalls
  <2>2. out[p].to # {} \/ out[p].users # <<>>
    BY <2>1 DEF Targets
  <2>3. /\ \A c \in conns' : /\ userOf'[c] = userOf[c] /\ c # d
                             /\ ringing'[c] = ringing[c] /\ late'[c] = late[c]
        /\ \A c \in Conn : c \notin conns' => ringing'[c] = {}
    BY <2>1, OutTypes, StatusTypes DEF RingInv
  <2>4. Targets(p) \ {d} \in SUBSET Targets(p) /\ conns' \subseteq conns
    BY <2>1
  <2>5. \A c \in conns' : \A id \in ringing'[c] :
          \/ id \in ringing[c] /\ ~(c \in {d} /\ out[p].ev = "over" /\ out[p].call = id)
          \/ Live(id) /\ userOf[c] \in Parties(id)
    BY <2>3
  <2>7. \A c \in conns' : late[c] \cap ringing'[c] \subseteq late'[c]
    BY <2>3
  <2>6. Active(p) /\ SendsLeft(p, Targets(p) \ {d}, Waiting(p)) /\ UNCHANGED registryVars
    BY <2>1
  <2> QED BY <2>2, <2>3, <2>4, <2>5, <2>6, <2>7, SendRing
<1>3. ASSUME NEW p \in Proc, PassBy(p) PROVE RingInv'
  <2>1. /\ Active(p) /\ UNCHANGED <<hubVars, registryVars, ringing, late>>
        /\ out[p].to # {} \/ out[p].users # <<>>
    BY <1>3 DEF PassBy, Targets, historyVars
  <2>2. PICK D : D \cap conns = {} /\ SendsLeft(p, Targets(p) \ D, Waiting(p))
    <3>1. ASSUME NEW d \in Targets(p), d \notin conns,
                 SendsLeft(p, Targets(p) \ {d}, Waiting(p))
          PROVE  \E D : D \cap conns = {} /\ SendsLeft(p, Targets(p) \ D, Waiting(p))
      <4>1. {d} \cap conns = {}
        BY <3>1
      <4> QED BY <3>1, <4>1
    <3>2. ASSUME Targets(p) = {}, SendsLeft(p, {}, Waiting(p))
          PROVE  \E D : D \cap conns = {} /\ SendsLeft(p, Targets(p) \ D, Waiting(p))
      <4>1. {} \cap conns = {} /\ Targets(p) \ {} = {}
        BY <3>2
      <4> QED BY <3>2, <4>1
    <3> QED BY <1>3, <3>1, <3>2 DEF PassBy
  <2>3. /\ conns' = conns /\ userOf' = userOf /\ ringing' = ringing /\ late' = late
        /\ \A c \in Conn : c \notin conns => ringing[c] = {}
    BY <2>1 DEF hubVars, RingInv
  <2>4. Targets(p) \ D \in SUBSET Targets(p)
    OBVIOUS
  <2>5. \A c \in conns : c \notin D
    BY <2>2
  <2> QED BY <2>1, <2>2, <2>3, <2>4, <2>5, SendRing
<1> QED BY <1>1, <1>2, <1>3 DEF SendStep

-----------------------------------------------------------------------------
(* Everything else.                                                        *)

(* What a step may do to the calls: those that stay keep their users, each *)
(* that ends is announced by someone to every connection of its users, and *)
(* one that begins has an id nobody knows.                                 *)
CallsAnnounced ==
  /\ \A id \in Call : Live(id) /\ Live(id)' => Parties(id)' = Parties(id)
  /\ \A id \in Call : Live(id) /\ ~Live(id)' =>
       \E p \in Proc : \A c \in conns' : userOf'[c] \in Parties(id) => Tells(p, c, id)'
  /\ \A id \in Call : Live(id)' /\ ~Live(id) => Fresh(id)

\* steps of those who are not sending
LEMMA ActRing ==
  ASSUME IInv, OnlineInv, RingInv,
         \A p \in Proc : Active(p) => Active(p)' /\ out'[p] = out[p],
         \A p \in Proc : out'[p] = out[p] \/ InviteMeant(p)',
         \A c \in conns' : \/ c \in conns /\ (userOf[c] # None => userOf'[c] = userOf[c])
                           \/ pc[c] = "none",
         \A c \in Conn : pc[c] # "none" => pc'[c] # "none",
         \A c \in Conn : ringing'[c] \subseteq ringing[c],
         \A c \in Conn : late[c] \cap ringing'[c] \subseteq late'[c],
         \A c \in Conn : c \notin conns' => ringing'[c] = {},
         conns' \subseteq Conn,
         CallsAnnounced
  PROVE  RingInv'
<1>1. ASSUME NEW p \in Proc, out'[p] = out[p] PROVE InviteMeant(p)'
  <2> SUFFICES ASSUME NEW id \in Call, id = out[p].call, out[p].ev = "invite", Live(id)'
               PROVE  /\ \A d \in out[p].to :
                           /\ pc'[d] # "none"
                           /\ d \in conns' => userOf'[d] \in Parties(id)'
                      /\ \A i \in DOMAIN out[p].users : out[p].users[i] \in Parties(id)'
    BY <1>1 DEF InviteMeant, Live, Parties
  <2>1. Live(id)
    BY DEF CallsAnnounced, Fresh
  <2>2. Parties(id)' = Parties(id) /\ Parties(id) \subseteq User
    BY <2>1, BoundTypes DEF CallsAnnounced
  <2> QED BY <2>1, <2>2, OutTypes, BoundTypes DEF RingInv, InviteMeant
<1>2. ASSUME NEW c \in conns', NEW id \in ringing'[c]
      PROVE  Informed(c, id)' \/ id \in late'[c]
  <2>1. /\ c \in conns /\ id \in ringing[c] /\ c \in Conn /\ id \in Call
        /\ userOf[c] # None => userOf'[c] = userOf[c]
    <3>1. c \in Conn /\ id \in ringing[c]
      BY <1>2
    <3>2. c \in conns
      BY <3>1 DEF RingInv
    <3>3. pc[c] # "none"
      BY <3>1, <3>2 DEF OnlineInv, OwnBinding
    <3>4. \A d \in Conn : ringing[d] \subseteq Call
      BY DEF IInv, RestTypeOK
    <3> QED BY <1>2, <3>1, <3>2, <3>3, <3>4
  <2>2. CASE Live(id) /\ userOf[c] \in Parties(id)
    <3>1. userOf'[c] = userOf[c]
      BY <2>1, <2>2, BoundTypes
    <3> QED BY <1>2, <2>1, <2>2, <3>1 DEF CallsAnnounced, Informed
  <2>3. ASSUME NEW p \in Proc, Tells(p, c, id) PROVE Tells(p, c, id)'
    <3>1. Active(p)' /\ out'[p] = out[p]
      BY <2>3 DEF Tells
    <3>2. ASSUME NEW i \in DOMAIN out[p].users, userOf[c] = out[p].users[i]
          PROVE  userOf'[c] = out[p].users[i]
      <4>1. out[p].users[i] \in User
        BY <3>2, OutTypes
      <4> QED BY <2>1, <3>2, <4>1, BoundTypes
    <3> QED BY <2>3, <3>1, <3>2 DEF Tells
  <2>4. CASE id \in late[c]
    BY <1>2, <2>1, <2>4
  <2> QED BY <2>1, <2>2, <2>3, <2>4 DEF RingInv, Informed
<1> QED BY <1>1, <1>2 DEF RingInv

\* a step that leaves the calls alone announces nothing
LEMMA NoCallChanges == ASSUME UNCHANGED calls PROVE CallsAnnounced
BY DEF CallsAnnounced, Live, Parties

\* a call that one sender ends is announced to both its users
LEMMA EndAnnounced ==
  ASSUME IInv, NEW id \in Call, Live(id), EndCall(id), NEW p \in Proc, Active(p)',
         out'[p] = ToUsers("over", id, PartySeq(id))
  PROVE  CallsAnnounced
<1>1. ~Live(id)' /\ \A k \in Call : k # id => calls'[k] = calls[k]
  BY DEF IInv, RegInv, RegistryTypeOK, EndCall, Live, NoCall, ActiveStatuses
<1>2. ASSUME NEW c \in conns', userOf'[c] \in Parties(id) PROVE Tells(p, c, id)'
  <2>1. /\ DOMAIN PartySeq(id) = {1, 2}
        /\ Parties(id) = {PartySeq(id)[1], PartySeq(id)[2]}
    BY DEF PartySeq, Parties
  <2>2. \E i \in DOMAIN PartySeq(id) : userOf'[c] = PartySeq(id)[i]
    BY <1>2, <2>1
  <2>3. /\ out'[p].ev = "over" /\ out'[p].call = id /\ out'[p].users = PartySeq(id)
    BY DEF ToUsers
  <2> QED BY <2>2, <2>3 DEF Tells
<1> QED BY <1>1, <1>2 DEF CallsAnnounced, Live, Parties

\* so is the call of a user who went offline
LEMMA OfflineAnnounced ==
  ASSUME IInv, NEW u \in User, EndForOfflineUser(u), NEW p \in Proc,
         HangupFor(u) # Quiet => Active(p)', out'[p] = HangupFor(u)
  PROVE  CallsAnnounced
<1>1. CASE GetForUser(u) = None
  BY <1>1, NoCallChanges DEF EndForOfflineUser
<1>2. CASE GetForUser(u) # None
  <2>1. GetForUser(u) \in Call /\ Live(GetForUser(u)) /\ EndCall(GetForUser(u))
    BY <1>2 DEF GetForUser, Live, EndForOfflineUser
  <2>2. /\ HangupFor(u) = ToUsers("over", GetForUser(u), PartySeq(GetForUser(u)))
        /\ HangupFor(u) # Quiet
    BY <1>2 DEF HangupFor, ToUsers, Quiet
  <2> QED BY <2>1, <2>2, EndAnnounced
<1> QED BY <1>1, <1>2

\* only an invitation has to be meant for someone
LEMMA OthersMeant ==
  ASSUME NEW p \in Proc, out'[p].ev # "invite" PROVE InviteMeant(p)'
BY DEF InviteMeant

LEMMA HangupIsNoInvite == ASSUME NEW u PROVE HangupFor(u).ev # "invite"
BY DEF HangupFor, Quiet, ToUsers

LEMMA ConnRing == ASSUME IInv, OnlineInv, RingInv, ConnStep PROVE RingInv'
<1>0. /\ \A c \in Conn : c \notin conns => ringing[c] = {}
      /\ ringing \in [Conn -> SUBSET Call] /\ late \in [Conn -> SUBSET Call]
      /\ out \in [Proc -> Fan]
  BY DEF RingInv, IInv, RestTypeOK
<1>1. PICK c \in Conn :
        \/ Open(c) \/ AuthRejected(c) \/ PeerLeaves(c) \/ Finalize(c)
        \/ \E u \in User : Auth(c, u)
  BY DEF ConnStep
<1>2. CASE Open(c)
  <2>1. /\ pc[c] = "none" /\ pc' = [pc EXCEPT ![c] = "recv"]
        /\ conns' = conns \cup {c}
        /\ UNCHANGED <<registryVars, userOf, out, kick, ringing, late>>
    BY <1>2 DEF Open, HubConnect, kickVars, historyVars
  <2>2. /\ \A p \in Proc : Active(p) => Active(p)' /\ out'[p] = out[p]
        /\ \A d \in Conn : pc[d] # "none" => pc'[d] # "none"
    BY <2>1, StatusTypes DEF Active
  <2>3. CallsAnnounced
    BY <2>1, NoCallChanges DEF registryVars
  <2>4. /\ conns' \subseteq Conn
        /\ \A d \in conns' : \/ d \in conns /\ (userOf[d] # None => userOf'[d] = userOf[d])
                             \/ pc[d] = "none"
        /\ \A d \in Conn : d \notin conns' => ringing'[d] = {}
        /\ \A d \in Conn : ringing'[d] \subseteq ringing[d]
        /\ \A d \in Conn : late[d] \cap ringing'[d] \subseteq late'[d]
        /\ \A p \in Proc : out'[p] = out[p]
    BY <1>0, <2>1, StatusTypes
  <2> QED BY <2>2, <2>3, <2>4, ActRing
<1>3. CASE AuthRejected(c) \/ PeerLeaves(c)
  <2>1. /\ UNCHANGED <<hubVars, registryVars, out, kick, ringing, late>>
        /\ \/ UNCHANGED pc
           \/ pc[c] = "recv" /\ pc' = [pc EXCEPT ![c] = "final"]
    BY <1>3 DEF AuthRejected, PeerLeaves, Receiving, kickVars, historyVars
  <2>2. /\ \A p \in Proc : Active(p) => Active(p)' /\ out'[p] = out[p]
        /\ \A d \in Conn : pc[d] # "none" => pc'[d] # "none"
    BY <2>1, StatusTypes DEF Active
  <2>3. CallsAnnounced
    BY <2>1, NoCallChanges DEF registryVars
  <2> QED BY <1>0, <2>1, <2>2, <2>3, ActRing, StatusTypes DEF hubVars
<1>4. CASE Finalize(c)
  <2>1. /\ pc[c] \in {"final", "recv"}
        /\ conns' = conns \ {c} /\ userOf' = [userOf EXCEPT ![c] = None]
        /\ ringing' = [ringing EXCEPT ![c] = {}] /\ late' = [late EXCEPT ![c] = {}]
        /\ UNCHANGED kick
    BY <1>4 DEF Finalize, HubDrop, ForgetCalls, kickVars
  <2>2. \/ /\ BecomesOffline(c) /\ EndForOfflineUser(userOf[c])
           /\ out' = [out EXCEPT ![c] = HangupFor(userOf[c])]
           /\ pc' = [pc EXCEPT ![c] = IF HangupFor(userOf[c]) = Quiet THEN "done"
                                      ELSE "bye"]
        \/ /\ UNCHANGED <<registryVars, out>> /\ pc' = [pc EXCEPT ![c] = "done"]
    BY <1>4 DEF Finalize
  <2>3. c \in Proc /\ ~Active(c)
    BY <2>1 DEF Active, Proc
  <2>4. /\ \A p \in Proc : Active(p) => Active(p)' /\ out'[p] = out[p]
        /\ \A d \in Conn : pc[d] # "none" => pc'[d] # "none"
    BY <1>0, <2>1, <2>2, <2>3, StatusTypes DEF Active
  <2>5. /\ conns' \subseteq Conn
        /\ \A d \in conns' : d \in conns /\ userOf'[d] = userOf[d]
        /\ \A d \in Conn : d \notin conns' => ringing'[d] = {}
        /\ \A d \in Conn : ringing'[d] \subseteq ringing[d]
        /\ \A d \in Conn : late[d] \cap ringing'[d] \subseteq late'[d]
    BY <1>0, <2>1, StatusTypes
  <2>6. CallsAnnounced
    <3>1. CASE /\ BecomesOffline(c) /\ EndForOfflineUser(userOf[c])
               /\ out' = [out EXCEPT ![c] = HangupFor(userOf[c])]
               /\ pc' = [pc EXCEPT ![c] = IF HangupFor(userOf[c]) = Quiet THEN "done"
                                          ELSE "bye"]
      <4>1. userOf[c] \in User
        BY <3>1, StatusTypes DEF BecomesOffline
      <4>2. out'[c] = HangupFor(userOf[c])
        BY <1>0, <2>3, <3>1
      <4>3. HangupFor(userOf[c]) # Quiet => Active(c)'
        BY <3>1, StatusTypes DEF Active
      <4> QED BY <2>3, <3>1, <4>1, <4>2, <4>3, OfflineAnnounced
    <3>2. CASE UNCHANGED <<registryVars, out>>
      BY <3>2, NoCallChanges DEF registryVars
    <3> QED BY <2>2, <3>1, <3>2
  <2>7. \A p \in Proc : out'[p] = out[p] \/ InviteMeant(p)'
    <3>1. \A p \in Proc : out'[p] = out[p] \/ out'[p] = HangupFor(userOf[c])
      BY <1>0, <2>2
    <3> QED BY <3>1, OthersMeant, HangupIsNoInvite
  <2> QED BY <2>4, <2>5, <2>6, <2>7, ActRing
<1>5. CASE \E u \in User : Auth(c, u)
  <2>1. PICK u \in User : Auth(c, u)
    BY <1>5
  <2>2. /\ UNCHANGED <<registryVars, kick, ringing, late, conns>>
        /\ c \in conns /\ who[c] \in {None, u} /\ pc[c] = "recv"
        /\ userOf' = [userOf EXCEPT ![c] = u]
        /\ out' = [out EXCEPT ![c] = ToSelf(c)]
        /\ pc' = [pc EXCEPT ![c] = "send"]
    BY <2>1 DEF Auth, Receiving, HubBind, kickVars
  <2>3. userOf[c] \in {None, u}
    BY <2>2 DEF OnlineInv, OwnBinding
  <2>4. /\ \A p \in Proc : Active(p) => Active(p)' /\ out'[p] = out[p]
        /\ \A d \in Conn : pc[d] # "none" => pc'[d] # "none"
    BY <1>0, <2>2, StatusTypes DEF Active
  <2>5. \A p \in Proc : out'[p] = out[p] \/ InviteMeant(p)'
    <3>1. \A p \in Proc : out'[p] = out[p] \/ out'[p].ev # "invite"
      BY <1>0, <2>2 DEF ToSelf, ToSelfThen
    <3> QED BY <3>1, OthersMeant
  <2>6. CallsAnnounced
    BY <2>2, NoCallChanges DEF registryVars
  <2>7. /\ conns' \subseteq Conn
        /\ \A d \in conns' : d \in conns /\ (userOf[d] # None => userOf'[d] = userOf[d])
        /\ \A d \in Conn : d \notin conns' => ringing'[d] = {}
        /\ \A d \in Conn : ringing'[d] \subseteq ringing[d]
        /\ \A d \in Conn : late[d] \cap ringing'[d] \subseteq late'[d]
    BY <1>0, <2>2, <2>3, StatusTypes
  <2> QED BY <2>4, <2>5, <2>6, <2>7, ActRing
<1> QED BY <1>1, <1>2, <1>3, <1>4, <1>5

\* a forced logout is not sending before it has ended the call
LEMMA KickNextRing ==
  ASSUME IInv, OnlineInv, RingInv, NEW u \in User, ~Active(u), NEW left,
         KickNext(u, left, HangupFor(u)), UNCHANGED pc, conns' \subseteq conns,
         \A c \in conns' : userOf'[c] = userOf[c],
         \A c \in Conn : ringing'[c] \subseteq ringing[c],
         \A c \in Conn : late[c] \cap ringing'[c] \subseteq late'[c],
         \A c \in Conn : c \notin conns' => ringing'[c] = {}
  PROVE  RingInv'
<1>0. out \in [Proc -> Fan] /\ u \in Proc /\ u \notin Conn
  BY ConnsAreNoUsers DEF IInv, RestTypeOK, Proc
<1>1. \/ /\ UNCHANGED <<registryVars, out>> /\ kick' = [kick EXCEPT ![u] = "closing"]
      \/ /\ EndForOfflineUser(u) /\ out' = [out EXCEPT ![u] = HangupFor(u)]
         /\ kick' = [kick EXCEPT ![u] = IF HangupFor(u) = Quiet THEN "done" ELSE "notify"]
  BY DEF KickNext
<1>2. \A p \in Proc : Active(p) => Active(p)' /\ out'[p] = out[p]
  BY <1>0, <1>1, StatusTypes DEF Active, Proc
<1>3. CallsAnnounced
  <2>1. CASE UNCHANGED <<registryVars, out>>
    BY <2>1, NoCallChanges DEF registryVars
  <2>2. CASE /\ EndForOfflineUser(u) /\ out' = [out EXCEPT ![u] = HangupFor(u)]
             /\ kick' = [kick EXCEPT ![u] = IF HangupFor(u) = Quiet THEN "done"
                                            ELSE "notify"]
    <3>1. out'[u] = HangupFor(u) /\ (HangupFor(u) # Quiet => Active(u)')
      BY <1>0, <2>2, StatusTypes DEF Active
    <3> QED BY <1>0, <2>2, <3>1, OfflineAnnounced
  <2> QED BY <1>1, <2>1, <2>2
<1>4. \A p \in Proc : out'[p] = out[p] \/ InviteMeant(p)'
  <2>1. \A p \in Proc : out'[p] = out[p] \/ out'[p] = HangupFor(u)
    BY <1>0, <1>1
  <2> QED BY <2>1, OthersMeant, HangupIsNoInvite
<1>5. conns' \subseteq Conn
  BY StatusTypes
<1> QED BY <1>2, <1>3, <1>4, <1>5, ActRing

LEMMA KickRing == ASSUME IInv, OnlineInv, RingInv, KickStep PROVE RingInv'
<1>0. /\ \A c \in Conn : c \notin conns => ringing[c] = {}
      /\ ringing \in [Conn -> SUBSET Call] /\ late \in [Conn -> SUBSET Call]
  BY DEF RingInv, IInv, RestTypeOK
<1>1. PICK u \in User :
        KickStart(u) \/ KickClose(u) \/ KickDrop(u) \/ KickFails(u)
  BY DEF KickStep
<1>2. u \notin Conn
  BY ConnsAreNoUsers
<1>3. CASE KickStart(u)
  <2>1. /\ ~Active(u) /\ UNCHANGED <<hubVars, pc, ringing, late>>
        /\ KickNext(u, byUser[u], HangupFor(u))
    BY <1>2, <1>3 DEF KickStart, Active, historyVars
  <2> QED BY <1>0, <2>1, KickNextRing DEF hubVars
<1>4. CASE KickClose(u) \/ KickFails(u)
  <2>1. /\ UNCHANGED <<hubVars, registryVars, pc, out, ringing, late>>
        /\ kick[u] \in {"closing", "closed"}
        /\ \E s \in {"closed", "failed"} : kick' = [kick EXCEPT ![u] = s]
    BY <1>4 DEF KickClose, KickFails, handlerVars, historyVars
  <2>2. \A p \in Proc : Active(p) => Active(p)' /\ out'[p] = out[p]
    BY <1>2, <2>1, StatusTypes DEF Active, Proc
  <2>3. CallsAnnounced
    BY <2>1, NoCallChanges DEF registryVars
  <2> QED BY <1>0, <2>1, <2>2, <2>3, ActRing, StatusTypes DEF hubVars
<1>5. CASE KickDrop(u)
  <2> DEFINE d == kickCur[u]
  <2>1. /\ ~Active(u) /\ UNCHANGED pc
        /\ conns' = conns \ {d} /\ userOf' = [userOf EXCEPT ![d] = None]
        /\ ringing' = [ringing EXCEPT ![d] = {}] /\ late' = [late EXCEPT ![d] = {}]
        /\ KickNext(u, kicking[u] \cap conns, HangupFor(u))
    BY <1>2, <1>5 DEF KickDrop, HubDrop, ForgetCalls, Active
  <2>2. /\ conns' \subseteq conns /\ \A c \in conns' : userOf'[c] = userOf[c]
        /\ \A c \in Conn : ringing'[c] \subseteq ringing[c]
        /\ \A c \in Conn : late[c] \cap ringing'[c] \subseteq late'[c]
        /\ \A c \in Conn : c \notin conns' => ringing'[c] = {}
    BY <1>0, <2>1, StatusTypes
  <2> HIDE DEF d
  <2> QED BY <2>1, <2>2, KickNextRing
<1> QED BY <1>1, <1>3, <1>4, <1>5

\* an answer to a request: the handler was not sending, and if it ended a
\* call it announces the end
LEMMA ReplyRing ==
  ASSUME IInv, OnlineInv, RingInv, NEW c \in Conn, pc[c] = "recv",
         NEW fan, Reply(c, fan), InviteMeant(c)', CallsAnnounced,
         UNCHANGED <<hubVars, kickVars, historyVars>>
  PROVE  RingInv'
<1>1. /\ out' = [out EXCEPT ![c] = fan] /\ pc' = [pc EXCEPT ![c] = "send"]
      /\ UNCHANGED kick /\ out \in [Proc -> Fan]
  BY DEF Reply, kickVars, IInv, RestTypeOK
<1>2. /\ \A p \in Proc : Active(p) => Active(p)' /\ out'[p] = out[p]
      /\ \A p \in Proc : out'[p] = out[p] \/ InviteMeant(p)'
      /\ \A d \in Conn : pc[d] # "none" => pc'[d] # "none"
  BY <1>1, StatusTypes DEF Active
<1>3. /\ conns' = conns /\ userOf' = userOf /\ ringing' = ringing /\ late' = late
      /\ \A d \in Conn : d \notin conns => ringing[d] = {}
  BY DEF hubVars, historyVars, RingInv
<1> QED BY <1>2, <1>3, ActRing, StatusTypes

\* what a handler that answered is sending
LEMMA ReplyActive ==
  ASSUME IInv, NEW c \in Conn, NEW fan, Reply(c, fan)
  PROVE  c \in Proc /\ Active(c)' /\ out'[c] = fan
BY StatusTypes DEF Reply, Active, Proc, IInv, RestTypeOK

LEMMA CallRing == ASSUME IInv, OnlineInv, RingInv, CallStep PROVE RingInv'
<1>0. calls \in [Call -> [status : ActiveStatuses \cup {"none"},
                          initiator : User \cup {None}, recipient : User \cup {None}]]
  BY DEF IInv, RegInv, RegistryTypeOK
<1>1. PICK c \in Conn, u \in User :
        \/ \E r \in User, id \in Call : Invite(c, u, r, id)
        \/ \E r \in User : Busy(c, u, r) \/ MutualBlockRaises(c, u, r)
        \/ \E id \in Call : \/ Ringing(c, u, id) \/ Accept(c, u, id)
                            \/ Reject(c, u, id) \/ Hangup(c, u, id)
                            \/ Relay(c, u, id)
  BY DEF CallStep
<1>2. CASE \E r \in User, id \in Call : Invite(c, u, r, id)
  <2>1. PICK r \in User, id \in Call : Invite(c, u, r, id)
    BY <1>2
  <2>2. /\ c \in conns /\ who[c] = u /\ pc[c] = "recv" /\ ~Live(id) /\ Fresh(id)
        /\ CreateCall(id, u, r) /\ Reply(c, InviteTo(c, id, r))
        /\ UNCHANGED <<hubVars, kickVars, historyVars>>
    BY <2>1 DEF Invite, Asks, Receiving
  <2>3. Parties(id)' = {u, r} /\ \A k \in Call : k # id => calls'[k] = calls[k]
    BY <1>0, <2>2 DEF CreateCall, Parties
  <2>4. CallsAnnounced
    BY <2>2, <2>3 DEF CallsAnnounced, Live, Parties
  <2>5. userOf'[c] = u /\ pc'[c] # "none"
    BY <2>2, StatusTypes DEF OnlineInv, OwnBinding, hubVars, Reply
  <2>6. /\ out'[c].call = id /\ out'[c].to = {c} /\ out'[c].users = <<r>>
    BY <2>2, ReplyActive DEF InviteTo
  <2>7. InviteMeant(c)'
    BY <2>3, <2>5, <2>6 DEF InviteMeant, Parties
  <2> QED BY <2>2, <2>4, <2>7, ReplyRing
<1>3. CASE \E r \in User : Busy(c, u, r)
  <2>1. PICK r \in User : Busy(c, u, r)
    BY <1>3
  <2>2. CallsAnnounced
    BY <2>1, NoCallChanges DEF Busy
  <2>3. InviteMeant(c)'
    BY <2>1, ReplyActive, OthersMeant DEF Busy, ToUsers
  <2> QED BY <2>1, <2>2, <2>3, ReplyRing DEF Busy, Asks, Receiving
<1>4. CASE \E r \in User : MutualBlockRaises(c, u, r)
  <2>1. /\ pc[c] = "recv" /\ pc' = [pc EXCEPT ![c] = "final"]
        /\ UNCHANGED <<hubVars, registryVars, out, kick, ringing, late>>
    BY <1>4 DEF MutualBlockRaises, Crash, Asks, Receiving, kickVars, historyVars
  <2>2. /\ \A p \in Proc : Active(p) => Active(p)' /\ out'[p] = out[p]
        /\ \A d \in Conn : pc[d] # "none" => pc'[d] # "none"
    BY <2>1, StatusTypes DEF Active
  <2>3. CallsAnnounced
    BY <2>1, NoCallChanges DEF registryVars
  <2>4. \A d \in Conn : d \notin conns => ringing[d] = {}
    BY DEF RingInv
  <2> QED BY <2>1, <2>2, <2>3, <2>4, ActRing, StatusTypes DEF hubVars
<1>5. CASE \E id \in Call : Ringing(c, u, id) \/ Accept(c, u, id) \/ Relay(c, u, id)
  <2>1. PICK id \in Call : Ringing(c, u, id) \/ Accept(c, u, id) \/ Relay(c, u, id)
    BY <1>5
  <2>2. /\ pc[c] = "recv" /\ UNCHANGED <<hubVars, kickVars, historyVars>>
        /\ \E us : Reply(c, ToUsers("note", id, us))
    BY <2>1, Zenon DEF Ringing, Accept, Relay, Participant, Asks, Receiving
  <2>3. \A k \in Call : Live(k)' = Live(k) /\ Parties(k)' = Parties(k)
    BY <1>0, <2>1
    DEF Ringing, Accept, Relay, MarkRinging, MarkAccepted, registryVars, Live,
        Parties, ActiveStatuses
  <2>4. CallsAnnounced
    BY <2>3 DEF CallsAnnounced
  <2>5. InviteMeant(c)'
    BY <2>2, ReplyActive, OthersMeant DEF ToUsers
  <2> QED BY <2>2, <2>4, <2>5, ReplyRing
<1>6. CASE \E id \in Call : Reject(c, u, id) \/ Hangup(c, u, id)
  <2>1. PICK id \in Call : Reject(c, u, id) \/ Hangup(c, u, id)
    BY <1>6
  <2>2. /\ pc[c] = "recv" /\ UNCHANGED <<hubVars, kickVars, historyVars>>
        /\ Live(id) /\ EndCall(id) /\ Reply(c, ToUsers("over", id, PartySeq(id)))
    BY <2>1, Zenon DEF Reject, Hangup, Participant, Asks, Receiving
  <2>3. CallsAnnounced
    BY <2>2, ReplyActive, EndAnnounced
  <2>4. InviteMeant(c)'
    BY <2>2, ReplyActive, OthersMeant DEF ToUsers
  <2> QED BY <2>2, <2>3, <2>4, ReplyRing
<1> QED BY <1>1, <1>2, <1>3, <1>4, <1>5, <1>6

\* steps that touch none of it
LEMMA IdleRing ==
  ASSUME IInv, OnlineInv, RingInv,
         UNCHANGED <<hubVars, registryVars, pc, out, kick, ringing, late>>
  PROVE  RingInv'
<1>1. \A p \in Proc : Active(p) => Active(p)' /\ out'[p] = out[p]
  BY DEF Active
<1>2. CallsAnnounced
  BY NoCallChanges DEF registryVars
<1>3. \A d \in Conn : d \notin conns => ringing[d] = {}
  BY DEF RingInv
<1> QED BY <1>1, <1>2, <1>3, ActRing, StatusTypes DEF hubVars

LEMMA OtherRing ==
  ASSUME IInv, OnlineInv, RingInv, BlockStep \/ TrafficStep PROVE RingInv'
<1>1. CASE BlockStep
  <2>1. UNCHANGED <<hubVars, registryVars, pc, out, kick, ringing, late>>
    BY <1>1 DEF BlockStep, Block, Unblock, handlerVars, kickVars, historyVars
  <2> QED BY <2>1, IdleRing
<1>2. CASE TrafficStep
  <2>0. PICK c \in Conn : \E us : OtherTraffic(c, us)
    BY <1>2, Zenon DEF TrafficStep
  <2>1. PICK us : OtherTraffic(c, us)
    BY <2>0
  <2>2. CallsAnnounced
    BY <2>1, NoCallChanges DEF OtherTraffic, registryVars
  <2>3. InviteMeant(c)'
    BY <2>1, ReplyActive, OthersMeant DEF OtherTraffic, ToSelfThen
  <2> QED BY <2>1, <2>2, <2>3, ReplyRing DEF OtherTraffic, Receiving
<1> QED BY <1>1, <1>2

LEMMA InitRing == Init => RingInv
<1> SUFFICES ASSUME Init PROVE RingInv
  OBVIOUS
<1>1. \A p \in Proc : out[p].ev = "note"
  BY DEF Init, Quiet
<1> QED BY <1>1 DEF Init, HubInit, RingInv, InviteMeant

\* Whoever got the invitation of a call and can still be reached is told of its
\* end by the fan-out that ended it, unless the invitation reached it when the
\* call was over and its end announced to everybody else.
THEOREM EndsAreAnnounced == Spec => []EndIsAnnounced
<1>1. IInv /\ IInv' /\ OnlineInv /\ RingInv /\ [Next]_vars => OnlineInv' /\ RingInv'
  <2>1. ASSUME IInv, OnlineInv, RingInv, UNCHANGED vars PROVE RingInv'
    BY <2>1, IdleRing DEF vars, handlerVars, kickVars, historyVars
  <2> QED BY <2>1, OnlineNext, SendStepRing, ConnRing, KickRing, CallRing, OtherRing
          DEF Next
<1>2. RingInv => EndIsAnnounced
  BY DEF RingInv, Informed, Tells, ToBeTold, EndIsAnnounced
<1> QED BY <1>1, <1>2, InitOnline, InitRing, Invariance, PTL DEF Spec
=============================================================================
