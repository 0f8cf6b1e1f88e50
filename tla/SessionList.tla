---------------------------- MODULE SessionList -----------------------------
(***************************************************************************)
(* The list of sessions a client shows (src/client/managers/               *)
(* session_manager.py) against the private sessions, blocks and groups of  *)
(* the server: one user Me with one client, and another user Peer.         *)
(*                                                                         *)
(* Blocks, removals, leaving and deletion are told by a contact_refresh,   *)
(* which is not stored: the client answers it by fetching the whole list.  *)
(* Other changes of a group are events, which a reconnecting client gets   *)
(* again by its cursors; an event or a message of a session that is not    *)
(* listed makes the client fetch that session.  Incoming items are handled *)
(* one at a time (_message_dispatch_lock), the user's own actions beside   *)
(* them; the server may answer a fetch long before it is stored.           *)
(*                                                                         *)
(* The list in memory and its copy on disk are one: a process that ends    *)
(* between the two writes finds what it would have found ending before.    *)
(* Server and client share one clock.                                      *)
(***************************************************************************)
EXTENDS Social, Groups, Naturals, Sequences

CONSTANTS Me, Peer,
          Chat,        \* the private session of Me and Peer
          MaxBefore,   \* BOUND: operations on the server before the client
                       \* is started for the first time
          MaxEarly,    \* BOUND: those the client is started after, at most
          MaxOps,      \* BOUND: operations on the server from then on
          MaxFaults,   \* BOUND: connections broken, HTTP requests of this
                       \* client that fail, and ends of it, together
          MaxActs      \* BOUND: actions of the user at this client

ASSUME TwoUsers == Me \in User /\ Peer \in User /\ Me # Peer
ASSUME ChatIsNoGroup == Chat \notin Group
ASSUME ListBounds == {MaxBefore, MaxEarly, MaxOps, MaxFaults, MaxActs} \subseteq Nat

VARIABLES
  said,      \* messages stored in a session
  told,      \* events stored in a session
  out,       \* what handlers have still to send to Me
  wire,      \* what was sent and not received
  link,      \* down, or bound to Me on the server
  ask,       \* the cursors of a sync request not yet answered
  todo,      \* sessions the item in hand has still to introduce
  job,       \* what the dispatcher (inbox) and the user (ui) wait for
  held,      \* sessions the messages of a sync will introduce, after its events
  listed,    \* _sessions
  hidden,    \* _hidden_sessions: messages said when hidden, or NotHidden
  msgCursor, eventCursor,
  started,   \* the list was fetched since the client started
  before,     \* the client has not been started yet
  ops, faults, acts,
  drift      \* history: whether the list may differ, see Converges

serverVars == <<socialVars, groupVars, said, told, out, ops>>
netVars == <<wire, link, ask>>
clientVars == <<todo, job, held, listed, hidden, msgCursor, eventCursor,
                started, before, acts>>
vars == <<serverVars, netVars, clientVars, faults, drift>>

Session == Group \cup {Chat}
Slot == {"inbox", "ui"}
Higher(a, b) == IF a > b THEN a ELSE b
Count == 0..(MaxBefore + MaxOps + 1)
NotHidden == MaxBefore + MaxOps + 2

NoJob == [do |-> "none", session |-> Chat, n |-> 0, st |-> "none",
          ids |-> {}, said |-> [s \in Session |-> 0], passed |-> FALSE]
Job(do, s, n) ==
  [NoJob EXCEPT !.do = do, !.session = s, !.n = n, !.st = "asked"]
NoAsk == [open |-> FALSE]
Refresh(n) == [kind |-> "contact_refresh", n |-> n]
Event(g, n) == [kind |-> "group_profile_update", session |-> g, n |-> n]
Message(s, n) == [kind |-> "chat_message", session |-> s, n |-> n]

-----------------------------------------------------------------------------
(* What the server shows Me.                                               *)

Raises == MutualBlock(Me, Peer) /\ {Me, Peer} \in directs

(* get_session                                                             *)
Fetchable(s) == IF s = Chat THEN {Me, Peer} \in directs /\ Unblocked(Me, Peer)
                            ELSE Me \in members[s]

(* list_sessions: a private session without a message is left out.         *)
Listable == {s \in Session : Fetchable(s) /\ (s = Chat => said[s] > 0)}

Intro == [why : {"event", "message"}, session : Session, n : Count]
Item == [kind : {"contact_refresh"}, n : Count]
          \cup [kind : {"group_profile_update", "chat_message"},
                session : Session, n : Count]
Counts == [Session -> Count]
SlotJobs == [Slot ->
  [do : {"none", "list", "event", "message", "join", "open", "leave"},
   session : Session, n : Count,
   st : {"none", "asked", "answered", "failed"},
   ids : SUBSET Session, said : Counts, passed : BOOLEAN]]

TypeOK ==
  /\ SocialTypeOK /\ GroupsTypeOK
  /\ said \in Counts /\ told \in Counts
  /\ out \subseteq Item
  /\ link \in {"down", "bound"}
  /\ todo \subseteq Intro
  /\ job \in SlotJobs
  /\ held \subseteq Intro /\ listed \subseteq Session
  /\ hidden \in [Session -> 0..NotHidden]
  /\ msgCursor \in Counts /\ eventCursor \in Counts
  /\ started \in BOOLEAN /\ before \in BOOLEAN
  /\ ops \in 0..Higher(MaxBefore, MaxOps)
  /\ faults \in 0..MaxFaults /\ acts \in 0..MaxActs
  /\ drift \in {"none", "old", "new"}

Init ==
  /\ SocialInit /\ GroupsInit
  /\ said = [s \in Session |-> 0] /\ told = [s \in Session |-> 0]
  /\ out = {} /\ wire = <<>> /\ link = "down" /\ ask = NoAsk
  /\ todo = {} /\ job = [slot \in Slot |-> NoJob] /\ held = {}
  /\ listed = {} /\ hidden = [s \in Session |-> NotHidden]
  /\ msgCursor = [s \in Session |-> 0] /\ eventCursor = [s \in Session |-> 0]
  /\ started = FALSE /\ before = TRUE
  /\ ops = 0 /\ faults = 0 /\ acts = 0
  /\ drift = "none"

-----------------------------------------------------------------------------
(* Operations on the server, by anyone, from any client.                   *)

Counted == ops < (IF before THEN MaxBefore ELSE MaxOps) /\ ops' = ops + 1

(* Requests and friendships: the session list does not look at them, nor   *)
(* at the contact_refresh they send.  BOUND: the client is started where   *)
(* no request was made, and none is made from then on.                     *)
Befriend ==
  /\ before /\ Counted
  /\ \/ \E u, v \in User : AskFriend(u, v) \/ Unfriend(u, v)
     \/ \E r \in requests : Accept(r) \/ Reject(r) \/ AnswerTooLate(r) \/ Age(r)
  /\ UNCHANGED <<groupVars, said, told, out>>

NewRefresh == CHOOSE m \in {Refresh(n) : n \in Count} : m \notin out

(* _broadcast_block_refresh to both users, also when nothing has changed,  *)
(* which is left out.                                                      *)
Blocking ==
  /\ Counted
  /\ \E u, v \in User :
       /\ \/ <<u, v>> \notin blocks /\ BlockUser(u, v)
          \/ <<u, v>> \in blocks /\ UnblockUser(u, v)
       /\ out' = out \cup (IF Me \in {u, v} THEN {NewRefresh} ELSE {})
  /\ UNCHANGED <<groupVars, said, told>>

(* Another client of either user opens the private session.                *)
OpenChat ==
  /\ Counted
  /\ OpenDirect(Peer, Me)
  /\ UNCHANGED <<groupVars, said, told, out>>

(* record_group_profile_update_event, in a transaction after the change    *)
(* and before anything else runs: one event, sent to who is a member then; *)
(* `gone' is the member that was removed, told by contact_refresh.         *)
Publish(g, gone) ==
  /\ told' = [told EXCEPT ![g] = @ + 1]
  /\ out' = out \cup (IF Me \in members'[g] THEN {Event(g, told[g] + 1)} ELSE {})
                \cup (IF gone = Me THEN {NewRefresh} ELSE {})
  /\ UNCHANGED <<socialVars, said>>

(* The session list does not look at roles either: BOUND as for requests.  *)
ChangeGroup(g) ==
  /\ Counted
  /\ \/ \E u \in User, M \in SUBSET User : CreateGroup(u, g, M) /\ Publish(g, None)
     \/ \E u, v \in User :
          \/ AddMember(u, g, v) /\ Publish(g, None)
          \/ RemoveMember(u, g, v) /\ Publish(g, v)
          \/ TransferOwnership(u, g, v) /\ Publish(g, None)
          \/ \E role \in Role : /\ before /\ roles[g][v] # role
                                /\ UpdateRole(u, g, v, role) /\ Publish(g, None)

(* By Me, from this client.                                                *)
LeaveGroup(g) == Counted /\ RemoveMember(Me, g, Me) /\ Publish(g, Me)

(* delete_session takes the events and messages along.                     *)
EndGroup(g) ==
  /\ Counted
  /\ \E u \in User : DeleteGroup(u, g)
  /\ said' = [said EXCEPT ![g] = 0] /\ told' = [told EXCEPT ![g] = 0]
  /\ out' = out \cup (IF Me \in members[g] THEN {NewRefresh} ELSE {})
  /\ UNCHANGED socialVars

(* Peer writes to Me.  BOUND: before the client is started there is one    *)
(* message at most, in the private session, and it is not counted.         *)
Write(s) ==
  /\ IF before THEN s = Chat /\ said[s] = 0 /\ UNCHANGED ops ELSE Counted
  /\ Fetchable(s) /\ (s # Chat => Peer \in members[s])
  /\ said' = [said EXCEPT ![s] = @ + 1]
  /\ out' = out \cup {Message(s, said[s] + 1)}
  /\ UNCHANGED <<socialVars, groupVars, told>>

Server ==
  /\ \/ Befriend \/ Blocking \/ OpenChat
     \/ \E g \in Group : ChangeGroup(g) \/ EndGroup(g)
     \/ \E s \in Session : Write(s)
  /\ UNCHANGED <<netVars, clientVars, faults, drift>>

-----------------------------------------------------------------------------
(* The connection.                                                         *)

Drifts == drift' = "new"
Faulty == faults < MaxFaults /\ faults' = faults + 1

(* A handler's send to Me: without a connection it is gone.                *)
Send(m) ==
  /\ m \in out
  /\ out' = out \ {m}
  /\ IF link = "bound"
     THEN wire' = Append(wire, IF m.kind = "contact_refresh" THEN Refresh(0) ELSE m)
          /\ UNCHANGED drift
     ELSE /\ UNCHANGED wire
          /\ IF m.kind = "contact_refresh" THEN Drifts ELSE UNCHANGED drift
  /\ UNCHANGED <<socialVars, groupVars, said, told, ops, link, ask, faults,
                 clientVars>>

Connect ==
  /\ link = "down" /\ started
  /\ link' = "bound"
  /\ wire' = <<[kind |-> "auth_ack"]>>
  /\ UNCHANGED <<serverVars, ask, faults, clientVars, drift>>

(* What was not received is lost: a contact_refresh for good, and the      *)
(* events whose messages were taken already keep them from the list.       *)
Break ==
  /\ link = "bound"
  /\ Faulty
  /\ link' = "down" /\ wire' = <<>> /\ ask' = NoAsk /\ held' = {}
  /\ IF held # {} \/ \E i \in DOMAIN wire : wire[i].kind = "contact_refresh"
     THEN Drifts ELSE UNCHANGED drift
  /\ UNCHANGED <<serverVars, todo, job, listed, hidden, msgCursor, eventCursor,
                 started, before, acts>>

Within(counts, S) == [s \in Session |-> IF s \in S THEN counts[s] ELSE 0]
Missing(counts, cursors) ==
  {s \in Session : Fetchable(s) /\ counts[s] > cursors[s]}

(* sync_messages.  Filtering what Me may see raises where the list does,   *)
(* which ends the connection.                                              *)
AnswerSync ==
  /\ ask.open
  /\ ask' = NoAsk
  /\ IF Raises /\ said[Chat] > ask.msg[Chat]
     THEN link' = "down" /\ wire' = <<>>
          /\ IF \E i \in DOMAIN wire : wire[i].kind = "contact_refresh"
             THEN Drifts ELSE UNCHANGED drift
     ELSE /\ LET batch(kind, counts, cursors) ==
                   [kind |-> kind, ids |-> Missing(counts, cursors),
                    upto |-> Within(counts, Missing(counts, cursors))]
             IN wire' = wire \o <<batch("history_messages", said, ask.msg),
                                  batch("history_events", told, ask.event)>>
          /\ UNCHANGED <<link, drift>>
  /\ UNCHANGED <<serverVars, faults, clientVars>>

-----------------------------------------------------------------------------
(* The dispatcher of the client takes one item at a time.                  *)

Ready == todo = {} /\ job["inbox"] = NoJob
(* What is taken and done with may be newer than the answer the user waits *)
(* for.                                                                    *)
Passing(jobs) == [jobs EXCEPT !["ui"].passed = @ \/ jobs["ui"].st = "answered"]

(* auth_ack: the cursors are read and sent.                                *)
AskSync ==
  /\ Ready /\ wire # <<>> /\ Head(wire).kind = "auth_ack"
  /\ wire' = Tail(wire)
  /\ ask' = [open |-> TRUE, msg |-> msgCursor, event |-> eventCursor]
  /\ UNCHANGED <<serverVars, link, faults, clientVars, drift>>

(* _process_inbound_message: the cursors are moved, and saved, before what *)
(* was received is handled.                                                *)
Advance(x) ==
  LET past(cursor, counts, ids) ==
        [s \in Session |-> IF s \in ids THEN Higher(cursor[s], counts[s])
                                       ELSE cursor[s]]
      one == [s \in Session |-> x.n]
  IN /\ msgCursor' = CASE x.kind = "chat_message" -> past(msgCursor, one, {x.session})
                       [] x.kind = "history_messages" -> past(msgCursor, x.upto, x.ids)
                       [] OTHER -> msgCursor
     /\ eventCursor' =
          CASE x.kind = "group_profile_update" -> past(eventCursor, one, {x.session})
            [] x.kind = "history_events" -> past(eventCursor, x.upto, x.ids)
            [] OTHER -> eventCursor

(* Wrong on purpose: a sync introduces the sessions of its events only.    *)
TakeEventsOnly ==
  LET x == Head(wire)
  IN /\ Ready /\ wire # <<>> /\ x.kind # "auth_ack"
     /\ wire' = Tail(wire)
     /\ Advance(x)
     /\ job' = IF x.kind = "contact_refresh"
               THEN Passing([job EXCEPT !["inbox"] = Job("list", Chat, 0)])
               ELSE Passing(job)
     /\ todo' =
          CASE x.kind = "chat_message" ->
                 {[why |-> "message", session |-> x.session, n |-> x.n]}
            [] x.kind = "group_profile_update" ->
                 {[why |-> "event", session |-> x.session, n |-> 0]}
            [] x.kind = "history_events" ->
                 {[why |-> "event", session |-> s, n |-> 0] : s \in x.ids}
            [] OTHER -> {}
     /\ UNCHANGED <<serverVars, link, ask, held, listed, hidden, started, before,
                    acts, faults, drift>>

(* _on_contact_sync_required fetches the list; events and messages         *)
(* introduce their sessions; the messages of a sync wait until its events  *)
(* were replayed.                                                          *)
Take ==
  LET x == Head(wire)
  IN /\ Ready /\ wire # <<>> /\ x.kind # "auth_ack"
     /\ wire' = Tail(wire)
     /\ Advance(x)
     /\ job' = IF x.kind = "contact_refresh"
               THEN Passing([job EXCEPT !["inbox"] = Job("list", Chat, 0)])
               ELSE Passing(job)
     /\ todo' =
          CASE x.kind = "chat_message" ->
                 {[why |-> "message", session |-> x.session, n |-> x.n]}
            [] x.kind = "group_profile_update" ->
                 {[why |-> "event", session |-> x.session, n |-> 0]}
            [] x.kind = "history_events" ->
                 {[why |-> "event", session |-> s, n |-> 0] : s \in x.ids} \cup held
            [] OTHER -> {}
     /\ held' = CASE x.kind = "history_messages" ->
                       {[why |-> "message", session |-> s, n |-> x.upto[s]] :
                          s \in x.ids}
                  [] x.kind = "history_events" -> {}
                  [] OTHER -> held
     /\ UNCHANGED <<serverVars, link, ask, listed, hidden, started, before,
                    acts, faults, drift>>

(* _ensure_session_exists, _on_group_updated: nothing for a session that   *)
(* is listed, else it is fetched; a message joins the fetch of a group the *)
(* user is opening.                                                        *)
Introduce(i) ==
  /\ i \in todo /\ job["inbox"] = NoJob
  /\ i.why = "message" => \A o \in todo : o.why = "message"
  /\ todo' = todo \ {i}
  /\ job' = IF i.session \in listed THEN Passing(job)
            ELSE IF i.why = "message" /\ job["ui"].do = "open"
                    /\ job["ui"].session = i.session /\ i.session # Chat
            THEN [job EXCEPT !["inbox"] = Job("join", i.session, i.n)]
            ELSE [job EXCEPT !["inbox"] = Job(i.why, i.session, i.n)]
  /\ UNCHANGED <<serverVars, netVars, held, listed, hidden, msgCursor,
                 eventCursor, started, before, acts, faults, drift>>

-----------------------------------------------------------------------------
(* HTTP: the answer is made at one moment and used at a later one.         *)

Other(slot) == CHOOSE o \in Slot : o # slot

Answered(slot, ids) ==
  job' = [job EXCEPT ![slot].st = "answered", ![slot].ids = ids,
                     ![slot].said = Within(said, ids)]
Failed(slot) == job' = [job EXCEPT ![slot].st = "failed"]

Serving == UNCHANGED <<netVars, todo, held, listed, hidden, msgCursor,
                       eventCursor, started, before, acts>>

(* A list asked for now repairs what went wrong before.                    *)
ServeList(slot) ==
  /\ job[slot].do = "list" /\ job[slot].st = "asked"
  /\ IF Raises THEN Failed(slot) /\ Drifts
     ELSE /\ Answered(slot, Listable)
          /\ drift' = IF drift = "new" /\ job[Other(slot)] = NoJob THEN "old"
                      ELSE drift
  /\ UNCHANGED <<serverVars, faults>> /\ Serving

ServeFetch(slot) ==
  LET s == job[slot].session
  IN /\ \/ job[slot].do \in {"event", "message"}
        \/ job[slot].do = "open" /\ s # Chat
     /\ job[slot].st = "asked"
     /\ IF Fetchable(s) THEN Answered(slot, {s}) ELSE Failed(slot)
     /\ UNCHANGED <<serverVars, faults, drift>> /\ Serving

(* ensure_direct_session: Chat is made when it is not there.               *)
ServeOpen ==
  /\ job["ui"].do = "open" /\ job["ui"].session = Chat /\ job["ui"].st = "asked"
  /\ IF Unblocked(Me, Peer)
     THEN OpenDirect(Me, Peer) /\ Answered("ui", {Chat})
     ELSE Failed("ui") /\ UNCHANGED socialVars
  /\ UNCHANGED <<groupVars, said, told, out, ops, faults, drift>> /\ Serving

ServeLeave ==
  LET g == job["ui"].session
  IN /\ job["ui"].do = "leave" /\ job["ui"].st = "asked"
     /\ IF Me \in members[g]
        THEN /\ IF owner[g] = Me THEN EndGroup(g)
                                 ELSE LeaveGroup(g)
             /\ Answered("ui", {g})
        ELSE Failed("ui") /\ UNCHANGED serverVars
     /\ UNCHANGED <<faults, drift>> /\ Serving

(* The request fails, whether it reached the server or not.                *)
FailHttp(slot) ==
  /\ job[slot].st = "asked"
  /\ Faulty
  /\ Failed(slot)
  /\ IF job[slot].do \in {"list", "event"} THEN Drifts ELSE UNCHANGED drift
  /\ UNCHANGED serverVars /\ Serving

-----------------------------------------------------------------------------
(* What is done with the answer.                                           *)

Hidden(s, n) == hidden[s] # NotHidden /\ n <= hidden[s]
Forgotten(cursor, S) == Within(cursor, Session \ S)

(* The job is over; a message that waited for it leaves it at that.        *)
Over(slot) ==
  /\ job[slot].st \in {"answered", "failed"}
  /\ LET rest == [job EXCEPT ![slot] = NoJob]
     IN job' = IF slot = "inbox" THEN Passing(rest)
               ELSE IF rest["inbox"].do = "join"
               THEN [rest EXCEPT !["inbox"] = NoJob] ELSE rest
  /\ UNCHANGED <<serverVars, netVars, todo, held, before, acts, faults>>

(* refresh_remote_sessions, _replace_sessions: sessions hidden since the   *)
(* last message stay hidden; cursors of sessions not listed are dropped.   *)
StoreList(slot) ==
  LET shown == {s \in job[slot].ids : ~Hidden(s, job[slot].said[s])}
  IN /\ job[slot].do = "list" /\ Over(slot)
     /\ started' = (started \/ slot = "ui")
     /\ IF job[slot].st = "answered"
        THEN /\ listed' = shown
             /\ hidden' = [s \in Session |-> IF s \in shown THEN NotHidden
                                                        ELSE hidden[s]]
             /\ msgCursor' = Forgotten(msgCursor, Session \ shown)
             /\ eventCursor' = Forgotten(eventCursor, Session \ shown)
             /\ drift' = IF job[slot].passed THEN "new"
                         ELSE IF drift = "old" THEN "none" ELSE drift
        ELSE UNCHANGED <<listed, hidden, msgCursor, eventCursor, drift>>

(* Wrong on purpose: what was hidden and is shown leaves the table.        *)
CachePops(s, n) ==
  /\ listed' = IF Hidden(s, n) THEN listed ELSE listed \cup {s}
  /\ hidden' = IF Hidden(s, n) THEN hidden
               ELSE [x \in Session \ {s} |-> hidden[x]]

(* _cache_session *)
Cache(s, n) ==
  /\ listed' = IF Hidden(s, n) THEN listed ELSE listed \cup {s}
  /\ hidden' = IF Hidden(s, n) THEN hidden ELSE [hidden EXCEPT ![s] = NotHidden]

Storing == UNCHANGED <<msgCursor, eventCursor, started>>

(* _fetch_and_remember_session *)
StoreEvent ==
  LET j == job["inbox"]
  IN /\ j.do = "event" /\ Over("inbox")
     /\ IF j.st = "answered" THEN Cache(j.session, j.said[j.session])
                             ELSE UNCHANGED <<listed, hidden>>
     /\ UNCHANGED drift /\ Storing

(* _fetch_or_build_session: when the fetch fails, whatever the reason, the *)
(* session is made up from the message.                                    *)
StoreMessage ==
  LET j == job["inbox"]
      s == j.session
  IN /\ j.do = "message" /\ Over("inbox")
     /\ IF s \in listed THEN UNCHANGED <<listed, hidden>>
        ELSE Cache(s, IF j.st = "answered" THEN Higher(j.said[s], j.n) ELSE j.n)
     /\ IF j.st = "failed" /\ ~Fetchable(s) THEN Drifts ELSE UNCHANGED drift
     /\ Storing

(* _remember_explicitly_requested_session: hidden or not.  A message may   *)
(* have joined the fetch before it failed or after: it makes up no session.*)
StoreOpen ==
  LET j == job["ui"]
  IN /\ j.do = "open" /\ Over("ui")
     /\ IF j.st = "answered"
        THEN /\ listed' = listed \cup {j.session}
             /\ hidden' = [hidden EXCEPT ![j.session] = NotHidden]
             /\ IF j.passed THEN Drifts ELSE UNCHANGED drift
        ELSE /\ UNCHANGED <<listed, hidden>>
             /\ IF job["inbox"].do = "join" /\ Fetchable(j.session)
                THEN Drifts ELSE UNCHANGED drift
     /\ Storing

(* remove_session: what has been written so far does not bring it back.    *)
(* The fetch of a message that would is cancelled, which is also the end   *)
(* of the messages of a sync that come after it.                           *)
Hide(s) ==
  LET cancelled == job["inbox"].do = "message" /\ job["inbox"].session = s
  IN /\ listed' = listed \ {s}
     /\ hidden' = [hidden EXCEPT ![s] = said[s]]
     /\ msgCursor' = IF s \in listed THEN Forgotten(msgCursor, {s}) ELSE msgCursor
     /\ eventCursor' = IF s \in listed THEN Forgotten(eventCursor, {s})
                                       ELSE eventCursor
     /\ job' = [job EXCEPT !["ui"] = NoJob,
                           !["inbox"] = IF cancelled THEN NoJob ELSE @]
     /\ todo' = IF cancelled THEN {} ELSE todo
     /\ IF cancelled /\ todo # {} THEN Drifts ELSE UNCHANGED drift
     /\ UNCHANGED <<serverVars, netVars, held, started, before, faults>>

(* _leave_group_async, _delete_group_async                                 *)
StoreLeave ==
  /\ job["ui"].do = "leave"
  /\ \/ job["ui"].st = "answered" /\ Hide(job["ui"].session) /\ UNCHANGED acts
     \/ /\ Over("ui") /\ job["ui"].st = "failed"
        /\ UNCHANGED <<listed, hidden, drift>> /\ Storing

-----------------------------------------------------------------------------
(* The user, one thing at a time, and the client's process.                *)

Begins(do, s) ==
  /\ job["ui"] = NoJob
  /\ job' = [job EXCEPT !["ui"] = Job(do, s, 0)]
  /\ UNCHANGED <<socialVars, groupVars, said, told, out, netVars, todo, held,
                 listed, hidden, msgCursor, eventCursor, started, faults>>

(* _synchronize_authenticated_runtime: the connection is made afterwards.  *)
Start ==
  /\ ~started /\ Begins("list", Chat)
  /\ before => /\ requests = {} /\ \A g \in Group, u \in User : roles[g][u] # "admin"
               /\ out = {} /\ ops <= MaxEarly
  /\ before' = FALSE
  /\ ops' = IF before THEN 0 ELSE ops
  /\ drift' = IF before THEN "none" ELSE drift
  /\ UNCHANGED acts

Act == started /\ acts < MaxActs /\ acts' = acts + 1

Asks(do, s) == Act /\ Begins(do, s) /\ UNCHANGED <<before, ops, drift>>
RefreshList == Asks("list", Chat)
OpenSession(s) == s \notin listed /\ Asks("open", s)
Leave(g) == g \in listed /\ Asks("leave", g)
HideSession(s) == Act /\ s \in listed /\ job["ui"] = NoJob /\ Hide(s)

(* The process ends and is started again.                                  *)
Restart ==
  /\ ~before /\ Faulty
  /\ link' = "down" /\ wire' = <<>> /\ ask' = NoAsk
  /\ todo' = {} /\ held' = {} /\ job' = [slot \in Slot |-> NoJob]
  /\ started' = FALSE
  /\ Drifts
  /\ UNCHANGED <<serverVars, listed, hidden, msgCursor, eventCursor, before,
                 acts>>

-----------------------------------------------------------------------------
Net == \/ \E m \in out : Send(m)
       \/ Connect \/ Break \/ AnswerSync
Inbox == AskSync \/ Take \/ \E i \in todo : Introduce(i)
Http == \/ \E slot \in Slot : ServeList(slot) \/ ServeFetch(slot) \/ FailHttp(slot)
        \/ ServeOpen \/ ServeLeave
Store == \/ \E slot \in Slot : StoreList(slot)
         \/ StoreEvent \/ StoreMessage \/ StoreOpen \/ StoreLeave
UserStep == \/ Start \/ RefreshList \/ Restart
            \/ \E s \in Session : OpenSession(s) \/ HideSession(s)
            \/ \E g \in Group : Leave(g)

Next == Server \/ Net \/ Inbox \/ Http \/ Store \/ UserStep

Spec == Init /\ [][Next]_vars

-----------------------------------------------------------------------------
(* Properties.                                                             *)

Quiet ==
  /\ link = "bound" /\ wire = <<>> /\ out = {} /\ ~ask.open
  /\ todo = {} /\ held = {} /\ job = [slot \in Slot |-> NoJob]

(* A client that is connected and has nothing left to do lists no session  *)
(* the server would not show, and every session the server lists but those *)
(* the user has hidden since the last message; unless, since the last      *)
(* list, a contact_refresh was lost, a request failed, messages of a sync  *)
(* were lost on the way to the list, a message was pushed after its reader *)
(* was removed, or an answer to the user was overtaken.                    *)
Converges ==
  Quiet /\ drift = "none" =>
    /\ \A s \in listed : Fetchable(s)
    /\ \A s \in Listable \ listed : Hidden(s, said[s])
=============================================================================
