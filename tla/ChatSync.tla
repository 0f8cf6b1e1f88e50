------------------------------ MODULE ChatSync ------------------------------
(***************************************************************************)
(* How the messages of a session reach a client: the fan-out of the server *)
(* (src/server/app/websocket/chat_ws.py, api/v1/messages.py), the sync a   *)
(* client asks for when it has connected, its cursors                      *)
(* (src/client/managers/connection_manager.py) and its local copies        *)
(* (src/client/managers/message_manager.py, storage/database.py).          *)
(*                                                                         *)
(* The client is one device of a member who does not write in the session. *)
(* An operation commits and then awaits one send after the other, so the   *)
(* push of a committed entry to this client may be written long after, and *)
(* after those of later entries.  What was written arrives in order until  *)
(* the connection breaks, which loses the rest; the connection breaking    *)
(* after the client has received something is here the same as breaking    *)
(* once it is processed, which is before anything of the next connection.  *)
(***************************************************************************)
EXTENDS SessionLog

CONSTANTS MaxLog,      \* BOUND: entries committed
          MaxDrops,    \* BOUND: connections broken
          MaxCrashes,  \* BOUND: times the client's process ends
          Overtake     \* BOUND: FALSE keeps fan-outs in commit order

ASSUME BoundsAreNat == MaxLog \in Nat /\ MaxDrops \in Nat /\ MaxCrashes \in Nat

VARIABLES
  pend,     \* entries whose push to this client was not written yet
  link,     \* the connection: down, or bound to the user on the server
  wire,     \* what was written to it and not received
  ask,      \* the cursors of a sync_messages request not yet answered
  owed,     \* events the sync handler has read and not written yet
  cursor,   \* the client's sync cursors, persisted before an item is stored
  proc,     \* the item the client has taken and not stored yet
  store,    \* the client's messages table
  recent,   \* messages in _recent_incoming_message_ids
  drops, crashes,
  base,     \* history: the cursors the last sync was asked with
  got,      \* history: entries the client has processed
  last      \* history: of each message, the entry its copy shows

netVars == <<pend, link, wire, ask, owed>>
clientVars == <<cursor, proc, store, recent>>
historyVars == <<base, got, last>>
vars == <<logVars, netVars, clientVars, drops, crashes, historyVars>>

Cursors == [msg : Nat, event : Nat]
Row == [msg : Msg, seq : Nat, shown : Shown, at : DOMAIN log]

(* Items on the wire; an entry of the log stands for its push.             *)
AuthAck == [kind |-> "auth_ack"]
HistoryMessages(R) == [kind |-> "history_messages", rows |-> R]
HistoryEvents(E) == [kind |-> "history_events", events |-> E]
Push(i) == [kind |-> "push", at |-> i]

Idle == [kind |-> "idle"]
NoAsk == [msg |-> 0, event |-> 0, open |-> FALSE]
NotOwed == [open |-> FALSE, events |-> {}]

Item == {AuthAck} \cup [kind : {"history_messages"}, rows : SUBSET Row]
                  \cup [kind : {"history_events"}, events : SUBSET DOMAIN log]
                  \cup [kind : {"push"}, at : DOMAIN log]

TypeOK ==
  /\ LogTypeOK
  /\ pend \subseteq DOMAIN log
  /\ link \in {"down", "bound"}
  /\ wire \in Seq(Item)
  /\ ask \in [msg : Nat, event : Nat, open : BOOLEAN]
  /\ owed \in [open : BOOLEAN, events : SUBSET DOMAIN log]
  /\ cursor \in Cursors /\ base \in Cursors
  /\ proc \in Item \cup {Idle}
  /\ store \in [Msg -> Shown]
  /\ recent \subseteq Msg
  /\ drops \in 0..MaxDrops /\ crashes \in 0..MaxCrashes
  /\ got \subseteq DOMAIN log
  /\ last \in [Msg -> 0..Len(log)]

Init ==
  /\ LogInit
  /\ pend = {} /\ link = "down" /\ wire = <<>>
  /\ ask = NoAsk /\ owed = NotOwed
  /\ cursor = [msg |-> 0, event |-> 0]
  /\ proc = Idle
  /\ store = [m \in Msg |-> Nothing]
  /\ recent = {}
  /\ drops = 0 /\ crashes = 0
  /\ base = [msg |-> 0, event |-> 0]
  /\ got = {}
  /\ last = [m \in Msg |-> 0]

-----------------------------------------------------------------------------
(* The server.                                                             *)

(* Another member writes: the operation commits, and its handler has the   *)
(* push to this client still before it.                                    *)
Commit ==
  /\ Len(log) < MaxLog
  /\ LogNext
  /\ pend' = pend \cup {Len(log) + 1}
  /\ UNCHANGED <<link, wire, ask, owed, clientVars, drops, crashes,
                 historyVars>>

(* The fan-out reads the user's connections when it is the user's turn;    *)
(* without one there is nothing to send to.                                *)
WritePush(i) ==
  /\ i \in pend
  /\ Overtake \/ \A j \in pend : i <= j
  /\ pend' = pend \ {i}
  /\ wire' = IF link = "bound" THEN Append(wire, Push(i)) ELSE wire
  /\ UNCHANGED <<logVars, link, ask, owed, clientVars, drops, crashes,
                 historyVars>>

(* auth: bind_user and the first write of auth_ack have no await between.  *)
Bind ==
  /\ link = "down"
  /\ link' = "bound"
  /\ wire' = <<AuthAck>>
  /\ UNCHANGED <<logVars, pend, ask, owed, clientVars, drops, crashes,
                 historyVars>>

MissingRows(after) ==
  {[msg |-> m, seq |-> rows[m].seq, shown |-> View(m),
    at |-> CHOOSE i \in About(m) : IsNewest(i)] :
      m \in {n \in Msg : Exists(n) /\ rows[n].seq > after}}

(* Wrong on purpose: the event at the cursor is what the client saw last,  *)
(* so it is skipped twice.                                                 *)
EventsPastNext(after) ==
  {i \in DOMAIN log : log[i].kind # "chat" /\ log[i].seq > after + 1}

MissingEvents(after) ==
  {i \in DOMAIN log : log[i].kind # "chat" /\ log[i].seq > after}

(* sync_messages: both lists are read at once and history_messages is      *)
(* written; history_events waits until that send has returned.             *)
AnswerSync ==
  /\ ask.open
  /\ wire' = Append(wire, HistoryMessages(MissingRows(ask.msg)))
  /\ owed' = [open |-> TRUE, events |-> MissingEvents(ask.event)]
  /\ ask' = NoAsk
  /\ UNCHANGED <<logVars, pend, link, clientVars, drops, crashes,
                 historyVars>>

(* Wrong on purpose: history_events is sent only when there are events.    *)
SkipNoEvents ==
  /\ owed.open /\ owed.events # {}
  /\ wire' = Append(wire, HistoryEvents(owed.events))
  /\ owed' = NotOwed
  /\ UNCHANGED <<logVars, pend, link, ask, clientVars, drops, crashes,
                 historyVars>>

WriteEvents ==
  /\ owed.open
  /\ wire' = Append(wire, HistoryEvents(owed.events))
  /\ owed' = NotOwed
  /\ UNCHANGED <<logVars, pend, link, ask, clientVars, drops, crashes,
                 historyVars>>

Drop ==
  /\ link = "bound" /\ drops < MaxDrops
  /\ drops' = drops + 1
  /\ link' = "down" /\ wire' = <<>> /\ ask' = NoAsk /\ owed' = NotOwed
  /\ UNCHANGED <<logVars, pend, clientVars, crashes, historyVars>>

-----------------------------------------------------------------------------
(* The client.                                                             *)

MaxOf(S) == CHOOSE x \in S : \A y \in S : y <= x

(* The numbers an item carries.                                            *)
MessageSeqs(x) ==
  CASE x.kind = "history_messages" -> {r.seq : r \in x.rows}
    [] x.kind = "push" /\ log[x.at].kind = "chat" -> {log[x.at].seq}
    [] OTHER -> {}
EventSeqs(x) ==
  CASE x.kind = "history_events" -> {log[i].seq : i \in x.events}
    [] x.kind = "push" /\ log[x.at].kind # "chat" -> {log[x.at].seq}
    [] OTHER -> {}

(* Wrong on purpose: the cursors follow the latest item, back as well.     *)
Followed(x) ==
  [msg   |-> IF MessageSeqs(x) = {} THEN cursor.msg ELSE MaxOf(MessageSeqs(x)),
   event |-> IF EventSeqs(x) = {} THEN cursor.event ELSE MaxOf(EventSeqs(x))]

(* _advance_session_cursor, _advance_event_cursor: only ever forward.      *)
Advanced(x) ==
  [msg   |-> MaxOf({cursor.msg} \cup MessageSeqs(x)),
   event |-> MaxOf({cursor.event} \cup EventSeqs(x))]

(* auth_ack: the sync request goes out with the cursors as they are.       *)
Authenticated ==
  /\ proc = Idle /\ wire # <<>> /\ Head(wire) = AuthAck
  /\ wire' = Tail(wire)
  /\ ask' = [msg |-> cursor.msg, event |-> cursor.event, open |-> TRUE]
  /\ base' = cursor
  /\ UNCHANGED <<logVars, pend, link, owed, clientVars, drops, crashes,
                 got, last>>

(* _process_inbound_message under its lock: the cursors advance and are    *)
(* saved, then the listeners are notified.                                 *)
Take ==
  /\ proc = Idle /\ wire # <<>> /\ Head(wire) # AuthAck
  /\ wire' = Tail(wire)
  /\ proc' = Head(wire)
  /\ cursor' = Advanced(Head(wire))
  /\ UNCHANGED <<logVars, pend, link, ask, owed, store, recent, drops,
                 crashes, historyVars>>

Stored == proc' = Idle /\ UNCHANGED <<logVars, netVars, cursor, drops,
                                      crashes, base>>

(* The copy of a message after a set of entries was applied in order.      *)
Apply(E) ==
  LET newest(m) == MaxOf({i \in E : log[i].msg = m})
      touched == {log[i].msg : i \in E}
  IN /\ store' = [m \in Msg |-> IF m \in touched THEN Says(log[newest(m)])
                                ELSE store[m]]
     /\ last' = [m \in Msg |-> IF m \in touched THEN newest(m) ELSE last[m]]
     /\ got' = got \cup E

(* _process_incoming_message: a message that was received lately as well   *)
(* is ignored until its time is up, else the payload replaces the copy.    *)
StoreChat ==
  /\ proc.kind = "push" /\ log[proc.at].kind = "chat"
  /\ LET m == log[proc.at].msg
     IN \/ Apply({proc.at}) /\ recent' = recent \cup {m}
        \/ /\ m \in recent
           /\ got' = got \cup {proc.at}
           /\ UNCHANGED <<store, last, recent>>
  /\ Stored

(* _process_edit, _process_recall, _process_delete: whatever the copy was, *)
(* and whether there was one.                                              *)
StoreEvent ==
  /\ proc.kind = "push" /\ log[proc.at].kind # "chat"
  /\ Apply({proc.at})
  /\ Stored /\ UNCHANGED recent

(* _process_history_messages: only messages without a copy are saved.      *)
StoreHistory ==
  /\ proc.kind = "history_messages"
  /\ LET new == {r \in proc.rows : store[r.msg] = Nothing}
         row(m) == CHOOSE r \in new : r.msg = m
         added == {r.msg : r \in new}
     IN /\ store' = [m \in Msg |-> IF m \in added THEN row(m).shown ELSE store[m]]
        /\ last' = [m \in Msg |-> IF m \in added THEN row(m).at ELSE last[m]]
        /\ got' = got \cup {i \in DOMAIN log : log[i].kind = "chat" /\
                     \E r \in proc.rows : r.msg = log[i].msg /\ r.seq = log[i].seq}
  /\ Stored /\ UNCHANGED recent

(* _process_history_events: the batch is replayed in order.                *)
StoreEvents ==
  /\ proc.kind = "history_events"
  /\ Apply(proc.events)
  /\ Stored /\ UNCHANGED recent

(* The process ends: what it had taken and not stored is gone.             *)
Crash ==
  /\ crashes < MaxCrashes
  /\ crashes' = crashes + 1
  /\ link' = "down" /\ wire' = <<>> /\ ask' = NoAsk /\ owed' = NotOwed
  /\ proc' = Idle
  /\ recent' = {}
  /\ UNCHANGED <<logVars, pend, cursor, store, drops, historyVars>>

Next ==
  \/ Commit
  \/ \E i \in 1..MaxLog : WritePush(i)
  \/ Bind \/ AnswerSync \/ WriteEvents \/ Drop
  \/ Authenticated \/ Take
  \/ StoreChat \/ StoreEvent \/ StoreHistory \/ StoreEvents
  \/ Crash

Spec == Init /\ [][Next]_vars

(* Sends return, and the client's loop goes on while it has something.     *)
Fairness ==
  /\ WF_vars(\E i \in 1..MaxLog : WritePush(i))
  /\ WF_vars(AnswerSync) /\ WF_vars(WriteEvents)
  /\ WF_vars(Authenticated \/ Take)
  /\ WF_vars(StoreChat \/ StoreEvent \/ StoreHistory \/ StoreEvents)

FairSpec == Spec /\ Fairness

-----------------------------------------------------------------------------
(* Properties.                                                             *)

Quiet ==
  /\ link = "bound" /\ wire = <<>> /\ pend = {}
  /\ ~ask.open /\ ~owed.open /\ proc = Idle

Above(i, c) == log[i].seq > IF log[i].kind = "chat" THEN c.msg ELSE c.event

(* The entry the copy shows is the newest of those that were processed.    *)
InOrder(m) == \A i \in got \cap About(m) : i <= last[m]

(* When all is quiet, a message about which anything was committed that    *)
(* the last sync did not claim to have is shown as the server has it,      *)
(* however pushes, sync, disconnects and crashes interleaved, unless an    *)
(* older entry about it was processed after a newer one.                   *)
Converges ==
  Quiet => \A i \in DOMAIN log :
    IsNewest(i) /\ Above(i, base) /\ InOrder(log[i].msg)
      => store[log[i].msg] = View(log[i].msg)

(* The cursors never claim what the server has not committed, nor fall     *)
(* behind what the client has processed: a number is claimed before it is  *)
(* stored, never after.                                                    *)
CursorsClaimWhatWasTaken ==
  /\ cursor.msg <= msgSeq /\ cursor.event <= eventSeq
  /\ \A i \in got : ~Above(i, cursor)

(* "Persist message and event reconnect cursors as one local recovery      *)
(* point" (connection_manager.py:383): nothing at or below the cursors of  *)
(* a client that is not connected was missed, but for messages that are    *)
(* gone, since the next sync will not bring it.                            *)
CursorsAreRecoveryPoint ==
  link = "down" /\ proc = Idle /\ pend = {} =>
    \A i \in DOMAIN log :
      \/ Above(i, cursor) \/ i \in got
      \/ log[i].kind = "chat" /\ rows[log[i].msg].seq # log[i].seq

(* "Replay a batch of offline mutation events in order"                    *)
(* (message_manager.py:1945): when all is quiet and every entry about a    *)
(* message has been processed, the message is shown as the server has it.  *)
ReplayEndsCurrent ==
  Quiet => \A m \in Msg : About(m) \subseteq got => store[m] = View(m)

(* A client that stays connected settles: the sync it asked for ends and   *)
(* nothing stays on the way.                                               *)
ConnectedClientSettles == <>[](link = "bound") => <>[]Quiet
=============================================================================
