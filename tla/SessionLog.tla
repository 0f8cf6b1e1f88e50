----------------------------- MODULE SessionLog -----------------------------
(***************************************************************************)
(* The messages and events of one chat session on the server:              *)
(* MessageService (src/server/app/services/message_service.py) over        *)
(* MessageRepository (src/server/app/repositories/message_repo.py).        *)
(*                                                                         *)
(* A session numbers its messages (session_seq) and, apart from them, its  *)
(* events (event_seq); everything is kept per session, so one session is   *)
(* enough.  The message routes and the websocket handler call the service  *)
(* without an await and it commits once, so an operation is one step.      *)
(* Text, encryption and attachments are a member of Body.                  *)
(***************************************************************************)
EXTENDS Naturals, Sequences, FiniteSets

CONSTANTS Msg,    \* message ids, a uuid4 the sending client makes
          Body,   \* contents
          None    \* no content

ASSUME NoneIsNoBody == None \notin Body

VARIABLES
  rows,     \* the messages table, NoRow where there is no row
  msgSeq,   \* last_message_seq of the session
  eventSeq, \* last_event_seq of the session
  log       \* what was committed, in order.  The entry of an edit, a recall
            \* or a deletion is its row of session_events; that of a new
            \* message is history, for its row may be gone

logVars == <<rows, msgSeq, eventSeq, log>>

NoRow == [seq |-> 0, status |-> "none", body |-> None]
Statuses == {"none", "sent", "edited", "recalled"}

(* What a client shows of a message: a recalled one has no content.        *)
Shown == [status : Statuses, body : Body \cup {None}]
Nothing == [status |-> "none", body |-> None]
Recalled == [status |-> "recalled", body |-> None]

Kinds == {"chat", "edit", "recall", "delete"}
Entry == [kind : Kinds, msg : Msg, body : Body \cup {None}, seq : Nat]

LogTypeOK ==
  /\ rows \in [Msg -> [seq : Nat, status : Statuses, body : Body \cup {None}]]
  /\ msgSeq \in Nat /\ eventSeq \in Nat
  /\ log \in Seq(Entry)

LogInit ==
  /\ rows = [m \in Msg |-> NoRow]
  /\ msgSeq = 0 /\ eventSeq = 0
  /\ log = <<>>

-----------------------------------------------------------------------------

Exists(m) == rows[m].status # "none"
Mutable(m) == rows[m].status \in {"sent", "edited"}

(* _reserve_next_event_seq and the insert, in the transaction that changed *)
(* the message.                                                            *)
RecordEvent(kind, m, b) ==
  /\ eventSeq' = eventSeq + 1
  /\ log' = Append(log, [kind |-> kind, msg |-> m, body |-> b,
                         seq |-> eventSeq + 1])
  /\ UNCHANGED msgSeq

(* Wrong on purpose: numbered by the rows that are there.                  *)
CreateCounted(m, b) ==
  /\ ~Exists(m)
  /\ LET seq == Cardinality({n \in Msg : Exists(n)}) + 1
     IN /\ msgSeq' = seq
        /\ rows' = [rows EXCEPT ![m] = [seq |-> seq, status |-> "sent",
                                        body |-> b]]
        /\ log' = Append(log, [kind |-> "chat", msg |-> m, body |-> b,
                               seq |-> seq])
  /\ UNCHANGED eventSeq

(* create: a resend of a message that is there answers with the row, or    *)
(* with a conflict, and changes nothing.                                   *)
Create(m, b) ==
  /\ ~Exists(m)
  /\ msgSeq' = msgSeq + 1
  /\ rows' = [rows EXCEPT ![m] = [seq |-> msgSeq + 1, status |-> "sent",
                                  body |-> b]]
  /\ log' = Append(log, [kind |-> "chat", msg |-> m, body |-> b,
                         seq |-> msgSeq + 1])
  /\ UNCHANGED eventSeq

Edit(m, b) ==
  /\ Mutable(m)
  /\ rows' = [rows EXCEPT ![m].status = "edited", ![m].body = b]
  /\ RecordEvent("edit", m, b)

(* Wrong on purpose: the event is committed, the status is not.            *)
RecallEventOnly(m) ==
  /\ Mutable(m)
  /\ UNCHANGED rows
  /\ RecordEvent("recall", m, None)

Recall(m) ==
  /\ Mutable(m)
  /\ rows' = [rows EXCEPT ![m].status = "recalled"]
  /\ RecordEvent("recall", m, None)

(* Wrong on purpose: the row stays, marked with the status of the event.   *)
DeleteMarked(m) ==
  /\ Mutable(m)
  /\ rows' = [rows EXCEPT ![m].status = "deleted"]
  /\ RecordEvent("delete", m, None)

Delete(m) ==
  /\ Mutable(m)
  /\ rows' = [rows EXCEPT ![m] = NoRow]
  /\ RecordEvent("delete", m, None)

LogNext == \E m \in Msg :
  \/ \E b \in Body : Create(m, b) \/ Edit(m, b)
  \/ Recall(m) \/ Delete(m)

LogSpec == LogInit /\ [][LogNext]_logVars

-----------------------------------------------------------------------------

(* A row as serialize_message gives it, and what an entry alone says.      *)
View(m) == IF rows[m].status = "recalled" THEN Recalled
           ELSE [status |-> rows[m].status, body |-> rows[m].body]

Says(e) ==
  CASE e.kind = "chat"   -> [status |-> "sent", body |-> e.body]
    [] e.kind = "edit"   -> [status |-> "edited", body |-> e.body]
    [] e.kind = "recall" -> Recalled
    [] e.kind = "delete" -> Nothing

About(m) == {i \in DOMAIN log : log[i].msg = m}

(* i is the last entry about its message.                                  *)
IsNewest(i) == \A j \in About(log[i].msg) : j <= i

(***************************************************************************)
(* The log tells all: the last entry about a message says what its row     *)
(* shows, and a message without an entry has no row.  A client that        *)
(* applies the entries it missed, in order, ends with the server's table;  *)
(* offline sync (chat_ws.py:127) rests on this.                            *)
(***************************************************************************)
TableIsReplay ==
  /\ \A m \in Msg : About(m) = {} => View(m) = Nothing
  /\ \A i \in DOMAIN log : IsNewest(i) => View(log[i].msg) = Says(log[i])

(***************************************************************************)
(* The numbers a client keeps as its cursors: within a session no two      *)
(* messages and no two events share one, and none is beyond the counter    *)
(* ("session_seq gaps or duplicates, and last_message_seq drift",          *)
(* server/README.md:163).  Later entries have greater numbers, so "all     *)
(* above the cursor" is all a client has not seen.                         *)
(***************************************************************************)
NumbersIncrease ==
  /\ \A i, j \in DOMAIN log :
       i < j /\ (log[i].kind = "chat" <=> log[j].kind = "chat")
         => log[i].seq < log[j].seq
  /\ \A i \in DOMAIN log :
       log[i].seq <= IF log[i].kind = "chat" THEN msgSeq ELSE eventSeq
  /\ \A m, n \in Msg :
       Exists(m) /\ Exists(n) /\ rows[m].seq = rows[n].seq => m = n
=============================================================================
