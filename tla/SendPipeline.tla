---------------------------- MODULE SendPipeline ----------------------------
(***************************************************************************)
(* How a client sends messages (src/client/managers/message_manager.py):   *)
(* the pending map, the queue and its worker, the loop that looks for late *)
(* acknowledgements, retries by the user, acknowledgements and errors from *)
(* the server, and the end of the client; with the transport below         *)
(* (connection_manager.py, websocket_client.py) and the server's handler   *)
(* of chat_message (src/server/app/websocket/chat_ws.py) at the other end. *)
(*                                                                         *)
(* Everything of the client runs on one event loop: an action is what runs *)
(* between two awaits at which something else may change.  Time is left    *)
(* out: what waits for a timeout may see it at any moment.  The link is up *)
(* when the connection is authenticated.                                   *)
(***************************************************************************)
EXTENDS Naturals, Sequences

CONSTANTS
  Msg,          \* message ids
  Call,         \* invocations of send_message and retry_message
  None,
  MaxAttempts,  \* _max_attempts
  MaxFaults     \* BOUND: connections broken, refusals of the server that
                \* begin, and ends of the client, together

ASSUME SendBounds == MaxAttempts \in Nat \ {0} /\ MaxFaults \in Nat
ASSUME NoneIsNoCall == None \notin Call \cup Msg

VARIABLES
  row,       \* status of each message in the messages table
  call,      \* each invocation: its message and how far it is
  pend,      \* _pending_messages: the invocation that put the entry there,
             \* attempt_count and awaiting_ack
  queue,     \* MessageSendQueue._queue
  worker,    \* what its worker is doing, and for which message
  check,     \* what a pass of _check_pending_messages has still to do
  handler,   \* the acknowledgement or error being processed
  running,   \* up, closing or down
  link,      \* the connection
  wire,      \* written by the client and not handled by the server
  back,      \* written by the server and not taken by the client
  late,      \* handed to a broken connection, may still reach the server
  allowed,   \* the server accepts what the sender sends to the session
  log,       \* messages the server has stored, in order
  faults,    \* faults so far
  asked,     \* history: messages in the order they were first queued
  delayed,   \* history: queued a second time, or on the wire when it broke
  settled    \* history: acknowledged with nothing else under way about them

clientVars == <<row, call, pend, queue, worker, check, handler, running>>
netVars == <<link, wire, back, late>>
serverVars == <<allowed, log>>
historyVars == <<asked, delayed, settled>>
vars == <<clientVars, netVars, serverVars, faults, historyVars>>

Status == {"none", "sending", "sent", "failed"}
Idle == [st |-> "idle"]
Busy(st, m) == [st |-> st, msg |-> m]
Free == [st |-> "free", msg |-> None]
NoCheck == [retry |-> {}, fail |-> {}]
NoEntry == [by |-> None, n |-> 0, wait |-> FALSE]

Stored == {log[i] : i \in DOMAIN log}
Queued == {queue[i] : i \in DOMAIN queue}
Asked == {asked[i] : i \in DOMAIN asked}

TypeOK ==
  /\ row \in [Msg -> Status]
  /\ call \in [Call -> [st : {"free", "read", "saved", "done"},
                        msg : Msg \cup {None}]]
  /\ pend \in [Msg -> [by : Call \cup {None}, n : Nat, wait : BOOLEAN]]
  /\ queue \in Seq(Msg)
  /\ worker \in {Idle}
       \cup [st : {"sending", "wrote", "refused", "giving_up"}, msg : Msg]
       \cup [st : {"napping"}, msg : Msg, by : Call]
  /\ check \in [retry : SUBSET Msg, fail : SUBSET Msg]
  /\ handler \in {Idle} \cup [st : {"ack", "error"}, msg : Msg]
  /\ running \in {"up", "closing", "down"}
  /\ link \in BOOLEAN
  /\ wire \in Seq(Msg)
  /\ back \in Seq([kind : {"ack", "error"}, msg : Msg])
  /\ late \subseteq Msg
  /\ allowed \in BOOLEAN
  /\ log \in Seq(Msg)
  /\ faults \in 0..MaxFaults
  /\ asked \in Seq(Msg)
  /\ delayed \subseteq Msg
  /\ settled \subseteq Msg

Init ==
  /\ row = [m \in Msg |-> "none"]
  /\ call = [c \in Call |-> Free]
  /\ pend = [m \in Msg |-> NoEntry]
  /\ queue = <<>> /\ worker = Idle /\ check = NoCheck /\ handler = Idle
  /\ running = "up"
  /\ link = FALSE /\ wire = <<>> /\ back = <<>> /\ late = {}
  /\ allowed = TRUE /\ log = <<>>
  /\ faults = 0
  /\ asked = <<>> /\ delayed = {} /\ settled = {}

Pending(m) == pend[m].by # None

-----------------------------------------------------------------------------
(* The user.                                                               *)

(* send_message: the row is saved before anything is queued.               *)
SendMessage(c, m) ==
  /\ running = "up" /\ call[c].st = "free" /\ row[m] = "none"
  /\ row' = [row EXCEPT ![m] = "sending"]
  /\ call' = [call EXCEPT ![c] = [st |-> "saved", msg |-> m]]
  /\ UNCHANGED <<pend, queue, worker, check, handler, running, netVars,
                 serverVars, faults, historyVars>>

(* retry_message: only for a message that is failed when it is read; the   *)
(* upload of an attachment may follow before anything is saved.            *)
RetryMessage(c, m) ==
  /\ running = "up" /\ call[c].st = "free" /\ row[m] = "failed"
  /\ call' = [call EXCEPT ![c] = [st |-> "read", msg |-> m]]
  /\ UNCHANGED <<row, pend, queue, worker, check, handler, running, netVars,
                 serverVars, faults, historyVars>>

SaveRetry(c) ==
  /\ call[c].st = "read"
  /\ row' = [row EXCEPT ![call[c].msg] = "sending"]
  /\ call' = [call EXCEPT ![c].st = "saved"]
  /\ settled' = settled \ {call[c].msg}
  /\ UNCHANGED <<pend, queue, worker, check, handler, running, netVars,
                 serverVars, faults, asked, delayed>>

(* The entry replaces one that is there; the message is queued once more.  *)
Enqueue(c) ==
  LET m == call[c].msg
  IN /\ call[c].st = "saved"
     /\ pend' = [pend EXCEPT ![m] = [by |-> c, n |-> 0, wait |-> FALSE]]
     /\ queue' = Append(queue, m)
     /\ call' = [call EXCEPT ![c].st = "done"]
     /\ IF m \in Asked THEN delayed' = delayed \cup {m} /\ UNCHANGED asked
        ELSE asked' = Append(asked, m) /\ UNCHANGED delayed
     /\ UNCHANGED <<row, worker, check, handler, running, netVars,
                    serverVars, faults, settled>>

-----------------------------------------------------------------------------
(* The worker of the queue: one message at a time, also while it closes.   *)

Working == UNCHANGED <<call, check, handler, running, late, serverVars,
                       faults, asked, settled>>

(* Wrong on purpose: the last of the queue is taken.                       *)
TakeLast ==
  /\ worker = Idle /\ queue # <<>> /\ running # "down"
  /\ worker' = Busy("sending", queue[Len(queue)])
  /\ queue' = SubSeq(queue, 1, Len(queue) - 1)
  /\ UNCHANGED <<row, pend, link, wire, back, delayed>> /\ Working

TakeQueued ==
  /\ worker = Idle /\ queue # <<>> /\ running # "down"
  /\ worker' = Busy("sending", Head(queue))
  /\ queue' = Tail(queue)
  /\ UNCHANGED <<row, pend, link, wire, back, delayed>> /\ Working

(* ConnectionManager.send: nothing is written while the connection is not  *)
(* authenticated; a send that times out may have been written all the same.*)
Transmit(ok, written) ==
  /\ worker.st = "sending"
  /\ ok => written
  /\ written => link
  /\ worker' = Busy(IF ok THEN "wrote" ELSE "refused", worker.msg)
  /\ wire' = IF written THEN Append(wire, worker.msg) ELSE wire
  /\ UNCHANGED <<row, pend, queue, link, back, delayed>> /\ Working

(* Wrong on purpose: what was written counts as sent.                      *)
WroteIsSent ==
  /\ worker.st = "wrote"
  /\ worker' = Idle
  /\ row' = [row EXCEPT ![worker.msg] = "sent"]
  /\ pend' = IF Pending(worker.msg)
             THEN [pend EXCEPT ![worker.msg].n = @ + 1,
                               ![worker.msg].wait = TRUE]
             ELSE pend
  /\ UNCHANGED <<queue, link, wire, back, delayed>> /\ Working

(* Wrong on purpose: an entry that is gone is put back.                    *)
ReportRevives ==
  LET m == worker.msg
      c == CHOOSE x \in Call : call[x] = [st |-> "done", msg |-> m]
  IN /\ worker.st = "wrote"
     /\ worker' = Idle
     /\ pend' = [pend EXCEPT ![m] = [by |-> c, n |-> @.n + 1, wait |-> TRUE]]
     /\ UNCHANGED <<row, queue, link, wire, back, delayed>> /\ Working

(* _handle_send_attempt_result, success: the wait for the acknowledgement  *)
(* begins, unless it has been received or refused already.                 *)
ReportWritten ==
  /\ worker.st = "wrote"
  /\ worker' = Idle
  /\ pend' = IF Pending(worker.msg)
             THEN [pend EXCEPT ![worker.msg].n = @ + 1,
                               ![worker.msg].wait = TRUE]
             ELSE pend
  /\ UNCHANGED <<row, queue, link, wire, back, delayed>> /\ Working

MayRetry(m) == pend[m].n + 1 < MaxAttempts /\ running = "up"

(* _handle_transport_failure: nothing for an entry that is gone,           *)
ReportStray ==
  /\ worker.st = "refused" /\ ~Pending(worker.msg)
  /\ worker' = Idle
  /\ UNCHANGED <<row, pend, queue, link, wire, back, delayed>> /\ Working

(* Wrong on purpose: a failed attempt is not counted.                      *)
NapUncounted ==
  LET m == worker.msg
  IN /\ worker.st = "refused" /\ Pending(m) /\ MayRetry(m)
     /\ worker' = [st |-> "napping", msg |-> m, by |-> pend[m].by]
     /\ pend' = [pend EXCEPT ![m].wait = FALSE]
     /\ UNCHANGED <<row, queue, link, wire, back, delayed>> /\ Working

(* two seconds of sleep before the next attempt,                           *)
ReportRefused ==
  LET m == worker.msg
  IN /\ worker.st = "refused" /\ Pending(m) /\ MayRetry(m)
     /\ worker' = [st |-> "napping", msg |-> m, by |-> pend[m].by]
     /\ pend' = [pend EXCEPT ![m].n = @ + 1, ![m].wait = FALSE]
     /\ UNCHANGED <<row, queue, link, wire, back, delayed>> /\ Working

(* or the end: the entry is removed, and the failure saved afterwards.     *)
ReportExhausted ==
  LET m == worker.msg
  IN /\ worker.st = "refused" /\ Pending(m) /\ ~MayRetry(m)
     /\ worker' = Busy("giving_up", m)
     /\ pend' = [pend EXCEPT ![m] = NoEntry]
     /\ UNCHANGED <<row, queue, link, wire, back, delayed>> /\ Working

(* Wrong on purpose: queued again only when nothing else is queued.        *)
NapEndsBehind ==
  /\ worker.st = "napping"
  /\ queue' = IF pend[worker.msg].by = worker.by /\ queue = <<>>
              THEN Append(queue, worker.msg) ELSE queue
  /\ worker' = Idle
  /\ UNCHANGED <<row, pend, link, wire, back, delayed>> /\ Working

(* After the sleep the message goes to the end of the queue, if the entry  *)
(* is still the same; if the client is closing it is given up.             *)
NapEnds ==
  LET m == worker.msg
      same == pend[m].by = worker.by
  IN /\ worker.st = "napping"
     /\ IF same /\ running = "up"
        THEN queue' = Append(queue, m) /\ delayed' = delayed \cup {m}
        ELSE UNCHANGED <<queue, delayed>>
     /\ worker' = IF same /\ running # "up" THEN Busy("giving_up", m) ELSE Idle
     /\ pend' = IF same /\ running # "up" THEN [pend EXCEPT ![m] = NoEntry]
                ELSE pend
     /\ UNCHANGED <<row, link, wire, back>> /\ Working

(* _finalize_pending_failure                                               *)
SaveGivenUp ==
  /\ worker.st = "giving_up"
  /\ row' = [row EXCEPT ![worker.msg] = "failed"]
  /\ worker' = Idle
  /\ UNCHANGED <<pend, queue, link, wire, back, delayed>> /\ Working

-----------------------------------------------------------------------------
(* _check_pending_messages: one pass, then its retries, then its failures. *)

Checking == UNCHANGED <<call, worker, handler, running, netVars, serverVars,
                        faults, asked, settled>>

CheckPending(T) ==
  LET again == {m \in T : pend[m].n < MaxAttempts}
  IN /\ running = "up" /\ check = NoCheck /\ T # {}
     /\ \A m \in T : pend[m].wait
     /\ check' = [retry |-> again, fail |-> T \ again]
     /\ pend' = [m \in Msg |-> IF m \in again THEN [pend[m] EXCEPT !.wait = FALSE]
                               ELSE IF m \in T THEN NoEntry ELSE pend[m]]
     /\ UNCHANGED <<row, queue, delayed>> /\ Checking

CheckRetry(m) ==
  /\ m \in check.retry /\ running # "down"
  /\ check' = [check EXCEPT !.retry = @ \ {m}]
  /\ queue' = Append(queue, m) /\ delayed' = delayed \cup {m}
  /\ UNCHANGED <<row, pend>> /\ Checking

CheckFail(m) ==
  /\ check.retry = {} /\ m \in check.fail /\ running # "down"
  /\ check' = [check EXCEPT !.fail = @ \ {m}]
  /\ row' = [row EXCEPT ![m] = "failed"]
  /\ UNCHANGED <<pend, queue, delayed>> /\ Checking

-----------------------------------------------------------------------------
(* What comes back, one at a time (_message_dispatch_lock).                *)

Handling == UNCHANGED <<queue, worker, check, call, running, link, wire,
                        late, serverVars, faults>>

(* _process_ack, _process_error: the entry is removed first.               *)
TakeAnswer ==
  /\ running # "down" /\ handler = Idle /\ back # <<>>
  /\ LET x == Head(back)
     IN /\ handler' = Busy(x.kind, x.msg)
        /\ pend' = [pend EXCEPT ![x.msg] = NoEntry]
        /\ settled' = IF x.kind = "error" THEN settled \ {x.msg} ELSE settled
  /\ back' = Tail(back)
  /\ UNCHANGED <<row, asked, delayed>> /\ Handling

(* Something else under way that will write the row of the message.        *)
UnderWay(m) ==
  \/ Pending(m) \/ m \in check.fail
  \/ worker = Busy("giving_up", m)
  \/ \E c \in Call : call[c].msg = m /\ call[c].st \in {"read", "saved"}

SaveAcknowledged ==
  /\ handler.st = "ack"
  /\ row' = [row EXCEPT ![handler.msg] = "sent"]
  /\ settled' = IF UnderWay(handler.msg) THEN settled
                ELSE settled \cup {handler.msg}
  /\ handler' = Idle
  /\ UNCHANGED <<pend, back, asked, delayed>> /\ Handling

(* Wrong on purpose: the row takes the name of the event.                  *)
SaveErrorName ==
  /\ handler.st = "error"
  /\ row' = [row EXCEPT ![handler.msg] = "error"]
  /\ handler' = Idle
  /\ UNCHANGED <<pend, back, historyVars>> /\ Handling

SaveError ==
  /\ handler.st = "error"
  /\ row' = [row EXCEPT ![handler.msg] = "failed"]
  /\ handler' = Idle
  /\ UNCHANGED <<pend, back, historyVars>> /\ Handling

-----------------------------------------------------------------------------
(* The transport and the server.                                           *)

Connect ==
  /\ ~link /\ running = "up"
  /\ link' = TRUE
  /\ UNCHANGED <<clientVars, wire, back, late, serverVars, faults,
                 historyVars>>

OnWire == {wire[i] : i \in DOMAIN wire}

(* What was written may be lost, or be read by the server all the same.    *)
Broken(S) ==
  /\ S \subseteq OnWire
  /\ link' = FALSE /\ wire' = <<>> /\ back' = <<>>
  /\ late' = late \cup S /\ delayed' = delayed \cup S
  /\ UNCHANGED <<asked, settled>>

Drop(S) ==
  /\ link /\ faults < MaxFaults
  /\ faults' = faults + 1
  /\ Broken(S)
  /\ UNCHANGED <<clientVars, serverVars>>

Store(m) == log' = IF m \in Stored THEN log ELSE Append(log, m)

(* Wrong on purpose: a refused message is acknowledged too.                *)
AckAnyway ==
  LET m == Head(wire)
  IN /\ wire # <<>>
     /\ wire' = Tail(wire)
     /\ back' = Append(back, [kind |-> "ack", msg |-> m])
     /\ IF allowed THEN Store(m) ELSE UNCHANGED log
     /\ UNCHANGED <<clientVars, link, late, allowed, faults, historyVars>>

(* chat_message: membership is checked first, also for a message that is   *)
(* stored; a repeated one is acknowledged again and not stored twice.      *)
Serve ==
  LET m == Head(wire)
      answer == IF allowed THEN "ack" ELSE "error"
  IN /\ wire # <<>>
     /\ wire' = Tail(wire)
     /\ back' = Append(back, [kind |-> answer, msg |-> m])
     /\ IF allowed THEN Store(m) ELSE UNCHANGED log
     /\ UNCHANGED <<clientVars, link, late, allowed, faults, historyVars>>

(* The handler of the broken connection; its answer reaches nobody.        *)
ServeLate(m) ==
  /\ m \in late
  /\ late' = late \ {m}
  /\ IF allowed THEN Store(m) ELSE UNCHANGED log
  /\ UNCHANGED <<clientVars, link, wire, back, allowed, faults, historyVars>>

(* The sender loses its membership, or gets it back.                       *)
Refuse ==
  /\ allowed /\ faults < MaxFaults
  /\ allowed' = FALSE /\ faults' = faults + 1
  /\ UNCHANGED <<clientVars, netVars, log, historyVars>>

Admit ==
  /\ ~allowed
  /\ allowed' = TRUE
  /\ UNCHANGED <<clientVars, netVars, log, faults, historyVars>>

-----------------------------------------------------------------------------
(* The end of the client.                                                  *)

(* close: from now on a failed attempt is the last one.                    *)
Close ==
  /\ running = "up" /\ faults < MaxFaults
  /\ faults' = faults + 1
  /\ running' = "closing"
  /\ UNCHANGED <<row, call, pend, queue, worker, check, handler, netVars,
                 serverVars, historyVars>>

Forget ==
  /\ running' = "down"
  /\ call' = [c \in Call |-> IF call[c].st = "free" THEN Free
                             ELSE [call[c] EXCEPT !.st = "done"]]
  /\ pend' = [m \in Msg |-> NoEntry]
  /\ queue' = <<>> /\ worker' = Idle /\ check' = NoCheck /\ handler' = Idle
  /\ UNCHANGED serverVars

(* stop, _fail_unprocessed_messages: what is queued or being written is    *)
(* given up; what sleeps, or waits for its answer, is left as it is.       *)
GivenUpAtClose ==
  {m \in Queued \cup (IF worker.st = "sending" THEN {worker.msg} ELSE {}) :
     Pending(m)}

FinishClose(S) ==
  /\ running = "closing"
  /\ row' = [m \in Msg |-> IF m \in GivenUpAtClose THEN "failed" ELSE row[m]]
  /\ Broken(S)
  /\ Forget
  /\ UNCHANGED faults

(* The process ends.                                                       *)
Crash(S) ==
  /\ running # "down" /\ faults < MaxFaults
  /\ faults' = faults + 1
  /\ Broken(S)
  /\ Forget
  /\ UNCHANGED row

Start ==
  /\ running = "down"
  /\ running' = "up"
  /\ UNCHANGED <<row, call, pend, queue, worker, check, handler, netVars,
                 serverVars, faults, historyVars>>

-----------------------------------------------------------------------------
UserStep == \E c \in Call :
  \/ \E m \in Msg : SendMessage(c, m) \/ RetryMessage(c, m)
  \/ SaveRetry(c) \/ Enqueue(c)
WorkerStep ==
  \/ TakeQueued \/ \E ok, written \in BOOLEAN : Transmit(ok, written)
  \/ ReportWritten \/ ReportStray \/ ReportRefused \/ ReportExhausted
  \/ NapEnds \/ SaveGivenUp
CheckStep ==
  \/ \E T \in SUBSET Msg : CheckPending(T)
  \/ \E m \in Msg : CheckRetry(m) \/ CheckFail(m)
AnswerStep == TakeAnswer \/ SaveAcknowledged \/ SaveError
NetStep ==
  \/ Connect \/ Serve \/ Refuse \/ Admit
  \/ \E S \in SUBSET Msg : Drop(S)
  \/ \E m \in Msg : ServeLate(m)
EndStep == Close \/ Start \/ \E S \in SUBSET Msg : FinishClose(S) \/ Crash(S)

Next ==
  UserStep \/ WorkerStep \/ CheckStep \/ AnswerStep \/ NetStep \/ EndStep

Spec == Init /\ [][Next]_vars

(* The event loop goes on with what it has; of the network and the server  *)
(* nothing is assumed.                                                     *)
Fairness ==
  /\ WF_vars(\E c \in Call : SaveRetry(c) \/ Enqueue(c))
  /\ WF_vars(WorkerStep)
  /\ WF_vars(CheckStep)
  /\ WF_vars(SaveAcknowledged \/ SaveError)

FairSpec == Spec /\ Fairness

-----------------------------------------------------------------------------
(* Properties.                                                             *)

(* A message shown as sent is stored by the server, whatever was lost,     *)
(* repeated or answered late, and nothing is stored that was not sent.     *)
SentIsStored ==
  \A m \in Msg : /\ row[m] = "sent" => m \in Stored
                 /\ m \in Stored => row[m] # "none"

(* A pending message has something that will take it further: its          *)
(* acknowledgement is waited for, or it is queued, in the worker's hands,  *)
(* or in those of the check loop.                                          *)
EveryPendingIsDriven ==
  \A m \in Msg : Pending(m) =>
    \/ pend[m].wait \/ m \in Queued \/ m \in check.retry
    \/ worker.st \in {"sending", "wrote", "refused"} /\ worker.msg = m
    \/ worker.st = "napping" /\ worker.msg = m /\ worker.by = pend[m].by

(* An acknowledgement processed while nothing else is under way about the  *)
(* message is final: only an error of the server or a retry of the user    *)
(* makes the message anything but sent.                                    *)
AcknowledgedStaysSent == \A m \in settled : row[m] = "sent"

(* What was asked first is stored first ("Preserve message ordering",      *)
(* message_manager.py:135), unless the earlier message was queued a second *)
(* time, which puts it behind what was queued meanwhile, or was on the wire*)
(* when the connection broke.                                              *)
OrderKept ==
  \A i, j \in DOMAIN log : \A k, l \in DOMAIN asked :
    i < j /\ k < l /\ asked[k] = log[j] /\ asked[l] = log[i]
      => log[j] \in delayed

(* Sending comes to an end: what the client has in hand is shown as sent   *)
(* or failed at last, or the client has ended meanwhile.  (A row that was  *)
(* left as sending when the client ended stays so: nothing takes it up.)   *)
InHand(m) ==
  Pending(m) \/ \E c \in Call : call[c] = [st |-> "saved", msg |-> m]
SendingEnds ==
  \A m \in Msg : InHand(m) ~> row[m] # "sending" \/ running # "up"

Promise == INSTANCE Delivery WITH shown <- row, stored <- Stored
KeepsPromise == Promise!Spec
=============================================================================
