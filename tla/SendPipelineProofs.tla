------------------------ MODULE SendPipelineProofs ------------------------
(***************************************************************************)
(* Proofs about SendPipeline: its types, that what is shown as sent is     *)
(* stored, that every pending message is driven, that an acknowledgement   *)
(* nothing else is under way about is final, that what is asked first is   *)
(* stored first, and that sending keeps the promise of Delivery, for any   *)
(* messages, invocations and attempts.                                     *)
(*                                                                         *)
(* Whatever the pipeline holds was shown to the user before (Known), which *)
(* is what Delivery asks of a message that is stored or given up; what is  *)
(* acknowledged is stored (Acked).  The order of what is stored is a proof *)
(* of its own (OInv), over the way from the queue to the log.              *)
(***************************************************************************)
EXTENDS SendPipeline, TLAPS

CallState == [st : {"free", "read", "saved", "done"}, msg : Msg \cup {None}]
Entry == [by : Call \cup {None}, n : Nat, wait : BOOLEAN]
WorkerState ==
  {Idle} \cup [st : {"sending", "wrote", "refused", "giving_up"}, msg : Msg]
         \cup [st : {"napping"}, msg : Msg, by : Call]
Answer == [kind : {"ack", "error"}, msg : Msg]
HandlerState == {Idle} \cup [st : {"ack", "error"}, msg : Msg]

\* TypeOK, with its sets by their names
Typed ==
  /\ row \in [Msg -> Status] /\ call \in [Call -> CallState]
  /\ pend \in [Msg -> Entry] /\ queue \in Seq(Msg)
  /\ worker \in WorkerState
  /\ check \in [retry : SUBSET Msg, fail : SUBSET Msg]
  /\ handler \in HandlerState /\ running \in {"up", "closing", "down"}
  /\ link \in BOOLEAN /\ wire \in Seq(Msg) /\ back \in Seq(Answer)
  /\ late \subseteq Msg /\ allowed \in BOOLEAN /\ log \in Seq(Msg)
  /\ faults \in 0..MaxFaults /\ asked \in Seq(Msg)
  /\ delayed \subseteq Msg /\ settled \subseteq Msg

\* an invocation that began names its message; who is not pending waits for nothing
Shapes ==
  /\ \A c \in Call : call[c].st # "free" => call[c].msg \in Msg
  /\ \A m \in Msg : pend[m].wait => Pending(m)

Types == Typed /\ Shapes

Shown(m) == row[m] # "none"

Elems(s) == {s[i] : i \in DOMAIN s}

\* all the messages in the hands of client, connection and server
Things ==
  {m \in Msg : Pending(m)} \cup Elems(queue) \cup Elems(wire) \cup late
  \cup check.retry \cup check.fail
  \cup {m \in Msg : worker # Idle /\ worker.msg = m}
  \cup {m \in Msg : handler # Idle /\ handler.msg = m}
  \cup {m \in Msg : \E x \in Elems(back) : x.msg = m}
  \cup {m \in Msg : \E c \in Call : call[c].st # "free" /\ call[c].msg = m}

\* they were shown to the user before
Known == \A m \in Things : Shown(m)

Acked ==
  /\ \A x \in Elems(back) : x.kind = "ack" => x.msg \in Stored
  /\ handler.st = "ack" => handler.msg \in Stored

Final == \A m \in settled : ~UnderWay(m) /\ handler # Busy("error", m)

IInv == /\ Types /\ Known /\ Acked /\ SentIsStored
        /\ EveryPendingIsDriven /\ Final /\ AcknowledgedStaysSent

-----------------------------------------------------------------------------
(* Sequences.                                                              *)

LEMMA Appended ==
  ASSUME NEW S, NEW s \in Seq(S), NEW x \in S
  PROVE  Append(s, x) \in Seq(S) /\ Elems(Append(s, x)) = Elems(s) \cup {x}
<1>1. /\ Append(s, x) \in Seq(S) /\ Len(s) \in Nat
      /\ DOMAIN s = 1..Len(s) /\ DOMAIN Append(s, x) = 1..(Len(s) + 1)
      /\ Append(s, x)[Len(s) + 1] = x /\ \A i \in 1..Len(s) : Append(s, x)[i] = s[i]
  OBVIOUS
<1>2. \A i \in 1..(Len(s) + 1) : i \in 1..Len(s) \/ i = Len(s) + 1 BY <1>1
<1>3. Len(s) + 1 \in 1..(Len(s) + 1) /\ \A i \in 1..Len(s) : i \in 1..(Len(s) + 1) BY <1>1
<1> QED BY <1>1, <1>2, <1>3 DEF Elems

LEMMA TakenOff ==
  ASSUME NEW S, NEW s \in Seq(S), s # <<>>
  PROVE  /\ Head(s) \in S /\ Tail(s) \in Seq(S)
         /\ Elems(s) = {Head(s)} \cup Elems(Tail(s))
<1>1. /\ Head(s) \in S /\ Tail(s) \in Seq(S) /\ Len(s) \in Nat \ {0} /\ Head(s) = s[1]
      /\ DOMAIN s = 1..Len(s) /\ DOMAIN Tail(s) = 1..(Len(s) - 1)
      /\ \A i \in 1..(Len(s) - 1) : Tail(s)[i] = s[i + 1]
  OBVIOUS
<1>2. \A i \in 1..Len(s) : i = 1 \/ (i - 1 \in 1..(Len(s) - 1) /\ (i - 1) + 1 = i) BY <1>1
<1>3. 1 \in 1..Len(s) /\ \A i \in 1..(Len(s) - 1) : i + 1 \in 1..Len(s) BY <1>1
<1>4. ASSUME NEW x \in Elems(s) PROVE x \in {Head(s)} \cup Elems(Tail(s))
  <2>1. PICK i \in 1..Len(s) : x = s[i] BY <1>1, <1>4 DEF Elems
  <2>2. CASE i = 1 BY <1>1, <2>1, <2>2
  <2>3. CASE i # 1
    <3>1. i - 1 \in 1..(Len(s) - 1) /\ Tail(s)[i - 1] = s[i] BY <1>1, <1>2, <2>1, <2>3
    <3> QED BY <1>1, <2>1, <3>1 DEF Elems
  <2> QED BY <2>2, <2>3
<1>5. {Head(s)} \cup Elems(Tail(s)) \subseteq Elems(s) BY <1>1, <1>3 DEF Elems
<1> QED BY <1>1, <1>4, <1>5

LEMMA Emptied == Elems(<<>>) = {} /\ \A S : <<>> \in Seq(S)
BY DEF Elems

LEMMA Names == Stored = Elems(log) /\ Queued = Elems(queue) /\ OnWire = Elems(wire)
BY DEF Stored, Queued, OnWire, Elems

-----------------------------------------------------------------------------
(* Types.                                                                  *)

LEMMA TypesParts == TypeOK <=> Typed
BY Zenon DEF TypeOK, Typed, CallState, Entry, WorkerState, HandlerState, Answer

LEMMA Workers ==
  /\ \A m \in Msg, st \in {"sending", "wrote", "refused", "giving_up"} :
       /\ Busy(st, m) \in WorkerState /\ Busy(st, m).st = st /\ Busy(st, m).msg = m
       /\ Busy(st, m) # Idle
  /\ \A m \in Msg, c \in Call : [st |-> "napping", msg |-> m, by |-> c] \in WorkerState
  /\ Idle \in WorkerState /\ Idle.st = "idle"
  /\ worker \in WorkerState =>
       /\ worker.st \in {"idle", "sending", "wrote", "refused", "giving_up", "napping"}
       /\ worker.st = "idle" <=> worker = Idle
       /\ worker # Idle => worker.msg \in Msg
       /\ worker.st = "napping" => worker.by \in Call
BY DEF WorkerState, Busy, Idle

LEMMA Handlers ==
  /\ \A m \in Msg, st \in {"ack", "error"} :
       Busy(st, m) \in HandlerState /\ Busy(st, m).st = st /\ Busy(st, m).msg = m
  /\ Idle \in HandlerState /\ Idle.st = "idle"
  /\ handler \in HandlerState =>
       /\ handler.st \in {"idle", "ack", "error"}
       /\ handler.st = "idle" <=> handler = Idle
       /\ handler # Idle => handler.msg \in Msg /\ handler = Busy(handler.st, handler.msg)
BY DEF HandlerState, Busy, Idle

LEMMA BrokenTypes ==
  ASSUME Typed, NEW S \in SUBSET Msg, Broken(S)
  PROVE  /\ link' \in BOOLEAN /\ wire' \in Seq(Msg) /\ back' \in Seq(Answer)
         /\ late' \subseteq Msg /\ delayed' \subseteq Msg /\ asked' \in Seq(Msg)
         /\ settled' \subseteq Msg
BY Emptied DEF Broken, Typed

LEMMA ForgetTypes ==
  ASSUME Types, Forget
  PROVE  /\ call' \in [Call -> CallState] /\ pend' \in [Msg -> Entry]
         /\ queue' \in Seq(Msg) /\ worker' \in WorkerState
         /\ check' \in [retry : SUBSET Msg, fail : SUBSET Msg]
         /\ handler' \in HandlerState /\ running' \in {"up", "closing", "down"}
         /\ allowed' \in BOOLEAN /\ log' \in Seq(Msg) /\ Shapes'
<1> USE DEF Types, Typed
<1>1. call' \in [Call -> CallState] /\ \A c \in Call : call'[c].st # "free" => call'[c].msg \in Msg
  BY DEF Forget, CallState, Free, Shapes
<1>2. pend' \in [Msg -> Entry] /\ \A m \in Msg : pend'[m] = NoEntry
  BY DEF Forget, Entry, NoEntry
<1>3. Shapes' BY <1>1, <1>2 DEF Shapes, NoEntry
<1> QED BY <1>1, <1>2, <1>3, Workers, Handlers, Emptied DEF Forget, NoCheck, serverVars

LEMMA Counted ==
  ASSUME NEW p \in [Msg -> Entry], NEW m \in Msg, NEW b \in BOOLEAN
  PROVE  [p EXCEPT ![m].n = @ + 1, ![m].wait = b]
           = [p EXCEPT ![m] = [by |-> p[m].by, n |-> p[m].n + 1, wait |-> b]]
<1> DEFINE q == [p EXCEPT ![m].n = @ + 1]
           r == [q EXCEPT ![m].wait = b]
           t == [p EXCEPT ![m] = [by |-> p[m].by, n |-> p[m].n + 1, wait |-> b]]
<1>1. p[m] \in Entry /\ p[m].n + 1 \in Nat BY DEF Entry
<1>2. q \in [Msg -> Entry] BY <1>1 DEF Entry
<1>3. /\ q[m] = [by |-> p[m].by, n |-> p[m].n + 1, wait |-> p[m].wait]
      /\ \A x \in Msg \ {m} : q[x] = p[x] BY <1>1 DEF Entry
<1>4. r[m] = [by |-> p[m].by, n |-> p[m].n + 1, wait |-> b]
  BY <1>2, <1>3
<1>5. \A x \in Msg \ {m} : r[x] = p[x] BY <1>3
<1>6. r = t BY <1>4, <1>5
<1> QED BY <1>6

LEMMA UserTypes ==
  ASSUME Types, UserStep
  PROVE  Types'
<1> USE DEF Typed, Types, Shapes
<1>1. PICK c \in Call : \/ \E m \in Msg : SendMessage(c, m) \/ RetryMessage(c, m)
                        \/ SaveRetry(c) \/ Enqueue(c)
  BY DEF UserStep
<1>2. ASSUME NEW m \in Msg, SendMessage(c, m) PROVE Types'
  BY <1>2 DEF SendMessage, netVars, serverVars, historyVars, CallState, Status, Pending
<1>3. ASSUME NEW m \in Msg, RetryMessage(c, m) PROVE Types'
  BY <1>3 DEF RetryMessage, netVars, serverVars, historyVars, CallState, Status, Pending
<1>4. CASE SaveRetry(c)
  BY <1>4 DEF SaveRetry, netVars, serverVars, CallState, Status, Pending
<1>5. CASE Enqueue(c)
  <2> DEFINE m == call[c].msg
  <2>1. m \in Msg BY <1>5 DEF Enqueue
  <2>2. queue' \in Seq(Msg) BY <1>5, <2>1, Appended DEF Enqueue
  <2> HIDE DEF m
  <2>3. asked' \in Seq(Msg) /\ delayed' \subseteq Msg
    <3>1. Append(asked, m) \in Seq(Msg) BY <2>1, Appended
    <3> QED BY <1>5, <2>1, <3>1 DEF Enqueue, m
  <2>4. pend' \in [Msg -> Entry] /\ \A x \in Msg : pend'[x].wait => pend'[x].by # None
    BY <1>5, <2>1 DEF Enqueue, Entry, Pending
  <2>5. call' \in [Call -> CallState] /\ \A x \in Call : call'[x].st # "free" => call'[x].msg \in Msg
    BY <1>5, <2>1 DEF Enqueue, CallState
  <2> QED BY <1>5, <2>2, <2>3, <2>4, <2>5 DEF Enqueue, netVars, serverVars, Pending
<1> QED BY <1>1, <1>2, <1>3, <1>4, <1>5

LEMMA WorkerTypes ==
  ASSUME Types, WorkerStep
  PROVE  Types'
<1> USE Workers DEF Typed, Types, Shapes, Working, serverVars
<1>1. CASE TakeQueued BY <1>1, TakenOff DEF TakeQueued, Pending
<1>2. ASSUME NEW ok \in BOOLEAN, NEW written \in BOOLEAN, Transmit(ok, written) PROVE Types'
  <2>1. worker.msg \in Msg BY <1>2 DEF Transmit
  <2>2. wire' \in Seq(Msg) BY <1>2, <2>1, Appended DEF Transmit
  <2>3. worker' \in WorkerState BY <1>2, <2>1 DEF Transmit
  <2> QED BY <1>2, <2>2, <2>3 DEF Transmit, Pending
<1>3. CASE ReportWritten
  <2>1. worker.msg \in Msg BY <1>3 DEF ReportWritten
  <2>2. pend' \in [Msg -> Entry] /\ \A x \in Msg : pend'[x].wait => pend'[x].by # None
    <3>1. CASE Pending(worker.msg)
      <4>0. pend' = [pend EXCEPT ![worker.msg].n = @ + 1, ![worker.msg].wait = TRUE]
        BY <1>3, <3>1, Zenon DEF ReportWritten
      <4>1. pend' = [pend EXCEPT ![worker.msg] = [by |-> pend[worker.msg].by,
                                      n |-> pend[worker.msg].n + 1, wait |-> TRUE]]
        <5>1. pend \in [Msg -> Entry] /\ TRUE \in BOOLEAN OBVIOUS
        <5> HIDE Workers DEF Typed, Types, Shapes, Working, serverVars
        <5> QED BY <2>1, <4>0, <5>1, Counted, Zenon
      <4> QED BY <2>1, <3>1, <4>1 DEF Entry, Pending
    <3>2. CASE ~Pending(worker.msg) BY <1>3, <3>2 DEF ReportWritten, Pending
    <3> QED BY <3>1, <3>2
  <2> QED BY <1>3, <2>2 DEF ReportWritten, Pending
<1>4. CASE ReportStray BY <1>4 DEF ReportStray, Pending
<1>5. CASE ReportRefused
  <2>1. worker.msg \in Msg BY <1>5 DEF ReportRefused
  <2>2. pend' \in [Msg -> Entry] /\ \A x \in Msg : pend'[x].wait => pend'[x].by # None
    <3>0. pend' = [pend EXCEPT ![worker.msg].n = @ + 1, ![worker.msg].wait = FALSE]
      BY <1>5, Zenon DEF ReportRefused
    <3>1. pend' = [pend EXCEPT ![worker.msg] = [by |-> pend[worker.msg].by,
                                    n |-> pend[worker.msg].n + 1, wait |-> FALSE]]
      <4>1. pend \in [Msg -> Entry] /\ FALSE \in BOOLEAN OBVIOUS
      <4> HIDE Workers DEF Typed, Types, Shapes, Working, serverVars
      <4> QED BY <2>1, <3>0, <4>1, Counted, Zenon
    <3> QED BY <2>1, <3>1 DEF Entry, Pending
  <2>3. pend[worker.msg].by \in Call BY <1>5, <2>1 DEF ReportRefused, Entry, Pending
  <2> QED BY <1>5, <2>1, <2>2, <2>3 DEF ReportRefused, Pending
<1>6. CASE ReportExhausted
  <2>1. worker.msg \in Msg BY <1>6 DEF ReportExhausted
  <2>2. pend' \in [Msg -> Entry] /\ \A x \in Msg : pend'[x].wait => pend'[x].by # None
    BY <1>6, <2>1 DEF ReportExhausted, Entry, NoEntry, Pending
  <2> QED BY <1>6, <2>1, <2>2 DEF ReportExhausted, Pending
<1>7. CASE NapEnds
  <2>1. worker.msg \in Msg BY <1>7 DEF NapEnds
  <2>2. pend' \in [Msg -> Entry] /\ \A x \in Msg : pend'[x].wait => pend'[x].by # None
    BY <1>7, <2>1 DEF NapEnds, Entry, NoEntry, Pending
  <2>3. queue' \in Seq(Msg) /\ delayed' \subseteq Msg
    <3>1. Append(queue, worker.msg) \in Seq(Msg) BY <2>1, Appended
    <3>2. \/ queue' = Append(queue, worker.msg) /\ delayed' = delayed \cup {worker.msg}
          \/ queue' = queue /\ delayed' = delayed
      BY <1>7, Zenon DEF NapEnds
    <3>3. queue \in Seq(Msg) /\ delayed \subseteq Msg OBVIOUS
    <3> HIDE Workers DEF Typed, Types
    <3> QED BY <2>1, <3>1, <3>2, <3>3
  <2> QED BY <1>7, <2>1, <2>2, <2>3 DEF NapEnds, Pending
<1>8. CASE SaveGivenUp BY <1>8 DEF SaveGivenUp, Status, Pending
<1> QED BY <1>1, <1>2, <1>3, <1>4, <1>5, <1>6, <1>7, <1>8 DEF WorkerStep

LEMMA CheckTypes ==
  ASSUME Types, CheckStep
  PROVE  Types'
<1> USE DEF Typed, Types, Shapes, Checking, netVars, serverVars
<1>1. ASSUME NEW T \in SUBSET Msg, CheckPending(T) PROVE Types'
  <2>1. pend' \in [Msg -> Entry] /\ \A x \in Msg : pend'[x].wait => pend'[x].by # None
    BY <1>1 DEF CheckPending, Entry, NoEntry, Pending
  <2>2. check' \in [retry : SUBSET Msg, fail : SUBSET Msg] BY <1>1 DEF CheckPending
  <2> QED BY <1>1, <2>1, <2>2 DEF CheckPending, Pending
<1>2. ASSUME NEW m \in Msg, CheckRetry(m) PROVE Types'
  BY <1>2, Appended DEF CheckRetry, Pending
<1>3. ASSUME NEW m \in Msg, CheckFail(m) PROVE Types'
  BY <1>3 DEF CheckFail, Status, Pending
<1> QED BY <1>1, <1>2, <1>3 DEF CheckStep

LEMMA AnswerTypes ==
  ASSUME Types, AnswerStep
  PROVE  Types'
<1> USE Handlers DEF Typed, Types, Shapes, Handling, serverVars
<1>1. CASE TakeAnswer
  <2> DEFINE x == Head(back)
  <2>0. x \in Answer /\ back' \in Seq(Answer) BY <1>1, TakenOff DEF TakeAnswer
  <2>1. x.msg \in Msg /\ x.kind \in {"ack", "error"} BY <2>0 DEF Answer
  <2>2. pend' \in [Msg -> Entry] /\ \A y \in Msg : pend'[y].wait => pend'[y].by # None
    BY <1>1, <2>1 DEF TakeAnswer, Entry, NoEntry, Pending
  <2>3. handler' \in HandlerState /\ settled' \subseteq Msg BY <1>1, <2>1 DEF TakeAnswer
  <2> QED BY <1>1, <2>0, <2>1, <2>2, <2>3 DEF TakeAnswer, Pending
<1>2. CASE SaveAcknowledged BY <1>2 DEF SaveAcknowledged, Status, Pending
<1>3. CASE SaveError BY <1>3 DEF SaveError, Status, Pending, historyVars
<1> QED BY <1>1, <1>2, <1>3 DEF AnswerStep

LEMMA NetTypes ==
  ASSUME Types, NetStep
  PROVE  Types'
<1> USE DEF Typed, Types, Shapes, clientVars, netVars, serverVars, historyVars
<1>1. CASE Connect BY <1>1 DEF Connect, Pending
<1>2. CASE Serve
  <2> DEFINE m == Head(wire)
             a == [kind |-> IF allowed THEN "ack" ELSE "error", msg |-> m]
  <2>1. m \in Msg /\ wire' \in Seq(Msg) BY <1>2, TakenOff DEF Serve
  <2>2. log' \in Seq(Msg)
    <3>1. Append(log, m) \in Seq(Msg) BY <2>1, Appended
    <3> QED BY <1>2, <3>1 DEF Serve, Store
  <2>3. a \in Answer BY <2>1 DEF Answer
  <2>4. back' = Append(back, a) BY <1>2 DEF Serve
  <2>5. back' \in Seq(Answer) BY <2>3, <2>4, Appended
  <2> QED BY <1>2, <2>1, <2>2, <2>5 DEF Serve, Pending
<1>3. CASE Refuse \/ Admit
  <2>1. faults' \in 0..MaxFaults BY <1>3, SendBounds DEF Refuse, Admit
  <2> QED BY <1>3, <2>1 DEF Refuse, Admit, Pending
<1>4. ASSUME NEW S \in SUBSET Msg, Drop(S) PROVE Types'
  <2>1. faults' \in 0..MaxFaults BY <1>4, SendBounds DEF Drop
  <2> QED BY <1>4, <2>1, BrokenTypes DEF Drop, Pending
<1>5. ASSUME NEW m \in Msg, ServeLate(m) PROVE Types'
  <2>1. Append(log, m) \in Seq(Msg) BY Appended
  <2>2. log' \in Seq(Msg) BY <1>5, <2>1 DEF ServeLate, Store
  <2> QED BY <1>5, <2>2 DEF ServeLate, Pending
<1> QED BY <1>1, <1>2, <1>3, <1>4, <1>5 DEF NetStep

LEMMA EndTypes ==
  ASSUME Types, EndStep
  PROVE  Types'
<1> USE DEF Typed, Types
<1>1. CASE Close
  <2>1. faults' \in 0..MaxFaults BY <1>1, SendBounds DEF Close
  <2> QED BY <1>1, <2>1 DEF Close, Shapes, Pending, netVars, serverVars, historyVars
<1>2. CASE Start BY <1>2 DEF Start, Shapes, Pending, netVars, serverVars, historyVars
<1>3. ASSUME NEW S \in SUBSET Msg, FinishClose(S) PROVE Types'
  <2>1. Forget /\ Broken(S) /\ faults' \in 0..MaxFaults BY <1>3 DEF FinishClose
  <2>2. row' \in [Msg -> Status] BY <1>3 DEF FinishClose, Status
  <2> QED BY <2>1, <2>2, ForgetTypes, BrokenTypes
<1>4. ASSUME NEW S \in SUBSET Msg, Crash(S) PROVE Types'
  <2>1. Forget /\ Broken(S) /\ row' = row BY <1>4 DEF Crash
  <2>2. faults' \in 0..MaxFaults BY <1>4, SendBounds DEF Crash
  <2> QED BY <2>1, <2>2, ForgetTypes, BrokenTypes
<1> QED BY <1>1, <1>2, <1>3, <1>4 DEF EndStep

LEMMA TypesStep == Types /\ [Next]_vars => Types'
<1>1. ASSUME Types, UNCHANGED vars PROVE Types'
  BY <1>1 DEF Typed, Types, Shapes, Pending, vars, clientVars, netVars, serverVars, historyVars
<1> QED BY <1>1, UserTypes, WorkerTypes, CheckTypes, AnswerTypes, NetTypes, EndTypes DEF Next

-----------------------------------------------------------------------------
(* What is under way was shown.                                            *)

LEMMA NamesNext == Stored' = Elems(log') /\ Queued' = Elems(queue') /\ OnWire' = Elems(wire')
BY DEF Stored, Queued, OnWire, Elems

LEMMA WorkerThings ==
  ASSUME Types, WorkerStep
  PROVE  Things' \subseteq Things
<1> USE DEF Types, Typed, Working
<1>w. worker # Idle => worker.msg \in Msg BY Workers
<1>s. /\ worker.st \in {"sending", "wrote", "refused", "giving_up", "napping"} => worker # Idle
      /\ \A st, m : Busy(st, m).msg = m
  BY DEF Busy, Idle
<1>1. CASE TakeQueued
  <2>1. Head(queue) \in Elems(queue) /\ Elems(queue') \subseteq Elems(queue)
        /\ worker'.msg = Head(queue)
    BY <1>1, <1>s, TakenOff DEF TakeQueued
  <2> HIDE DEF Types, Typed
  <2> QED BY <1>1, <2>1 DEF TakeQueued, Things, Pending
<1>2. ASSUME NEW ok \in BOOLEAN, NEW written \in BOOLEAN, Transmit(ok, written)
      PROVE Things' \subseteq Things
  <2>1. Elems(wire') \subseteq Elems(wire) \cup {worker.msg}
    BY <1>2, <1>s, <1>w, Appended DEF Transmit
  <2>2. worker # Idle /\ worker'.msg = worker.msg BY <1>2, <1>s DEF Transmit
  <2> HIDE DEF Types, Typed
  <2> QED BY <1>2, <2>1, <2>2, <1>w DEF Transmit, Things, Pending
<1>3. CASE ReportWritten
  <2>1. \A m \in Msg : pend'[m].by = pend[m].by BY <1>3 DEF ReportWritten, Entry
  <2>2. UNCHANGED <<call, queue, wire, late, check, handler, back>> /\ worker' = Idle
    BY <1>3 DEF ReportWritten
  <2> HIDE DEF Types, Typed
  <2> QED BY <2>1, <2>2 DEF Things, Pending
<1>4. CASE ReportStray
  <2> HIDE DEF Types, Typed
  <2> QED BY <1>4 DEF ReportStray, Things, Pending
<1>5. CASE ReportRefused
  <2>1. \A m \in Msg : pend'[m].by = pend[m].by BY <1>5 DEF ReportRefused, Entry
  <2>2. worker'.msg = worker.msg /\ worker # Idle BY <1>5, <1>s DEF ReportRefused
  <2>3. UNCHANGED <<call, queue, wire, late, check, handler, back>>
    BY <1>5 DEF ReportRefused
  <2> HIDE DEF Types, Typed
  <2> QED BY <2>1, <2>2, <2>3 DEF Things, Pending
<1>6. CASE ReportExhausted
  <2>1. \A m \in Msg : pend'[m].by \in {pend[m].by, None}
    BY <1>6 DEF ReportExhausted, NoEntry
  <2>2. worker'.msg = worker.msg /\ worker # Idle BY <1>6, <1>s DEF ReportExhausted
  <2> HIDE DEF Types, Typed
  <2> QED BY <1>6, <2>1, <2>2 DEF ReportExhausted, Things, Pending
<1>7. CASE NapEnds
  <2>1. \A m \in Msg : pend'[m].by \in {pend[m].by, None}
    BY <1>7 DEF NapEnds, NoEntry
  <2>2. worker # Idle /\ (worker' # Idle => worker'.msg = worker.msg)
    BY <1>7, <1>s DEF NapEnds
  <2>3. Append(queue, worker.msg) \in Seq(Msg)
        /\ Elems(Append(queue, worker.msg)) = Elems(queue) \cup {worker.msg}
    BY <1>w, <2>2, Appended
  <2>4. Elems(queue') \subseteq Elems(queue) \cup {worker.msg}
    <3> HIDE DEF Types, Typed
    <3> QED BY <1>7, <2>3 DEF NapEnds
  <2> HIDE DEF Types, Typed
  <2> QED BY <1>7, <1>w, <2>1, <2>2, <2>4 DEF NapEnds, Things, Pending
<1>8. CASE SaveGivenUp
  <2> HIDE DEF Types, Typed
  <2> QED BY <1>8 DEF SaveGivenUp, Things, Pending
<1> QED BY <1>1, <1>2, <1>3, <1>4, <1>5, <1>6, <1>7, <1>8 DEF WorkerStep

LEMMA CheckThings ==
  ASSUME Types, CheckStep
  PROVE  Things' \subseteq Things
<1> USE DEF Types, Typed, Checking, netVars
<1>1. ASSUME NEW T \in SUBSET Msg, CheckPending(T) PROVE Things' \subseteq Things
  <2>1. \A m \in Msg : pend'[m].by \in {pend[m].by, None}
    BY <1>1 DEF CheckPending, Entry, NoEntry
  <2>2. check'.retry \cup check'.fail \subseteq {m \in Msg : Pending(m)}
    BY <1>1 DEF CheckPending, Shapes
  <2> HIDE DEF Types, Typed
  <2> QED BY <1>1, <2>1, <2>2 DEF CheckPending, Things, Pending
<1>2. ASSUME NEW m \in Msg, CheckRetry(m) PROVE Things' \subseteq Things
  <2>1. Elems(queue') = Elems(queue) \cup {m} BY <1>2, Appended DEF CheckRetry
  <2>2. m \in check.retry /\ check'.retry \subseteq check.retry /\ check'.fail = check.fail
    BY <1>2 DEF CheckRetry
  <2> HIDE DEF Types, Typed
  <2> QED BY <1>2, <2>1, <2>2 DEF CheckRetry, Things, Pending
<1>3. ASSUME NEW m \in Msg, CheckFail(m) PROVE Things' \subseteq Things
  <2>1. check'.retry = check.retry /\ check'.fail \subseteq check.fail
    BY <1>3 DEF CheckFail
  <2> HIDE DEF Types, Typed
  <2> QED BY <1>3, <2>1 DEF CheckFail, Things, Pending
<1> QED BY <1>1, <1>2, <1>3 DEF CheckStep

LEMMA AnswerThings ==
  ASSUME Types, AnswerStep
  PROVE  Things' \subseteq Things
<1> USE DEF Types, Typed, Handling
<1>1. CASE TakeAnswer
  <2> DEFINE x == Head(back)
  <2>1. x \in Answer /\ x \in Elems(back) /\ Elems(back') \subseteq Elems(back)
    BY <1>1, TakenOff DEF TakeAnswer
  <2>2. x.msg \in Msg /\ handler'.msg = x.msg BY <1>1, <2>1 DEF TakeAnswer, Answer, Busy
  <2>3. \A m \in Msg : pend'[m].by \in {pend[m].by, None}
    BY <1>1, <2>2 DEF TakeAnswer, NoEntry
  <2> HIDE DEF Types, Typed, x
  <2> QED BY <1>1, <2>1, <2>2, <2>3 DEF TakeAnswer, Things, Pending
<1>2. CASE SaveAcknowledged \/ SaveError
  <2> HIDE DEF Types, Typed
  <2> QED BY <1>2 DEF SaveAcknowledged, SaveError, Things, Pending
<1> QED BY <1>1, <1>2 DEF AnswerStep

LEMMA NetThings ==
  ASSUME Types, NetStep
  PROVE  Things' \subseteq Things
<1> USE DEF Types, Typed, clientVars
<1>1. CASE Connect \/ Refuse \/ Admit
  <2>1. UNCHANGED <<call, pend, queue, wire, late, check, worker, handler, back>>
    BY <1>1 DEF Connect, Refuse, Admit, netVars
  <2> HIDE DEF Types, Typed
  <2> QED BY <2>1 DEF Things, Pending
<1>2. CASE Serve
  <2> DEFINE m == Head(wire)
             a == [kind |-> IF allowed THEN "ack" ELSE "error", msg |-> m]
  <2>1. m \in Elems(wire) /\ m \in Msg /\ Elems(wire') \subseteq Elems(wire)
    BY <1>2, TakenOff DEF Serve
  <2>2. a \in Answer BY <2>1 DEF Answer
  <2>3. back' = Append(back, a) BY <1>2 DEF Serve
  <2>4. Elems(back') = Elems(back) \cup {a} BY <2>2, <2>3, Appended
  <2>5. a.msg = m OBVIOUS
  <2> HIDE DEF Types, Typed, a, m
  <2> QED BY <1>2, <2>1, <2>4, <2>5 DEF Serve, Things, Pending
<1>3. ASSUME NEW S \in SUBSET Msg, Drop(S) PROVE Things' \subseteq Things
  <2>1. Elems(wire') = {} /\ Elems(back') = {} /\ late' \subseteq late \cup Elems(wire)
    BY <1>3, Emptied, Names DEF Drop, Broken
  <2> HIDE DEF Types, Typed
  <2> QED BY <1>3, <2>1 DEF Drop, Things, Pending
<1>4. ASSUME NEW m \in Msg, ServeLate(m) PROVE Things' \subseteq Things
  <2> HIDE DEF Types, Typed
  <2> QED BY <1>4 DEF ServeLate, Things, Pending
<1> QED BY <1>1, <1>2, <1>3, <1>4 DEF NetStep

LEMMA EndThings ==
  ASSUME Types, EndStep
  PROVE  Things' \subseteq Things
<1>1. CASE Close \/ Start
  BY <1>1 DEF Close, Start, netVars, Things, Pending
<1>2. ASSUME NEW S \in SUBSET Msg, FinishClose(S) \/ Crash(S) PROVE Things' \subseteq Things
  <2>1. Forget /\ Broken(S) BY <1>2 DEF FinishClose, Crash
  <2>2. /\ Elems(wire') = {} /\ Elems(back') = {} /\ Elems(queue') = {}
        /\ late' \subseteq late \cup Elems(wire)
        /\ check'.retry = {} /\ check'.fail = {} /\ worker' = Idle /\ handler' = Idle
    BY <2>1, Emptied, Names DEF Forget, Broken, NoCheck
  <2>3. \A m \in Msg : pend'[m].by = None BY <2>1 DEF Forget, NoEntry
  <2>4. \A c \in Call : call'[c].st # "free" => call[c].st # "free" /\ call'[c].msg = call[c].msg
    BY <2>1 DEF Forget, Free, Types, Typed, CallState
  <2> QED BY <2>2, <2>3, <2>4 DEF Things, Pending
<1> QED BY <1>1, <1>2 DEF EndStep

LEMMA UserThings ==
  ASSUME Types, UserStep, NEW m \in Things'
  PROVE  m \in Things \/ Shown(m)'
<1> USE DEF Types, Typed
<1>1. PICK c \in Call : \/ \E x \in Msg : SendMessage(c, x) \/ RetryMessage(c, x)
                        \/ SaveRetry(c) \/ Enqueue(c)
  BY DEF UserStep
<1>2. ASSUME NEW x \in Msg, SendMessage(c, x) \/ RetryMessage(c, x)
      PROVE m \in Things \/ Shown(m)'
  <2>1. UNCHANGED <<pend, queue, wire, late, check, worker, handler, back>>
    BY <1>2 DEF SendMessage, RetryMessage, netVars
  <2>2. \A d \in Call : call'[d] = call[d] \/ call'[d].msg = x
    BY <1>2 DEF SendMessage, RetryMessage
  <2>3. Shown(x)' BY <1>2 DEF SendMessage, RetryMessage, Shown
  <2> HIDE DEF Types, Typed
  <2> QED BY <2>1, <2>2, <2>3 DEF Things, Pending
<1>3. CASE SaveRetry(c)
  <2>1. UNCHANGED <<pend, queue, wire, late, check, worker, handler, back>>
    BY <1>3 DEF SaveRetry, netVars
  <2>2. \A d \in Call : call'[d].st # "free" => call[d].st # "free" /\ call'[d].msg = call[d].msg
    BY <1>3 DEF SaveRetry, CallState
  <2> HIDE DEF Types, Typed
  <2> QED BY <2>1, <2>2 DEF Things, Pending
<1>4. CASE Enqueue(c)
  <2> DEFINE x == call[c].msg
  <2>1. UNCHANGED <<wire, late, check, worker, handler, back>> BY <1>4 DEF Enqueue, netVars
  <2>2. \A d \in Call : call'[d].st # "free" => call[d].st # "free" /\ call'[d].msg = call[d].msg
    BY <1>4 DEF Enqueue, CallState
  <2>3. x \in Msg /\ call[c].st # "free" BY <1>4 DEF Enqueue, Shapes
  <2>4. \A y \in Msg \ {x} : pend'[y].by = pend[y].by BY <1>4 DEF Enqueue
  <2>5. Elems(queue') = Elems(queue) \cup {x} BY <1>4, <2>3, Appended DEF Enqueue
  <2> HIDE DEF Types, Typed, x
  <2>6. x \in Things BY <2>3 DEF Things, x
  <2> QED BY <2>1, <2>2, <2>4, <2>5, <2>6 DEF Things, Pending
<1> QED BY <1>1, <1>2, <1>3, <1>4

LEMMA RowKept ==
  ASSUME Types, [Next]_vars
  PROVE  \A m \in Msg : Shown(m) => Shown(m)'
<1> USE DEF Types, Typed, Shown
<1>1. CASE UserStep BY <1>1 DEF UserStep, SendMessage, RetryMessage, SaveRetry, Enqueue
<1>2. CASE WorkerStep
  BY <1>2 DEF WorkerStep, TakeQueued, Transmit, ReportWritten, ReportStray,
     ReportRefused, ReportExhausted, NapEnds, SaveGivenUp
<1>3. CASE CheckStep BY <1>3 DEF CheckStep, CheckPending, CheckRetry, CheckFail
<1>4. CASE AnswerStep BY <1>4 DEF AnswerStep, TakeAnswer, SaveAcknowledged, SaveError
<1>5. CASE NetStep
  BY <1>5 DEF NetStep, Connect, Serve, Refuse, Admit, Drop, ServeLate, clientVars
<1>6. CASE EndStep BY <1>6 DEF EndStep, Close, Start, FinishClose, Crash
<1>7. CASE UNCHANGED vars BY <1>7 DEF vars, clientVars
<1> QED BY <1>1, <1>2, <1>3, <1>4, <1>5, <1>6, <1>7 DEF Next

LEMMA KnownStep == Types /\ Known /\ [Next]_vars => Known'
<1> SUFFICES ASSUME Types, Known, [Next]_vars, NEW m \in Things'
             PROVE  Shown(m)'
  BY Zenon DEF Known
<1>1. m \in Things \/ Shown(m)'
  <2>1. CASE UNCHANGED vars
    BY <2>1 DEF vars, clientVars, netVars, Things, Pending
  <2> QED BY <2>1, UserThings, WorkerThings, CheckThings, AnswerThings, NetThings, EndThings
           DEF Next
<1>2. m \in Msg => (Shown(m) => Shown(m)') BY RowKept
<1>3. Things \subseteq Msg
  <2>1. Elems(queue) \subseteq Msg /\ Elems(wire) \subseteq Msg BY DEF Types, Typed, Elems
  <2> QED BY <2>1 DEF Types, Typed, Things
<1> QED BY <1>1, <1>2, <1>3 DEF Known

-----------------------------------------------------------------------------
(* What is acknowledged, and what is shown as sent, is stored.             *)

LEMMA Storing ==
  ASSUME Types, NEW m \in Msg, Store(m)
  PROVE  Stored' = Stored \cup {m}
<1>1. Elems(Append(log, m)) = Elems(log) \cup {m} BY Appended DEF Types, Typed
<1>2. (log' = log /\ m \in Stored) \/ log' = Append(log, m) BY DEF Store
<1> QED BY <1>1, <1>2, Names, NamesNext

\* the steps that neither store, nor answer, nor take an answer
Quiet ==
  UserStep \/ WorkerStep \/ CheckStep \/ Connect \/ Refuse \/ Admit \/ Close \/ Start
  \/ UNCHANGED vars

LEMMA QuietKeeps ==
  ASSUME Quiet
  PROVE  UNCHANGED <<log, back, handler>>
<1> USE DEF netVars, serverVars
<1>1. CASE UserStep BY <1>1 DEF UserStep, SendMessage, RetryMessage, SaveRetry, Enqueue
<1>2. CASE WorkerStep
  BY <1>2 DEF WorkerStep, Working, TakeQueued, Transmit, ReportWritten, ReportStray,
     ReportRefused, ReportExhausted, NapEnds, SaveGivenUp
<1>3. CASE CheckStep
  BY <1>3 DEF CheckStep, Checking, CheckPending, CheckRetry, CheckFail
<1>4. CASE Connect \/ Refuse \/ Admit \/ Close \/ Start \/ UNCHANGED vars
  BY <1>4 DEF Connect, Refuse, Admit, Close, Start, vars, clientVars
<1> QED BY <1>1, <1>2, <1>3, <1>4 DEF Quiet

LEMMA Loud ==
  [Next]_vars => \/ Quiet \/ Serve \/ (\E m \in Msg : ServeLate(m)) \/ AnswerStep
                 \/ \E S \in SUBSET Msg : Drop(S) \/ FinishClose(S) \/ Crash(S)
BY DEF Next, NetStep, EndStep, Quiet

\* what a stored message is: one that was on its way
LEMMA LogKept ==
  ASSUME Types, [Next]_vars
  PROVE  Stored \subseteq Stored' /\ Stored' \subseteq Stored \cup Things
<1>1. CASE UNCHANGED log BY <1>1, Names, NamesNext
<1>2. CASE Serve
  <2>1. Head(wire) \in Msg /\ Head(wire) \in Things
    BY <1>2, TakenOff DEF Serve, Types, Typed, Things
  <2>2. CASE allowed BY <1>2, <2>1, <2>2, Storing DEF Serve
  <2>3. CASE ~allowed BY <1>2, <2>3, <1>1 DEF Serve
  <2> QED BY <2>2, <2>3
<1>3. ASSUME NEW m \in Msg, ServeLate(m)
      PROVE  Stored \subseteq Stored' /\ Stored' \subseteq Stored \cup Things
  <2>1. m \in Things BY <1>3 DEF ServeLate, Things
  <2>2. CASE allowed BY <1>3, <2>1, <2>2, Storing DEF ServeLate
  <2>3. CASE ~allowed BY <1>3, <2>3, <1>1 DEF ServeLate
  <2> QED BY <2>2, <2>3
<1>4. CASE AnswerStep
  BY <1>1, <1>4 DEF AnswerStep, TakeAnswer, SaveAcknowledged, SaveError, Handling, serverVars
<1>5. ASSUME NEW S \in SUBSET Msg, Drop(S) \/ FinishClose(S) \/ Crash(S)
      PROVE  UNCHANGED log
  BY <1>5 DEF Drop, FinishClose, Crash, Forget, serverVars
<1> QED BY <1>1, <1>2, <1>3, <1>4, <1>5, Loud, QuietKeeps

LEMMA AckedStep ==
  ASSUME Types, Acked, [Next]_vars
  PROVE  Acked'
<1>1. Stored \subseteq Stored' BY LogKept
<1>2. CASE UNCHANGED <<back, handler>> BY <1>1, <1>2 DEF Acked
<1>3. CASE Serve
  <2> DEFINE m == Head(wire)
             a == [kind |-> IF allowed THEN "ack" ELSE "error", msg |-> m]
  <2>1. m \in Msg /\ back \in Seq(Answer) BY <1>3, TakenOff DEF Serve, Types, Typed
  <2>2. a \in Answer BY <2>1 DEF Answer
  <2>3. back' = Append(back, a) /\ handler' = handler BY <1>3 DEF Serve, clientVars
  <2>4. Elems(back') = Elems(back) \cup {a} BY <2>1, <2>2, <2>3, Appended
  <2>5. a.kind = "ack" => a.msg \in Stored'
    <3>1. CASE allowed BY <1>3, <2>1, <3>1, Storing DEF Serve
    <3>2. CASE ~allowed BY <3>2
    <3> QED BY <3>1, <3>2
  <2> HIDE DEF a, m
  <2> QED BY <1>1, <2>3, <2>4, <2>5 DEF Acked
<1>4. CASE TakeAnswer
  <2> DEFINE x == Head(back)
  <2>1. x \in Answer /\ x \in Elems(back) /\ Elems(back') \subseteq Elems(back)
    BY <1>4, TakenOff DEF TakeAnswer, Types, Typed
  <2>2. handler' = Busy(x.kind, x.msg) BY <1>4 DEF TakeAnswer
  <2>3. handler'.st = x.kind /\ handler'.msg = x.msg BY <2>2 DEF Busy
  <2> HIDE DEF x
  <2> QED BY <1>1, <2>1, <2>3 DEF Acked
<1>5. CASE SaveAcknowledged \/ SaveError
  BY <1>1, <1>5 DEF SaveAcknowledged, SaveError, Acked, Idle
<1>6. ASSUME NEW m \in Msg, ServeLate(m) PROVE UNCHANGED <<back, handler>>
  BY <1>6 DEF ServeLate, clientVars
<1>7. ASSUME NEW S \in SUBSET Msg, Drop(S) \/ FinishClose(S) \/ Crash(S) PROVE Acked'
  <2>1. Elems(back') = {} /\ (handler' = handler \/ handler' = Idle)
    BY <1>7, Emptied DEF Drop, FinishClose, Crash, Broken, Forget, clientVars
  <2> QED BY <1>1, <2>1 DEF Acked, Idle
<1> QED BY <1>2, <1>3, <1>4, <1>5, <1>6, <1>7, Loud, QuietKeeps DEF AnswerStep

LEMMA SentStep ==
  ASSUME Types, Known, Acked, SentIsStored, [Next]_vars
  PROVE  SentIsStored'
<1> SUFFICES ASSUME NEW m \in Msg
             PROVE  /\ row'[m] = "sent" => m \in Stored'
                    /\ m \in Stored' => row'[m] # "none"
  BY DEF SentIsStored
<1>1. Stored \subseteq Stored' /\ Stored' \subseteq Stored \cup Things BY LogKept
<1>2. row[m] # "none" => row'[m] # "none" BY RowKept DEF Shown
<1>3. m \in Stored' => row'[m] # "none" BY <1>1, <1>2 DEF Known, Shown, SentIsStored
<1>4. row'[m] = "sent" => row[m] = "sent" \/ (handler.st = "ack" /\ m = handler.msg)
  <2> USE DEF Types, Typed
  <2>1. CASE UserStep BY <2>1 DEF UserStep, SendMessage, RetryMessage, SaveRetry, Enqueue
  <2>2. CASE WorkerStep
    BY <2>2 DEF WorkerStep, TakeQueued, Transmit, ReportWritten, ReportStray,
       ReportRefused, ReportExhausted, NapEnds, SaveGivenUp
  <2>3. CASE CheckStep BY <2>3 DEF CheckStep, CheckPending, CheckRetry, CheckFail
  <2>4. CASE AnswerStep BY <2>4 DEF AnswerStep, TakeAnswer, SaveAcknowledged, SaveError
  <2>5. CASE NetStep
    BY <2>5 DEF NetStep, Connect, Serve, Refuse, Admit, Drop, ServeLate, clientVars
  <2>6. CASE EndStep BY <2>6 DEF EndStep, Close, Start, FinishClose, Crash
  <2>7. CASE UNCHANGED vars BY <2>7 DEF vars, clientVars
  <2> QED BY <2>1, <2>2, <2>3, <2>4, <2>5, <2>6, <2>7 DEF Next
<1> QED BY <1>1, <1>3, <1>4 DEF Acked, SentIsStored

-----------------------------------------------------------------------------
(* What is pending is driven.                                              *)

Carried(m) ==
  \/ pend[m].wait \/ m \in Queued \/ m \in check.retry
  \/ worker.st \in {"sending", "wrote", "refused"} /\ worker.msg = m
  \/ worker.st = "napping" /\ worker.msg = m /\ worker.by = pend[m].by

LEMMA DrivenUser ==
  ASSUME Types, EveryPendingIsDriven, UserStep, NEW m \in Msg, Pending(m)'
  PROVE  Carried(m)'
<1> USE DEF Types, Typed
<1>1. PICK c \in Call : \/ \E x \in Msg : SendMessage(c, x) \/ RetryMessage(c, x)
                        \/ SaveRetry(c) \/ Enqueue(c)
  BY DEF UserStep
<1>2. CASE (\E x \in Msg : SendMessage(c, x) \/ RetryMessage(c, x)) \/ SaveRetry(c)
  <2>1. UNCHANGED <<pend, queue, check, worker>>
    BY <1>2 DEF SendMessage, RetryMessage, SaveRetry
  <2> HIDE DEF Types, Typed
  <2> QED BY <2>1, Names, NamesNext DEF EveryPendingIsDriven, Carried, Pending
<1>3. CASE Enqueue(c)
  <2> DEFINE x == call[c].msg
  <2>1. UNCHANGED <<check, worker>> BY <1>3 DEF Enqueue
  <2>2. x \in Msg BY <1>3 DEF Enqueue, Shapes
  <2>3. \A y \in Msg \ {x} : pend'[y] = pend[y] BY <1>3 DEF Enqueue
  <2>4. Queued' = Queued \cup {x} BY <1>3, <2>2, Appended, Names, NamesNext DEF Enqueue
  <2> HIDE DEF Types, Typed, x
  <2> QED BY <2>1, <2>3, <2>4 DEF EveryPendingIsDriven, Carried, Pending
<1> QED BY <1>1, <1>2, <1>3

LEMMA DrivenWorker ==
  ASSUME Types, EveryPendingIsDriven, WorkerStep, NEW m \in Msg, Pending(m)'
  PROVE  Carried(m)'
<1> USE DEF Working
<1>w. worker # Idle => worker.msg \in Msg BY Workers DEF Types, Typed
<1>s. Idle.st = "idle" /\ \A st, x : Busy(st, x).st = st /\ Busy(st, x).msg = x
  BY DEF Busy, Idle
<1>d. Pending(m) => Carried(m) BY DEF EveryPendingIsDriven, Carried
<1>1. CASE TakeQueued
  <2>1. Queued = {worker'.msg} \cup Queued' /\ worker'.st = "sending"
    BY <1>1, <1>s, TakenOff, Names, NamesNext DEF TakeQueued, Types, Typed
  <2>2. UNCHANGED <<pend, check>> /\ worker = Idle BY <1>1 DEF TakeQueued
  <2> QED BY <1>d, <1>s, <2>1, <2>2 DEF Carried, Pending
<1>2. ASSUME NEW ok \in BOOLEAN, NEW written \in BOOLEAN, Transmit(ok, written)
      PROVE Carried(m)'
  <2>1. worker'.st \in {"wrote", "refused"} /\ worker'.msg = worker.msg
    BY <1>2, <1>s DEF Transmit
  <2>2. UNCHANGED <<pend, queue, check>> /\ worker.st = "sending" BY <1>2 DEF Transmit
  <2> QED BY <1>d, <2>1, <2>2, Names, NamesNext DEF Carried, Pending
<1>3. CASE ReportWritten
  <2>1. \/ pend'[m] = pend[m] /\ (m # worker.msg \/ ~Pending(m))
        \/ pend'[m].wait
    BY <1>3 DEF ReportWritten, Types, Typed, Entry
  <2>2. UNCHANGED <<queue, check>> /\ worker' = Idle /\ worker.st = "wrote"
    BY <1>3 DEF ReportWritten
  <2> QED BY <1>d, <2>1, <2>2, Names, NamesNext DEF Carried, Pending
<1>4. CASE ReportStray
  <2>1. /\ UNCHANGED <<pend, queue, check>> /\ worker' = Idle
        /\ worker.st = "refused" /\ ~Pending(worker.msg)
    BY <1>4 DEF ReportStray
  <2> QED BY <1>d, <2>1, Names, NamesNext DEF Carried, Pending
<1>5. CASE ReportRefused
  <2>1. pend'[m].by = pend[m].by /\ (m # worker.msg => pend'[m] = pend[m])
    BY <1>5 DEF ReportRefused, Types, Typed, Entry
  <2>2. /\ UNCHANGED <<queue, check>> /\ worker.st = "refused"
        /\ worker' = [st |-> "napping", msg |-> worker.msg, by |-> pend[worker.msg].by]
    BY <1>5 DEF ReportRefused
  <2>3. worker'.st = "napping" /\ worker'.msg = worker.msg
        /\ worker'.by = pend[worker.msg].by BY <2>2
  <2> QED BY <1>d, <2>1, <2>2, <2>3, Names, NamesNext DEF Carried, Pending
<1>6. CASE ReportExhausted
  <2>1. pend'[m] = pend[m] /\ m # worker.msg
    BY <1>6 DEF ReportExhausted, Types, Typed, NoEntry, Pending
  <2>2. UNCHANGED <<queue, check>> /\ worker.st = "refused" BY <1>6 DEF ReportExhausted
  <2> QED BY <1>d, <2>1, <2>2, Names, NamesNext DEF Carried, Pending
<1>7. CASE NapEnds
  <2> DEFINE same == pend[worker.msg].by = worker.by
  <2>1. worker.st = "napping" /\ worker.msg \in Msg /\ UNCHANGED check
    BY <1>7, <1>w, <1>s DEF NapEnds
  <2>2. CASE same /\ running = "up"
    <3>1. queue' = Append(queue, worker.msg) /\ pend' = pend
      BY <1>7, <2>2 DEF NapEnds
    <3>2. Queued' = Queued \cup {worker.msg}
      BY <2>1, <3>1, Appended, Names, NamesNext DEF Types, Typed
    <3> QED BY <1>d, <2>1, <3>1, <3>2 DEF Carried, Pending
  <2>3. CASE same /\ running # "up"
    <3>1. queue' = queue /\ pend' = [pend EXCEPT ![worker.msg] = NoEntry]
      BY <1>7, <2>3 DEF NapEnds
    <3>2. m # worker.msg /\ pend'[m] = pend[m]
      BY <2>1, <3>1 DEF NoEntry, Pending, Types, Typed
    <3> QED BY <1>d, <2>1, <3>1, <3>2, Names, NamesNext DEF Carried, Pending
  <2>4. CASE ~same
    <3>1. queue' = queue /\ pend' = pend BY <1>7, <2>4 DEF NapEnds
    <3> QED BY <1>d, <2>1, <2>4, <3>1, Names, NamesNext DEF Carried, Pending
  <2> QED BY <2>2, <2>3, <2>4
<1>8. CASE SaveGivenUp
  <2>1. UNCHANGED <<pend, queue, check>> /\ worker.st = "giving_up" BY <1>8 DEF SaveGivenUp
  <2> QED BY <1>d, <2>1, Names, NamesNext DEF Carried, Pending
<1> QED BY <1>1, <1>2, <1>3, <1>4, <1>5, <1>6, <1>7, <1>8 DEF WorkerStep

LEMMA DrivenElsewhere ==
  ASSUME Types, EveryPendingIsDriven, NEW m \in Msg, Pending(m)',
         CheckStep \/ AnswerStep \/ NetStep \/ EndStep \/ UNCHANGED vars
  PROVE  Carried(m)'
<1>d. Pending(m) => Carried(m) BY DEF EveryPendingIsDriven, Carried
<1>u. ASSUME UNCHANGED <<queue, check, worker>>, pend'[m] = pend[m] PROVE Carried(m)'
  BY <1>d, <1>u, Names, NamesNext DEF Carried, Pending
<1>1. ASSUME NEW T \in SUBSET Msg, CheckPending(T) PROVE Carried(m)'
  <2>1. CASE m \notin T
    <3>1. pend'[m] = pend[m] BY <1>1, <2>1 DEF CheckPending, Types, Typed
    <3>2. UNCHANGED <<queue, worker>> /\ check.retry = {}
      BY <1>1 DEF CheckPending, Checking, NoCheck
    <3> QED BY <1>d, <3>1, <3>2, Names, NamesNext DEF Carried, Pending
  <2>2. CASE m \in T
    <3>1. m \in check'.retry BY <1>1, <2>2 DEF CheckPending, Types, Typed, NoEntry, Pending
    <3> QED BY <3>1 DEF Carried
  <2> QED BY <2>1, <2>2
<1>2. ASSUME NEW x \in Msg, CheckRetry(x) PROVE Carried(m)'
  <2>1. Queued' = Queued \cup {x} BY <1>2, Appended, Names, NamesNext DEF CheckRetry, Types, Typed
  <2>2. check'.retry = check.retry \ {x} /\ UNCHANGED <<pend, worker>>
    BY <1>2 DEF CheckRetry, Checking, Types, Typed
  <2> QED BY <1>d, <2>1, <2>2 DEF Carried, Pending
<1>3. ASSUME NEW x \in Msg, CheckFail(x) PROVE Carried(m)'
  <2>1. check'.retry = check.retry /\ UNCHANGED <<pend, queue, worker>>
    BY <1>3 DEF CheckFail, Checking, Types, Typed
  <2> QED BY <1>d, <2>1, Names, NamesNext DEF Carried, Pending
<1>4. CASE AnswerStep
  <2>1. UNCHANGED <<queue, check, worker>> /\ pend'[m] \in {pend[m], NoEntry}
    BY <1>4 DEF AnswerStep, TakeAnswer, SaveAcknowledged, SaveError, Handling, Types, Typed
  <2>2. pend'[m] = pend[m] BY <2>1 DEF Pending, NoEntry
  <2> QED BY <1>u, <2>1, <2>2
<1>5. CASE NetStep \/ Close \/ Start \/ UNCHANGED vars
  <2>1. UNCHANGED <<pend, queue, check, worker>>
    BY <1>5 DEF NetStep, Connect, Serve, Refuse, Admit, Drop, ServeLate, Close, Start,
       vars, clientVars
  <2> QED BY <1>u, <2>1
<1>6. ASSUME NEW S \in SUBSET Msg, FinishClose(S) \/ Crash(S) PROVE FALSE
  <2>1. pend' = [x \in Msg |-> NoEntry] BY <1>6 DEF FinishClose, Crash, Forget
  <2> QED BY <2>1 DEF Pending, NoEntry
<1> QED BY <1>1, <1>2, <1>3, <1>4, <1>5, <1>6 DEF CheckStep, EndStep

LEMMA DrivenStep ==
  ASSUME Types, EveryPendingIsDriven, [Next]_vars
  PROVE  EveryPendingIsDriven'
<1>1. ASSUME NEW m \in Msg, Pending(m)' PROVE Carried(m)'
  BY <1>1, DrivenUser, DrivenWorker, DrivenElsewhere DEF Next
<1> QED BY <1>1 DEF EveryPendingIsDriven, Carried

-----------------------------------------------------------------------------
(* What was acknowledged with nothing else under way is final.             *)

Settled(m) == row[m] = "sent" /\ ~UnderWay(m) /\ handler # Busy("error", m)

LEMMA SettledUser ==
  ASSUME Types, UserStep, NEW m \in Msg, m \in settled', Settled(m)
  PROVE  Settled(m)'
<1> USE DEF Types, Typed
<1>1. PICK c \in Call : \/ \E x \in Msg : SendMessage(c, x) \/ RetryMessage(c, x)
                        \/ SaveRetry(c) \/ Enqueue(c)
  BY DEF UserStep
<1>c. \A d \in Call : call[d].msg = m => call[d].st \notin {"read", "saved"}
  BY DEF Settled, UnderWay
<1>2. ASSUME NEW x \in Msg, SendMessage(c, x) \/ RetryMessage(c, x) PROVE Settled(m)'
  <2>1. x # m /\ row'[m] = row[m] BY <1>2 DEF SendMessage, RetryMessage, Settled
  <2>2. \A d \in Call : call'[d] = call[d] \/ call'[d].msg = x
    BY <1>2 DEF SendMessage, RetryMessage
  <2>3. UNCHANGED <<pend, check, worker, handler>> BY <1>2 DEF SendMessage, RetryMessage
  <2> HIDE DEF Types, Typed
  <2> QED BY <2>1, <2>2, <2>3 DEF Settled, UnderWay, Pending
<1>3. CASE SaveRetry(c)
  <2>1. call[c].msg # m BY <1>3, <1>c DEF SaveRetry
  <2>2. row'[m] = row[m] /\ UNCHANGED <<pend, check, worker, handler>>
    BY <1>3, <2>1 DEF SaveRetry
  <2>3. \A d \in Call : call'[d].msg = call[d].msg /\ (d # c => call'[d] = call[d])
    BY <1>3 DEF SaveRetry, CallState
  <2> HIDE DEF Types, Typed
  <2> QED BY <2>1, <2>2, <2>3 DEF Settled, UnderWay, Pending
<1>4. CASE Enqueue(c)
  <2>1. call[c].msg # m BY <1>4, <1>c DEF Enqueue
  <2>2. pend'[m] = pend[m] /\ UNCHANGED <<row, check, worker, handler>>
    BY <1>4, <2>1 DEF Enqueue
  <2>3. \A d \in Call : call'[d].msg = call[d].msg /\ (d # c => call'[d] = call[d])
    BY <1>4 DEF Enqueue, CallState
  <2> HIDE DEF Types, Typed
  <2> QED BY <2>1, <2>2, <2>3 DEF Settled, UnderWay, Pending
<1> QED BY <1>1, <1>2, <1>3, <1>4

LEMMA SettledWorker ==
  ASSUME Types, WorkerStep, NEW m \in Msg, Settled(m)
  PROVE  Settled(m)'
<1> USE DEF Working
<1>p. ~Pending(m) /\ worker # Busy("giving_up", m) /\ row[m] = "sent"
  BY DEF Settled, UnderWay
<1>u. ASSUME row'[m] = row[m], pend'[m].by = pend[m].by, worker' # Busy("giving_up", m),
             UNCHANGED <<call, check, handler>>
      PROVE Settled(m)'
  BY <1>u DEF Settled, UnderWay, Pending
<1>f. UNCHANGED <<call, check, handler>>
  BY DEF WorkerStep, TakeQueued, Transmit, ReportWritten, ReportStray, ReportRefused,
     ReportExhausted, NapEnds, SaveGivenUp
<1>1. CASE TakeQueued \/ ReportStray \/ \E ok, written \in BOOLEAN : Transmit(ok, written)
  <2>1. UNCHANGED <<row, pend>> /\ worker'.st # "giving_up"
    BY <1>1 DEF TakeQueued, ReportStray, Transmit, Busy, Idle
  <2> QED BY <1>u, <1>f, <2>1 DEF Busy
<1>2. CASE ReportWritten \/ ReportRefused
  <2>1. row' = row /\ worker'.st # "giving_up"
    BY <1>2 DEF ReportWritten, ReportRefused, Idle
  <2>2. pend'[m].by = pend[m].by
    <3>1. CASE ReportWritten BY <3>1 DEF ReportWritten, Types, Typed, Entry
    <3>2. CASE ReportRefused BY <3>2 DEF ReportRefused, Types, Typed, Entry
    <3> QED BY <1>2, <3>1, <3>2
  <2> QED BY <1>u, <1>f, <2>1, <2>2 DEF Busy
<1>3. CASE ReportExhausted
  <2>1. worker.msg # m BY <1>3, <1>p DEF ReportExhausted
  <2>2. row' = row /\ pend'[m] = pend[m] /\ worker' = Busy("giving_up", worker.msg)
    BY <1>3, <2>1 DEF ReportExhausted, Types, Typed
  <2> QED BY <1>u, <1>f, <2>1, <2>2 DEF Busy
<1>4. CASE NapEnds
  <2>1. worker.st = "napping" /\ worker.by \in Call /\ worker.msg \in Msg
    BY <1>4, Workers DEF NapEnds, Types, Typed, Idle
  <2>2. CASE pend[worker.msg].by = worker.by
    <3>1. worker.msg # m BY <1>p, <2>1, <2>2, NoneIsNoCall DEF Pending
    <3>2. row' = row /\ pend'[m] = pend[m]
          /\ worker' \in {Idle, Busy("giving_up", worker.msg)}
      BY <1>4, <2>2, <3>1 DEF NapEnds, Types, Typed
    <3> QED BY <1>u, <1>f, <3>1, <3>2 DEF Busy, Idle
  <2>3. CASE pend[worker.msg].by # worker.by
    <3>1. UNCHANGED <<row, pend>> /\ worker' = Idle BY <1>4, <2>3 DEF NapEnds
    <3> QED BY <1>u, <1>f, <3>1 DEF Busy, Idle
  <2> QED BY <2>2, <2>3
<1>5. CASE SaveGivenUp
  <2>1. worker = Busy("giving_up", worker.msg)
    BY <1>5 DEF SaveGivenUp, Types, Typed, WorkerState, Busy, Idle
  <2>2. worker.msg # m BY <1>p, <2>1
  <2>3. row'[m] = row[m] /\ pend' = pend /\ worker' = Idle
    BY <1>5, <2>2 DEF SaveGivenUp, Types, Typed
  <2> QED BY <1>u, <1>f, <2>3 DEF Busy, Idle
<1> QED BY <1>1, <1>2, <1>3, <1>4, <1>5 DEF WorkerStep

LEMMA SettledElsewhere ==
  ASSUME Types, NEW m \in Msg, m \in settled', Settled(m),
         CheckStep \/ AnswerStep \/ NetStep \/ EndStep \/ UNCHANGED vars
  PROVE  Settled(m)'
<1>p. ~Pending(m) /\ m \notin check.fail /\ row[m] = "sent" /\ handler # Busy("error", m)
  BY DEF Settled, UnderWay
<1>1. ASSUME NEW T \in SUBSET Msg, CheckPending(T) PROVE Settled(m)'
  <2>1. m \notin T BY <1>1, <1>p DEF CheckPending, Types, Shapes
  <2>2. pend'[m] = pend[m] /\ m \notin check'.fail
    BY <1>1, <2>1 DEF CheckPending, Types, Typed
  <2>3. UNCHANGED <<row, call, worker, handler>> BY <1>1 DEF CheckPending, Checking
  <2> QED BY <2>2, <2>3 DEF Settled, UnderWay, Pending
<1>2. ASSUME NEW x \in Msg, CheckRetry(x) \/ CheckFail(x) PROVE Settled(m)'
  <2>1. check'.fail \subseteq check.fail /\ UNCHANGED <<call, pend, worker, handler>>
    BY <1>2 DEF CheckRetry, CheckFail, Checking, Types, Typed
  <2>2. row'[m] = row[m] BY <1>2, <1>p DEF CheckRetry, CheckFail, Types, Typed
  <2> QED BY <2>1, <2>2 DEF Settled, UnderWay, Pending
<1>3. CASE TakeAnswer
  <2> DEFINE x == Head(back)
  <2>1. x \in Answer BY <1>3, TakenOff DEF TakeAnswer, Types, Typed
  <2>2. x.kind \in {"ack", "error"} /\ x.msg \in Msg BY <2>1 DEF Answer
  <2>3. x.kind = "error" => x.msg # m BY <1>3 DEF TakeAnswer
  <2>4. handler' # Busy("error", m)
    BY <1>3, <2>2, <2>3 DEF TakeAnswer, Busy
  <2>5. pend'[m].by \in {pend[m].by, None} /\ UNCHANGED <<row, call, worker, check>>
    BY <1>3, <2>2 DEF TakeAnswer, Handling, Types, Typed, NoEntry
  <2> QED BY <2>4, <2>5 DEF Settled, UnderWay, Pending
<1>4. CASE SaveAcknowledged \/ SaveError
  <2>1. handler = Busy(handler.st, handler.msg) /\ handler.msg \in Msg
    BY <1>4, Handlers DEF SaveAcknowledged, SaveError, Types, Typed, Idle
  <2>2. row'[m] = "sent"
    BY <1>4, <1>p, <2>1 DEF SaveAcknowledged, SaveError, Types, Typed
  <2>3. UNCHANGED <<pend, call, worker, check>> /\ handler' = Idle
    BY <1>4 DEF SaveAcknowledged, SaveError, Handling
  <2> QED BY <2>2, <2>3 DEF Settled, UnderWay, Pending, Busy, Idle
<1>5. CASE NetStep \/ Close \/ Start \/ UNCHANGED vars
  <2>1. UNCHANGED <<row, call, pend, check, worker, handler>>
    BY <1>5 DEF NetStep, Connect, Serve, Refuse, Admit, Drop, ServeLate, Close, Start,
       vars, clientVars
  <2> QED BY <2>1 DEF Settled, UnderWay, Pending
<1>6. ASSUME NEW S \in SUBSET Msg, FinishClose(S) \/ Crash(S) PROVE Settled(m)'
  <2>1. row'[m] = row[m] BY <1>6, <1>p DEF FinishClose, Crash, GivenUpAtClose
  <2>2. Forget BY <1>6 DEF FinishClose, Crash
  <2>3. /\ pend'[m].by = None /\ check'.fail = {} /\ worker' = Idle /\ handler' = Idle
        /\ \A c \in Call : call'[c].st \in {"free", "done"}
    BY <2>2 DEF Forget, NoEntry, NoCheck, Free, Types, Typed, CallState
  <2> QED BY <1>p, <2>1, <2>3 DEF Settled, UnderWay, Pending, Busy, Idle
<1> QED BY <1>1, <1>2, <1>3, <1>4, <1>5, <1>6 DEF CheckStep, AnswerStep, EndStep

LEMMA SettledGrows ==
  ASSUME Types, [Next]_vars, NEW m \in settled', m \notin settled
  PROVE  SaveAcknowledged /\ m = handler.msg /\ ~UnderWay(m)
<1> USE DEF historyVars
<1>1. CASE UserStep
  BY <1>1 DEF UserStep, SendMessage, RetryMessage, SaveRetry, Enqueue
<1>2. CASE WorkerStep
  BY <1>2 DEF WorkerStep, Working, TakeQueued, Transmit, ReportWritten, ReportStray,
     ReportRefused, ReportExhausted, NapEnds, SaveGivenUp
<1>3. CASE CheckStep
  BY <1>3 DEF CheckStep, Checking, CheckPending, CheckRetry, CheckFail
<1>4. CASE AnswerStep
  BY <1>4 DEF AnswerStep, TakeAnswer, SaveAcknowledged, SaveError
<1>5. CASE NetStep
  BY <1>5 DEF NetStep, Connect, Serve, Refuse, Admit, Drop, Broken, ServeLate
<1>6. CASE EndStep BY <1>6 DEF EndStep, Close, Start, FinishClose, Crash, Broken
<1>7. CASE UNCHANGED vars BY <1>7 DEF vars
<1> QED BY <1>1, <1>2, <1>3, <1>4, <1>5, <1>6, <1>7 DEF Next

LEMMA FinalStep ==
  ASSUME Types, Types', Final, AcknowledgedStaysSent, [Next]_vars
  PROVE  (Final /\ AcknowledgedStaysSent)'
<1>1. ASSUME NEW m \in settled' PROVE Settled(m)'
  <2>1. m \in Msg BY DEF Types, Typed
  <2>2. CASE m \in settled
    <3>1. Settled(m) BY <2>2 DEF Final, AcknowledgedStaysSent, Settled
    <3> QED BY <2>1, <3>1, SettledUser, SettledWorker, SettledElsewhere DEF Next
  <2>3. CASE m \notin settled
    <3>1. SaveAcknowledged /\ m = handler.msg /\ ~UnderWay(m) BY <2>3, SettledGrows
    <3>2. row'[m] = "sent" /\ UNCHANGED <<pend, call, worker, check>> /\ handler' = Idle
      BY <2>1, <3>1 DEF SaveAcknowledged, Handling, Types, Typed
    <3> QED BY <3>1, <3>2 DEF Settled, UnderWay, Pending, Busy, Idle
  <2> QED BY <2>2, <2>3
<1> QED BY <1>1 DEF Final, AcknowledgedStaysSent, Settled

-----------------------------------------------------------------------------
(* The invariant and the theorems.                                         *)

LEMMA IInvInit == Init => IInv
<1> SUFFICES ASSUME Init PROVE IInv OBVIOUS
<1> USE DEF Init
<1>1. Types
  <2>1. worker \in WorkerState /\ handler \in HandlerState BY Workers, Handlers
  <2>2. pend \in [Msg -> Entry] BY DEF Entry, NoEntry
  <2>3. Shapes BY DEF Shapes, NoEntry, Free
  <2>4. row \in [Msg -> Status] /\ call \in [Call -> CallState]
    BY DEF Status, CallState, Free
  <2>5. check \in [retry : SUBSET Msg, fail : SUBSET Msg] BY DEF NoCheck
  <2>6. /\ queue \in Seq(Msg) /\ wire \in Seq(Msg) /\ back \in Seq(Answer)
        /\ log \in Seq(Msg) /\ asked \in Seq(Msg) BY Emptied
  <2>7. faults \in 0..MaxFaults BY SendBounds
  <2> HIDE DEF Init
  <2>8. /\ link \in BOOLEAN /\ allowed \in BOOLEAN /\ running \in {"up", "closing", "down"}
        /\ late \subseteq Msg /\ delayed \subseteq Msg /\ settled \subseteq Msg
    BY DEF Init
  <2> QED BY <2>1, <2>2, <2>3, <2>4, <2>5, <2>6, <2>7, <2>8 DEF Types, Typed
<1>2. Known BY Emptied DEF Known, Things, Pending, NoEntry, NoCheck, Free
<1>3. Acked /\ SentIsStored BY Emptied, Names DEF Acked, SentIsStored, Idle
<1>4. EveryPendingIsDriven /\ Final /\ AcknowledgedStaysSent
  BY DEF EveryPendingIsDriven, Final, AcknowledgedStaysSent, Pending, NoEntry
<1> QED BY <1>1, <1>2, <1>3, <1>4 DEF IInv

LEMMA IInvNext == IInv /\ [Next]_vars => IInv'
<1> SUFFICES ASSUME IInv, [Next]_vars PROVE IInv' OBVIOUS
<1>1. Types' BY TypesStep DEF IInv
<1>2. Known' BY KnownStep DEF IInv
<1>3. Acked' /\ SentIsStored' BY AckedStep, SentStep DEF IInv
<1>4. EveryPendingIsDriven' BY DrivenStep DEF IInv
<1>5. (Final /\ AcknowledgedStaysSent)' BY <1>1, FinalStep DEF IInv
<1> QED BY <1>1, <1>2, <1>3, <1>4, <1>5 DEF IInv

LEMMA Invariance == Spec => []IInv
BY IInvInit, IInvNext, PTL DEF Spec

(* Types: rows, the pending map, queue, worker, check loop, connection and *)
(* server stay what they are declared to be, for any messages, invocations *)
(* and bounds.                                                             *)
THEOREM SendTypes == Spec => []TypeOK
<1>1. IInv => TypeOK BY TypesParts DEF IInv, Types
<1> QED BY <1>1, Invariance, PTL

(* A message shown as sent is stored by the server.                        *)
THEOREM SentMeansStored == Spec => []SentIsStored
<1>1. IInv => SentIsStored BY DEF IInv
<1> QED BY <1>1, Invariance, PTL

(* No entry of the pending map is forgotten by queue, worker, check loop   *)
(* and acknowledgements alike.                                             *)
THEOREM NothingForgotten == Spec => []EveryPendingIsDriven
<1>1. IInv => EveryPendingIsDriven BY DEF IInv
<1> QED BY <1>1, Invariance, PTL

(* An acknowledgement with nothing else under way about its message is     *)
(* final until an error of the server or a retry of the user.              *)
THEOREM AcknowledgementIsFinal == Spec => []AcknowledgedStaysSent
<1>1. IInv => AcknowledgedStaysSent BY DEF IInv
<1> QED BY <1>1, Invariance, PTL

-----------------------------------------------------------------------------
(* Sending implements Delivery.                                            *)

LEMMA PromiseKept ==
  ASSUME IInv, [Next]_vars
  PROVE  [Promise!Next]_<<row, Stored>>
<1> USE DEF IInv, Types, Typed
<1>s. ASSUME UNCHANGED row, UNCHANGED log PROVE UNCHANGED <<row, Stored>>
  BY <1>s, Names, NamesNext
<1>a. ASSUME NEW m \in Things, UNCHANGED row, Store(m)
      PROVE [Promise!Next]_<<row, Stored>>
  <2>1. m \in Msg BY DEF Things, Elems
  <2>2. row[m] # "none" BY DEF Known, Shown
  <2>3. CASE m \in Stored BY <1>s, <1>a, <2>3 DEF Store
  <2>4. CASE m \notin Stored
    <3>1. Promise!Accept(m) BY <1>a, <2>1, <2>2, <2>4, Storing DEF Promise!Accept
    <3> QED BY <2>1, <3>1 DEF Promise!Next
  <2> QED BY <2>3, <2>4
<1>g. ASSUME NEW S \in SUBSET Msg, \A m \in S : row[m] # "none", UNCHANGED log,
             row' = [m \in Msg |-> IF m \in S THEN "failed" ELSE row[m]]
      PROVE Promise!Next
  BY <1>g, Names, NamesNext DEF Promise!Next, Promise!GiveUp
<1>f. ASSUME NEW x \in Msg, row[x] # "none", UNCHANGED log,
             row' = [row EXCEPT ![x] = "failed"]
      PROVE Promise!Next
  <2>1. row' = [m \in Msg |-> IF m \in {x} THEN "failed" ELSE row[m]] BY <1>f
  <2>2. {x} \in SUBSET Msg /\ \A m \in {x} : row[m] # "none" BY <1>f
  <2> QED BY <1>f, <1>g, <2>1, <2>2, Zenon
<1>m. ASSUME NEW m \in Msg, row' = [row EXCEPT ![m] = "sending"], UNCHANGED log
      PROVE Promise!Next
  BY <1>m, Names, NamesNext DEF Promise!Next, Promise!Submit
<1>1. CASE UserStep
  <2>1. PICK c \in Call : \/ \E x \in Msg : SendMessage(c, x) \/ RetryMessage(c, x)
                          \/ SaveRetry(c) \/ Enqueue(c)
    BY <1>1 DEF UserStep
  <2>2. ASSUME NEW x \in Msg, SendMessage(c, x) PROVE Promise!Next
    BY <1>m, <2>2 DEF SendMessage, serverVars
  <2>3. CASE SaveRetry(c)
    <3>1. call[c].msg \in Msg BY <2>3 DEF SaveRetry, Shapes
    <3> QED BY <1>m, <2>3, <3>1 DEF SaveRetry, serverVars
  <2>4. CASE (\E x \in Msg : RetryMessage(c, x)) \/ Enqueue(c)
    BY <1>s, <2>4 DEF RetryMessage, Enqueue, serverVars
  <2> QED BY <2>1, <2>2, <2>3, <2>4
<1>2. CASE WorkerStep
  <2>1. CASE SaveGivenUp
    <3>1. worker.msg \in Msg /\ worker # Idle BY <2>1, Workers DEF SaveGivenUp
    <3>2. row[worker.msg] # "none" BY <3>1 DEF Known, Things, Shown
    <3>3. row' = [row EXCEPT ![worker.msg] = "failed"] /\ UNCHANGED log
      BY <2>1 DEF SaveGivenUp, Working, serverVars
    <3> QED BY <1>f, <3>1, <3>2, <3>3
  <2>2. CASE ~SaveGivenUp
    BY <1>2, <1>s, <2>2 DEF WorkerStep, Working, serverVars, TakeQueued, Transmit,
       ReportWritten, ReportStray, ReportRefused, ReportExhausted, NapEnds
  <2> QED BY <2>1, <2>2
<1>3. CASE CheckStep
  <2>1. ASSUME NEW x \in Msg, CheckFail(x) PROVE Promise!Next
    <3>1. row[x] # "none" BY <2>1 DEF CheckFail, Known, Things, Shown
    <3>2. row' = [row EXCEPT ![x] = "failed"] /\ UNCHANGED log
      BY <2>1 DEF CheckFail, Checking, serverVars
    <3> QED BY <1>f, <3>1, <3>2
  <2>2. CASE (\E T \in SUBSET Msg : CheckPending(T)) \/ \E x \in Msg : CheckRetry(x)
    BY <1>s, <2>2 DEF CheckPending, CheckRetry, Checking, serverVars
  <2> QED BY <1>3, <2>1, <2>2 DEF CheckStep
<1>4. CASE AnswerStep
  <2>1. CASE TakeAnswer BY <1>s, <2>1 DEF TakeAnswer, Handling, serverVars
  <2>2. CASE SaveAcknowledged \/ SaveError
    <3>1. handler.msg \in Msg /\ handler # Idle
      BY <2>2, Handlers DEF SaveAcknowledged, SaveError
    <3>2. row[handler.msg] # "none" BY <3>1 DEF Known, Things, Shown
    <3>3. UNCHANGED log
      BY <2>2 DEF SaveAcknowledged, SaveError, Handling, serverVars
    <3>4. CASE SaveAcknowledged
      <4>1. Promise!Confirm(handler.msg)
        BY <3>1, <3>3, <3>4, Names, NamesNext DEF SaveAcknowledged, Acked, Promise!Confirm
      <4> QED BY <3>1, <4>1 DEF Promise!Next
    <3>5. CASE SaveError
      <4>1. row' = [row EXCEPT ![handler.msg] = "failed"] BY <3>5 DEF SaveError
      <4> QED BY <1>f, <3>1, <3>2, <3>3, <4>1
    <3> QED BY <2>2, <3>4, <3>5
  <2> QED BY <1>4, <2>1, <2>2 DEF AnswerStep
<1>5. CASE NetStep
  <2>1. CASE Serve
    <3>1. Head(wire) \in Things BY <2>1, TakenOff DEF Serve, Things
    <3>2. UNCHANGED row BY <2>1 DEF Serve, clientVars
    <3>3. Store(Head(wire)) \/ UNCHANGED log BY <2>1, Zenon DEF Serve
    <3> QED BY <1>a, <1>s, <3>1, <3>2, <3>3
  <2>2. ASSUME NEW m \in Msg, ServeLate(m) PROVE [Promise!Next]_<<row, Stored>>
    <3>1. m \in Things /\ UNCHANGED row BY <2>2 DEF ServeLate, Things, clientVars
    <3>2. Store(m) \/ UNCHANGED log BY <2>2, Zenon DEF ServeLate
    <3> QED BY <1>a, <1>s, <3>1, <3>2
  <2>3. CASE Connect \/ Refuse \/ Admit \/ \E S \in SUBSET Msg : Drop(S)
    BY <1>s, <2>3 DEF Connect, Refuse, Admit, Drop, clientVars, serverVars
  <2> QED BY <1>5, <2>1, <2>2, <2>3 DEF NetStep
<1>6. CASE EndStep
  <2>1. ASSUME NEW S \in SUBSET Msg, FinishClose(S) PROVE Promise!Next
    <3>1. GivenUpAtClose \in SUBSET Msg /\ \A m \in GivenUpAtClose : row[m] # "none"
      <4>1. GivenUpAtClose \subseteq Msg
        BY Workers, Names DEF GivenUpAtClose, Elems, Idle
      <4> QED BY <4>1 DEF GivenUpAtClose, Known, Things, Shown
    <3>2. UNCHANGED log BY <2>1 DEF FinishClose, Forget, serverVars
    <3> QED BY <1>g, <2>1, <3>1, <3>2 DEF FinishClose
  <2>2. CASE Close \/ Start \/ \E S \in SUBSET Msg : Crash(S)
    BY <1>s, <2>2 DEF Close, Start, Crash, Forget, serverVars
  <2> QED BY <1>6, <2>1, <2>2 DEF EndStep
<1>7. CASE UNCHANGED vars BY <1>s, <1>7 DEF vars, clientVars, serverVars
<1> QED BY <1>1, <1>2, <1>3, <1>4, <1>5, <1>6, <1>7 DEF Next

(* The client's queue, retries and connection and the server's handler     *)
(* together keep the promise of Delivery: every step is one of its steps   *)
(* or changes neither what the sender sees nor what the server has.        *)
THEOREM SendingImplementsDelivery == Spec => KeepsPromise
<1>1. Init => Promise!Init
  BY Emptied, Names DEF Init, Promise!Init
<1>2. IInv /\ [Next]_vars => [Promise!Next]_<<row, Stored>> BY PromiseKept
<1> QED BY <1>1, <1>2, Invariance, PTL DEF Spec, KeepsPromise, Promise!Spec

-----------------------------------------------------------------------------
(* The order: a message on its way from the queue over the worker and the  *)
(* wire to the log never has one before it that was asked for later, nor   *)
(* itself, unless it was delayed.                                          *)

\* a comes before b in s
Ord(s, a, b) == \E i, j \in DOMAIN s : i < j /\ s[i] = a /\ s[j] = b

Sending == {m \in Msg : worker = Busy("sending", m)}

\* a is on its way, or there, before b
Before(a, b) ==
  \/ Ord(log, a, b) \/ Ord(wire, a, b) \/ Ord(queue, a, b)
  \/ a \in Elems(log) \cup late /\ b \in Elems(wire) \cup Sending \cup Elems(queue)
  \/ a \in Elems(wire) /\ b \in Sending \cup Elems(queue)
  \/ a \in Sending /\ b \in Elems(queue)

\* b was asked for no later than a
Precedes(b, a) == \E k, l \in DOMAIN asked : k <= l /\ asked[k] = b /\ asked[l] = a

Lined == \A a, b \in Msg : Before(a, b) /\ Precedes(b, a) => b \in delayed

Held ==
  Elems(log) \cup Elems(wire) \cup Elems(queue) \cup late \cup check.retry
  \cup {m \in Msg : Pending(m)} \cup {m \in Msg : worker # Idle /\ worker.msg = m}

HeldAsked == Held \subseteq Elems(asked)

OInv == Types /\ HeldAsked /\ late \subseteq delayed /\ Lined

LEMMA OrdAppended ==
  ASSUME NEW S, NEW s \in Seq(S), NEW x \in S, NEW a, NEW b, Ord(Append(s, x), a, b)
  PROVE  Ord(s, a, b) \/ (a \in Elems(s) /\ b = x)
<1>1. /\ Len(s) \in Nat /\ DOMAIN s = 1..Len(s) /\ DOMAIN Append(s, x) = 1..(Len(s) + 1)
      /\ Append(s, x)[Len(s) + 1] = x /\ \A i \in 1..Len(s) : Append(s, x)[i] = s[i]
  OBVIOUS
<1>2. PICK i, j \in 1..(Len(s) + 1) :
        i < j /\ Append(s, x)[i] = a /\ Append(s, x)[j] = b
  BY <1>1 DEF Ord
<1>3. i \in 1..Len(s) /\ s[i] = a BY <1>1, <1>2
<1>4. CASE j = Len(s) + 1 BY <1>1, <1>2, <1>3, <1>4 DEF Elems
<1>5. CASE j # Len(s) + 1
  <2>1. j \in 1..Len(s) /\ s[j] = b BY <1>1, <1>2, <1>5
  <2> QED BY <1>1, <1>2, <1>3, <2>1 DEF Ord
<1> QED BY <1>4, <1>5

LEMMA OrdTakenOff ==
  ASSUME NEW S, NEW s \in Seq(S), s # <<>>, NEW a, NEW b
  PROVE  /\ Ord(Tail(s), a, b) => Ord(s, a, b)
         /\ a = Head(s) /\ b \in Elems(Tail(s)) => Ord(s, a, b)
<1>1. /\ Len(s) \in Nat \ {0} /\ Head(s) = s[1]
      /\ DOMAIN s = 1..Len(s) /\ DOMAIN Tail(s) = 1..(Len(s) - 1)
      /\ \A i \in 1..(Len(s) - 1) : Tail(s)[i] = s[i + 1]
  OBVIOUS
<1>2. /\ 1 \in 1..Len(s) /\ \A i \in 1..(Len(s) - 1) : i + 1 \in 1..Len(s) /\ 1 < i + 1
      /\ \A i, j \in 1..(Len(s) - 1) : i < j => i + 1 < j + 1
  BY <1>1
<1>3. ASSUME Ord(Tail(s), a, b) PROVE Ord(s, a, b)
  <2>1. PICK i, j \in 1..(Len(s) - 1) : i < j /\ Tail(s)[i] = a /\ Tail(s)[j] = b
    BY <1>1, <1>3 DEF Ord
  <2>2. i + 1 < j + 1 /\ s[i + 1] = a /\ s[j + 1] = b BY <1>1, <1>2, <2>1
  <2> QED BY <1>1, <1>2, <2>2 DEF Ord
<1>4. ASSUME a = Head(s), b \in Elems(Tail(s)) PROVE Ord(s, a, b)
  <2>1. PICK j \in 1..(Len(s) - 1) : b = Tail(s)[j] BY <1>1, <1>4 DEF Elems
  <2>2. 1 < j + 1 /\ s[1] = a /\ s[j + 1] = b BY <1>1, <1>2, <1>4, <2>1
  <2> QED BY <1>1, <1>2, <2>2 DEF Ord
<1> QED BY <1>3, <1>4

LEMMA OrdEmptied == \A a, b : ~Ord(<<>>, a, b)
BY DEF Ord

LEMMA OrdNext == \A a, b : /\ Ord(log, a, b)' <=> Ord(log', a, b)
                           /\ Ord(wire, a, b)' <=> Ord(wire', a, b)
                           /\ Ord(queue, a, b)' <=> Ord(queue', a, b)
BY DEF Ord

\* a step that brings nothing before anything but what is delayed
LEMMA LinedKept ==
  ASSUME Lined, UNCHANGED asked, delayed \subseteq delayed',
         \A a, b \in Msg : Before(a, b)' => Before(a, b) \/ b \in delayed'
  PROVE  Lined'
BY DEF Lined, Precedes

\* one that leaves things where they are, or takes them away
LEMMA NothingMoves ==
  ASSUME Lined, UNCHANGED <<asked, log>>, delayed \subseteq delayed',
         Sending' \subseteq Sending, late' \subseteq late \cup delayed',
         UNCHANGED queue \/ queue' = <<>>,
         \/ UNCHANGED <<wire, late>>
         \/ wire' = <<>> /\ late' \subseteq late \cup Elems(wire)
  PROVE  Lined'
<1>1. /\ Elems(queue') \subseteq Elems(queue) /\ Elems(wire') \subseteq Elems(wire)
      /\ \A a, b : (Ord(queue, a, b)' => Ord(queue, a, b)) /\ (Ord(wire, a, b)' => Ord(wire, a, b))
  BY Emptied, OrdEmptied DEF Elems, Ord
<1>2. /\ Elems(queue)' = Elems(queue') /\ Elems(wire)' = Elems(wire')
      /\ Elems(log)' = Elems(log) /\ \A a, b : Ord(log, a, b)' = Ord(log, a, b)
  BY DEF Elems, Ord
<1>3. ASSUME NEW a \in Msg, NEW b \in Msg, Before(a, b)' PROVE Before(a, b)
  <2>1. CASE UNCHANGED <<wire, late>> BY <1>1, <1>2, <1>3, <2>1 DEF Before
  <2>2. CASE wire' = <<>> /\ late' \subseteq late \cup Elems(wire)
    BY <1>1, <1>2, <1>3, <2>2, Emptied DEF Before
  <2> QED BY <2>1, <2>2
<1> QED BY <1>3, LinedKept

\* a message is queued once more
LEMMA Requeued ==
  ASSUME Types, Lined, NEW m \in Msg, queue' = Append(queue, m),
         delayed' = delayed \cup {m}, Sending' \subseteq Sending,
         UNCHANGED <<asked, log, wire, late>>
  PROVE  Lined'
<1>1. /\ Elems(queue)' = Elems(queue) \cup {m} /\ Elems(wire)' = Elems(wire)
      /\ Elems(log)' = Elems(log)
      /\ \A a, b : Ord(log, a, b)' = Ord(log, a, b) /\ Ord(wire, a, b)' = Ord(wire, a, b)
  <2>1. Elems(queue') = Elems(queue) \cup {m} BY Appended DEF Types, Typed
  <2> QED BY <2>1 DEF Elems, Ord
<1>2. \A a, b : Ord(queue, a, b)' => Ord(queue, a, b) \/ b = m
  <2>1. \A a, b : Ord(queue', a, b) => Ord(queue, a, b) \/ b = m
    BY OrdAppended DEF Types, Typed
  <2> QED BY <2>1 DEF Ord
<1>3. ASSUME NEW a \in Msg, NEW b \in Msg, Before(a, b)'
      PROVE  Before(a, b) \/ b \in delayed'
  BY <1>1, <1>2, <1>3 DEF Before
<1> QED BY <1>3, LinedKept

LEMMA LinedUser ==
  ASSUME OInv, UserStep
  PROVE  Lined' /\ HeldAsked'
<1> USE DEF OInv
<1>1. PICK c \in Call : \/ \E x \in Msg : SendMessage(c, x) \/ RetryMessage(c, x)
                        \/ SaveRetry(c) \/ Enqueue(c)
  BY DEF UserStep
<1>2. CASE (\E x \in Msg : SendMessage(c, x) \/ RetryMessage(c, x)) \/ SaveRetry(c)
  <2>1. UNCHANGED <<pend, queue, wire, late, check, worker, log, asked, delayed>>
    BY <1>2 DEF SendMessage, RetryMessage, SaveRetry, netVars, serverVars, historyVars
  <2> QED BY <2>1, NothingMoves DEF Sending, HeldAsked, Held, Elems, Pending
<1>3. CASE Enqueue(c)
  <2> DEFINE x == call[c].msg
  <2>1. UNCHANGED <<wire, late, check, worker, log>>
    BY <1>3 DEF Enqueue, netVars, serverVars
  <2>2. x \in Msg BY <1>3 DEF Enqueue, Types, Shapes
  <2>3. queue' = Append(queue, x) /\ \A y \in Msg \ {x} : pend'[y].by = pend[y].by
    BY <1>3 DEF Enqueue, Types, Typed
  <2>4. Asked = Elems(asked) BY DEF Asked, Elems
  <2>5. Elems(queue)' = Elems(queue) \cup {x}
    <3>1. Elems(queue') = Elems(queue) \cup {x} BY <2>2, <2>3, Appended DEF Types, Typed
    <3> QED BY <3>1 DEF Elems
  <2>6. Sending' = Sending /\ Elems(wire)' = Elems(wire) /\ Elems(log)' = Elems(log)
    BY <2>1 DEF Sending, Elems
  <2>7. CASE x \in Elems(asked)
    <3>1. delayed' = delayed \cup {x} /\ UNCHANGED asked
      BY <1>3, <2>4, <2>7 DEF Enqueue
    <3>2. Lined' BY <2>1, <2>2, <2>3, <2>6, <3>1, Requeued
    <3>3. Elems(asked)' = Elems(asked) BY <3>1 DEF Elems
    <3>4. Held' \subseteq Held \cup {x} BY <2>1, <2>2, <2>3, <2>5, <2>6 DEF Held, Pending
    <3> QED BY <2>7, <3>2, <3>3, <3>4 DEF HeldAsked
  <2>8. CASE x \notin Elems(asked)
    <3>1. asked' = Append(asked, x) /\ UNCHANGED delayed
      BY <1>3, <2>4, <2>8 DEF Enqueue
    <3>2. Elems(asked)' = Elems(asked) \cup {x}
      <4>1. Elems(asked') = Elems(asked) \cup {x}
        BY <2>2, <3>1, Appended DEF Types, Typed
      <4> QED BY <4>1 DEF Elems
    <3>3. Held' \subseteq Held \cup {x} BY <2>1, <2>2, <2>3, <2>5, <2>6 DEF Held, Pending
    <3>4. \A a, b : Ord(queue, a, b)' => Ord(queue, a, b) \/ (a \in Elems(queue) /\ b = x)
      <4>1. \A a, b : Ord(queue', a, b) => Ord(queue, a, b) \/ (a \in Elems(queue) /\ b = x)
        BY <2>2, <2>3, OrdAppended DEF Types, Typed
      <4> QED BY <4>1 DEF Ord
    <3>5. /\ \A a, b : Ord(log, a, b)' = Ord(log, a, b) /\ Ord(wire, a, b)' = Ord(wire, a, b)
      BY <2>1 DEF Ord
    <3>6. \A a, b \in Msg : Before(a, b)' => a \in Elems(asked) /\ (Before(a, b) \/ b = x)
      <4>1. \A a, b \in Msg : Before(a, b)' => Before(a, b) \/ (a \in Held /\ b = x)
        <5>1. Sending \subseteq Held BY Workers DEF Sending, Held, Busy, Idle
        <5> QED BY <2>1, <2>5, <2>6, <3>4, <3>5, <5>1 DEF Before, Held
      <4>2. \A a, b \in Msg : Before(a, b) => a \in Held
        BY DEF Before, Held, Ord, Elems, Sending, Busy, Idle
      <4> QED BY <4>1, <4>2 DEF HeldAsked
    <3>7. ASSUME NEW a \in Elems(asked), NEW b, Precedes(b, a)'
          PROVE  Precedes(b, a)
      <4>1. /\ Len(asked) \in Nat /\ DOMAIN asked = 1..Len(asked)
            /\ DOMAIN asked' = 1..(Len(asked) + 1)
            /\ asked'[Len(asked) + 1] = x /\ \A i \in 1..Len(asked) : asked'[i] = asked[i]
        BY <2>2, <3>1 DEF Types, Typed
      <4>2. PICK k, l \in 1..(Len(asked) + 1) : k <= l /\ asked'[k] = b /\ asked'[l] = a
        BY <3>7, <4>1 DEF Precedes
      <4>3. l # Len(asked) + 1 BY <2>8, <4>1, <4>2
      <4>4. l \in 1..Len(asked) /\ k \in 1..Len(asked) BY <4>1, <4>2, <4>3
      <4> QED BY <4>1, <4>2, <4>4 DEF Precedes
    <3>8. ASSUME NEW a \in Msg, NEW b \in Msg, Before(a, b)', Precedes(b, a)'
          PROVE  b \in delayed'
      <4>1. a \in Elems(asked) /\ Precedes(b, a) BY <3>6, <3>7, <3>8
      <4>2. b # x BY <2>8, <4>1 DEF Precedes, Elems
      <4> QED BY <3>1, <3>6, <3>8, <4>1, <4>2 DEF Lined
    <3> QED BY <3>2, <3>3, <3>8 DEF HeldAsked, Lined
  <2> QED BY <2>7, <2>8
<1> QED BY <1>1, <1>2, <1>3

LEMMA LinedWorker ==
  ASSUME OInv, WorkerStep
  PROVE  Lined' /\ HeldAsked'
<1> USE DEF OInv
<1>1. UNCHANGED <<check, late, log, asked>> /\ Elems(asked)' = Elems(asked) /\ Elems(log)' = Elems(log)
  BY DEF WorkerStep, Working, TakeQueued, Transmit, ReportWritten, ReportStray,
     ReportRefused, ReportExhausted, NapEnds, SaveGivenUp, serverVars, Elems
<1>2. worker \in WorkerState /\ pend \in [Msg -> Entry] /\ queue \in Seq(Msg) /\ wire \in Seq(Msg)
  BY DEF Types, Typed
<1>3. CASE TakeQueued
  <2> DEFINE m == Head(queue)
  <2>1. /\ queue # <<>> /\ queue' = Tail(queue) /\ worker = Idle /\ worker' = Busy("sending", m)
        /\ UNCHANGED <<pend, wire, delayed>>
    BY <1>3 DEF TakeQueued
  <2>2. m \in Msg /\ Elems(queue) = {m} \cup Elems(queue')
    BY <1>2, <2>1, TakenOff
  <2>3. Elems(queue)' = Elems(queue') /\ Elems(wire)' = Elems(wire) BY <2>1 DEF Elems
  <2>4. Sending = {} /\ Sending' = {m}
    BY <2>1, <2>2 DEF Sending, Busy, Idle
  <2>5. /\ \A a, b : Ord(log, a, b)' = Ord(log, a, b) /\ Ord(wire, a, b)' = Ord(wire, a, b)
        /\ \A a, b : Ord(queue, a, b)' => Ord(queue, a, b)
        /\ \A b \in Elems(queue)' : Ord(queue, m, b)
    <3>1. \A a, b : /\ Ord(Tail(queue), a, b) => Ord(queue, a, b)
                    /\ a = m /\ b \in Elems(Tail(queue)) => Ord(queue, a, b)
      BY <1>2, <2>1, OrdTakenOff
    <3> QED BY <1>1, <2>1, <2>3, <3>1, OrdNext
  <2>6. \A a, b \in Msg : Before(a, b)' => Before(a, b)
    BY <1>1, <2>2, <2>3, <2>4, <2>5 DEF Before
  <2>7. Lined' BY <1>1, <2>1, <2>6, LinedKept
  <2>8. worker'.msg = m BY <2>1 DEF Busy
  <2>9. Held' \subseteq Held BY <1>1, <2>1, <2>2, <2>3, <2>8 DEF Held, Pending
  <2> QED BY <1>1, <2>7, <2>9 DEF HeldAsked
<1>4. ASSUME NEW ok \in BOOLEAN, NEW written \in BOOLEAN, Transmit(ok, written)
      PROVE  Lined' /\ HeldAsked'
  <2> DEFINE m == worker.msg
             st == IF ok THEN "wrote" ELSE "refused"
  <2>1. /\ worker.st = "sending" /\ worker' = Busy(st, m)
        /\ wire' = IF written THEN Append(wire, m) ELSE wire
        /\ UNCHANGED <<pend, queue, delayed>>
    BY <1>4 DEF Transmit
  <2>2. m \in Msg /\ worker # Idle /\ worker'.msg = m /\ worker'.st # "sending"
    BY <1>2, <2>1, Workers DEF Busy
  <2>3. m \in Sending
    BY <1>2, <2>1, <2>2 DEF Sending, Busy, WorkerState, Idle
  <2>4. Sending' = {} BY <2>2, Workers DEF Sending
  <2>5. Elems(queue)' = Elems(queue) /\ Elems(wire)' \subseteq Elems(wire) \cup {m}
    <3>1. Elems(Append(wire, m)) = Elems(wire) \cup {m} BY <1>2, <2>2, Appended
    <3>2. Elems(wire)' = Elems(wire') BY DEF Elems
    <3> QED BY <2>1, <3>1, <3>2 DEF Elems
  <2>6. /\ \A a, b : Ord(log, a, b)' = Ord(log, a, b) /\ Ord(queue, a, b)' = Ord(queue, a, b)
        /\ \A a, b : Ord(wire, a, b)' => Ord(wire, a, b) \/ (a \in Elems(wire) /\ b = m)
    <3>1. \A a, b : Ord(Append(wire, m), a, b) => Ord(wire, a, b) \/ (a \in Elems(wire) /\ b = m)
      BY <1>2, <2>2, OrdAppended
    <3> QED BY <1>1, <2>1, <3>1, OrdNext
  <2>7. \A a, b \in Msg : Before(a, b)' => Before(a, b)
    BY <1>1, <2>3, <2>4, <2>5, <2>6 DEF Before
  <2>8. Lined' BY <1>1, <2>1, <2>7, LinedKept
  <2>9. Held' \subseteq Held BY <1>1, <2>1, <2>2, <2>5 DEF Held, Pending
  <2> QED BY <1>1, <2>8, <2>9 DEF HeldAsked
<1>5. CASE ReportWritten \/ ReportStray \/ ReportRefused \/ ReportExhausted \/ SaveGivenUp
  <2>1. UNCHANGED <<queue, wire, delayed>>
    BY <1>5 DEF ReportWritten, ReportStray, ReportRefused, ReportExhausted, SaveGivenUp
  <2>2. worker.st \in {"wrote", "refused", "giving_up"}
        /\ (worker' = Idle \/ (worker'.msg = worker.msg /\ worker'.st \in {"napping", "giving_up"}))
    BY <1>5 DEF ReportWritten, ReportStray, ReportRefused, ReportExhausted, SaveGivenUp, Busy
  <2>3. \A m \in Msg : Pending(m)' => Pending(m)
    BY <1>2, <1>5 DEF ReportWritten, ReportStray, ReportRefused, ReportExhausted, SaveGivenUp,
       Pending, NoEntry, Entry
  <2>4. Sending' = {} BY <2>2, Workers DEF Sending, Idle, Busy
  <2>5. Lined' BY <1>1, <2>1, <2>4, NothingMoves
  <2>6. Held' \subseteq Held
    BY <1>1, <2>1, <2>2, <2>3, Workers DEF Held, Elems
  <2> QED BY <1>1, <2>5, <2>6 DEF HeldAsked
<1>6. CASE NapEnds
  <2> DEFINE m == worker.msg
  <2>1. worker.st = "napping" /\ UNCHANGED wire BY <1>6 DEF NapEnds
  <2>2. m \in Msg /\ worker # Idle BY <1>2, <2>1, Workers DEF Idle
  <2>3. worker' = Idle \/ worker' = Busy("giving_up", m) BY <1>6 DEF NapEnds
  <2>4. Sending' = {} BY <2>2, <2>3, Workers DEF Sending, Idle, Busy
  <2>5. \A y \in Msg : Pending(y)' => Pending(y)
    BY <1>2, <1>6 DEF NapEnds, Pending, NoEntry, Entry
  <2>6. \/ UNCHANGED <<queue, delayed>>
        \/ queue' = Append(queue, m) /\ delayed' = delayed \cup {m}
    BY <1>6 DEF NapEnds
  <2>7. Lined'
    <3>1. CASE UNCHANGED <<queue, delayed>> BY <1>1, <2>1, <2>4, <3>1, NothingMoves
    <3>2. CASE queue' = Append(queue, m) /\ delayed' = delayed \cup {m}
      BY <1>1, <2>1, <2>2, <2>4, <3>2, Requeued
    <3> QED BY <2>6, <3>1, <3>2
  <2>8. Elems(queue)' \subseteq Elems(queue) \cup {m}
    <3>1. Elems(Append(queue, m)) = Elems(queue) \cup {m} BY <1>2, <2>2, Appended
    <3>2. Elems(queue)' = Elems(queue') BY DEF Elems
    <3> QED BY <2>6, <3>1, <3>2
  <2>9. worker' # Idle => worker'.msg = m BY <2>3 DEF Busy
  <2>10. Elems(wire)' = Elems(wire) BY <2>1 DEF Elems
  <2>11. Held' \subseteq Held BY <1>1, <2>2, <2>5, <2>8, <2>9, <2>10 DEF Held
  <2> QED BY <1>1, <2>7, <2>11 DEF HeldAsked
<1> QED BY <1>3, <1>4, <1>5, <1>6 DEF WorkerStep

LEMMA LinedCheck ==
  ASSUME OInv, CheckStep
  PROVE  Lined' /\ HeldAsked'
<1> USE DEF OInv
<1>1. /\ UNCHANGED <<worker, wire, late, log, asked>>
      /\ Elems(asked)' = Elems(asked) /\ Elems(log)' = Elems(log) /\ Elems(wire)' = Elems(wire)
      /\ Sending' = Sending
  BY DEF CheckStep, Checking, CheckPending, CheckRetry, CheckFail, netVars, serverVars, Elems, Sending
<1>2. pend \in [Msg -> Entry] /\ queue \in Seq(Msg) /\ check \in [retry : SUBSET Msg, fail : SUBSET Msg]
  BY DEF Types, Typed
<1>3. ASSUME NEW T \in SUBSET Msg, CheckPending(T)
      PROVE  Lined' /\ HeldAsked'
  <2>1. UNCHANGED <<queue, delayed>> BY <1>3 DEF CheckPending
  <2>2. \A m \in T : m \in Msg /\ Pending(m) BY <1>3 DEF CheckPending, Types, Shapes
  <2>3. check'.retry \subseteq T BY <1>3 DEF CheckPending
  <2>4. \A m \in Msg : Pending(m)' => Pending(m)
    BY <1>2, <1>3 DEF CheckPending, Pending, NoEntry, Entry
  <2>5. Lined' BY <1>1, <2>1, NothingMoves
  <2>6. Held' \subseteq Held BY <1>1, <2>1, <2>2, <2>3, <2>4 DEF Held, Elems
  <2> QED BY <1>1, <2>5, <2>6 DEF HeldAsked
<1>4. ASSUME NEW m \in Msg, CheckRetry(m)
      PROVE  Lined' /\ HeldAsked'
  <2>1. /\ m \in check.retry /\ check'.retry \subseteq check.retry /\ UNCHANGED pend
        /\ queue' = Append(queue, m) /\ delayed' = delayed \cup {m}
    BY <1>2, <1>4 DEF CheckRetry
  <2>2. Lined' BY <1>1, <2>1, Requeued
  <2>3. Elems(queue)' = Elems(queue) \cup {m}
    <3>1. Elems(Append(queue, m)) = Elems(queue) \cup {m} BY <1>2, Appended
    <3> QED BY <2>1, <3>1 DEF Elems
  <2>4. Held' \subseteq Held BY <1>1, <2>1, <2>3 DEF Held, Pending
  <2> QED BY <1>1, <2>2, <2>4 DEF HeldAsked
<1>5. ASSUME NEW m \in Msg, CheckFail(m)
      PROVE  Lined' /\ HeldAsked'
  <2>1. UNCHANGED <<pend, queue, delayed>> /\ check'.retry = check.retry
    BY <1>2, <1>5 DEF CheckFail
  <2>2. Lined' BY <1>1, <2>1, NothingMoves
  <2>3. Held' \subseteq Held BY <1>1, <2>1 DEF Held, Pending, Elems
  <2> QED BY <1>1, <2>2, <2>3 DEF HeldAsked
<1> QED BY <1>3, <1>4, <1>5 DEF CheckStep

LEMMA LinedServer ==
  ASSUME OInv, Serve
  PROVE  Lined' /\ HeldAsked'
<1> USE DEF OInv
<1> DEFINE m == Head(wire)
<1>1. /\ wire # <<>> /\ wire' = Tail(wire) /\ (log' = log \/ log' = Append(log, m))
      /\ UNCHANGED <<pend, queue, worker, check, late, asked, delayed>>
  BY DEF Serve, Store, clientVars, historyVars
<1>2. /\ m \in Msg /\ wire \in Seq(Msg) /\ log \in Seq(Msg)
      /\ Elems(wire) = {m} \cup Elems(wire')
  BY <1>1, TakenOff DEF Types, Typed
<1>3. /\ Elems(asked)' = Elems(asked) /\ Elems(queue)' = Elems(queue)
      /\ Elems(wire)' = Elems(wire') /\ Sending' = Sending
  BY <1>1 DEF Elems, Sending
<1>4. Elems(log)' \subseteq Elems(log) \cup {m}
  <2>1. Elems(Append(log, m)) = Elems(log) \cup {m} BY <1>2, Appended
  <2>2. Elems(log)' = Elems(log') BY DEF Elems
  <2> QED BY <1>1, <2>1, <2>2
<1>5. \A a, b : Ord(log, a, b)' => Ord(log, a, b) \/ (a \in Elems(log) /\ b = m)
  <2>1. \A a, b : Ord(Append(log, m), a, b) => Ord(log, a, b) \/ (a \in Elems(log) /\ b = m)
    BY <1>2, OrdAppended
  <2>2. SUFFICES ASSUME NEW a, NEW b, Ord(log', a, b)
                 PROVE  Ord(log, a, b) \/ (a \in Elems(log) /\ b = m)
    BY OrdNext
  <2>3. CASE log' = log BY <2>2, <2>3
  <2>4. CASE log' = Append(log, m) BY <2>1, <2>2, <2>4
  <2> QED BY <1>1, <2>3, <2>4
<1>6. /\ \A a, b : Ord(wire, a, b)' => Ord(wire, a, b)
      /\ \A b \in Elems(wire)' : Ord(wire, m, b)
      /\ \A a, b : Ord(queue, a, b)' = Ord(queue, a, b)
  <2>1. \A a, b : /\ Ord(Tail(wire), a, b) => Ord(wire, a, b)
                  /\ a = m /\ b \in Elems(Tail(wire)) => Ord(wire, a, b)
    BY <1>1, <1>2, OrdTakenOff
  <2> QED BY <1>1, <1>3, <2>1, OrdNext
<1>7. \A a, b \in Msg : Before(a, b)' => Before(a, b)
  BY <1>1, <1>2, <1>3, <1>4, <1>5, <1>6 DEF Before
<1>8. Held' \subseteq Held BY <1>1, <1>2, <1>3, <1>4 DEF Held, Pending
<1> QED BY <1>1, <1>3, <1>7, <1>8, LinedKept DEF HeldAsked

LEMMA LinedLate ==
  ASSUME OInv, NEW m \in Msg, ServeLate(m)
  PROVE  Lined' /\ HeldAsked'
<1> USE DEF OInv
<1>1. /\ m \in late /\ m \in delayed /\ late' \subseteq late /\ (log' = log \/ log' = Append(log, m))
      /\ UNCHANGED <<pend, queue, worker, wire, check, asked, delayed>>
  BY DEF ServeLate, Store, clientVars, historyVars
<1>2. /\ Elems(asked)' = Elems(asked) /\ Elems(queue)' = Elems(queue)
      /\ Elems(wire)' = Elems(wire) /\ Sending' = Sending
      /\ \A a, b : Ord(queue, a, b)' = Ord(queue, a, b) /\ Ord(wire, a, b)' = Ord(wire, a, b)
  BY <1>1 DEF Elems, Sending, Ord
<1>3. log \in Seq(Msg) BY DEF Types, Typed
<1>4. Elems(log)' \subseteq Elems(log) \cup {m}
  <2>1. Elems(Append(log, m)) = Elems(log) \cup {m} BY <1>3, Appended
  <2>2. Elems(log)' = Elems(log') BY DEF Elems
  <2> QED BY <1>1, <2>1, <2>2
<1>5. \A a, b : Ord(log, a, b)' => Ord(log, a, b) \/ b = m
  <2>1. \A a, b : Ord(Append(log, m), a, b) => Ord(log, a, b) \/ b = m
    BY <1>3, OrdAppended
  <2> QED BY <1>1, <2>1, OrdNext
<1>6. \A a, b \in Msg : Before(a, b)' => Before(a, b) \/ b \in delayed'
  BY <1>1, <1>2, <1>4, <1>5 DEF Before
<1>7. Held' \subseteq Held BY <1>1, <1>2, <1>4 DEF Held, Pending
<1> QED BY <1>1, <1>2, <1>6, <1>7, LinedKept DEF HeldAsked

LEMMA LinedElsewhere ==
  ASSUME OInv,
         \/ AnswerStep \/ Connect \/ Refuse \/ Admit \/ Close \/ Start \/ UNCHANGED vars
         \/ \E S \in SUBSET Msg : Drop(S) \/ FinishClose(S) \/ Crash(S)
  PROVE  Lined' /\ HeldAsked'
<1> USE DEF OInv
<1>1. CASE AnswerStep \/ Connect \/ Refuse \/ Admit \/ Close \/ Start \/ UNCHANGED vars
  <2>1. UNCHANGED <<queue, worker, wire, late, check, log, asked, delayed>>
    BY <1>1 DEF AnswerStep, TakeAnswer, SaveAcknowledged, SaveError, Handling, Connect, Refuse,
       Admit, Close, Start, vars, clientVars, netVars, serverVars, historyVars
  <2>2. \A m \in Msg : Pending(m)' => Pending(m)
    <3>1. CASE TakeAnswer
      BY <3>1 DEF TakeAnswer, Pending, NoEntry, Types, Typed
    <3>2. UNCHANGED pend \/ TakeAnswer
      BY <1>1 DEF AnswerStep, SaveAcknowledged, SaveError, Connect, Refuse,
         Admit, Close, Start, vars, clientVars
    <3> QED BY <3>1, <3>2 DEF Pending
  <2>3. Sending' = Sending /\ Elems(asked)' = Elems(asked) BY <2>1 DEF Sending, Elems
  <2>4. Lined' BY <2>1, <2>3, NothingMoves
  <2>5. Held' \subseteq Held BY <2>1, <2>2 DEF Held, Elems
  <2> QED BY <2>3, <2>4, <2>5 DEF HeldAsked
<1>2. ASSUME NEW S \in SUBSET Msg, Drop(S) \/ FinishClose(S) \/ Crash(S)
      PROVE  Lined' /\ HeldAsked'
  <2>1. /\ S \subseteq Elems(wire) /\ wire' = <<>> /\ late' = late \cup S /\ delayed' = delayed \cup S
        /\ UNCHANGED <<asked, log>>
    BY <1>2, Names DEF Drop, FinishClose, Crash, Broken, Forget, serverVars
  <2>2. \/ UNCHANGED <<queue, worker, check, pend>>
        \/ /\ queue' = <<>> /\ worker' = Idle /\ check' = NoCheck
           /\ \A m \in Msg : pend'[m] = NoEntry
    BY <1>2 DEF Drop, FinishClose, Crash, Forget, clientVars
  <2>3. Sending' \subseteq Sending
    BY <2>2, Workers DEF Sending, Busy, Idle
  <2>4. Lined' BY <2>1, <2>2, <2>3, NothingMoves
  <2>5. Elems(asked)' = Elems(asked) /\ Elems(log)' = Elems(log) /\ Elems(wire)' = {}
    BY <2>1 DEF Elems
  <2>6. Held' \subseteq Held
    <3>1. CASE UNCHANGED <<queue, worker, check, pend>>
      BY <2>1, <2>5, <3>1 DEF Held, Pending, Elems
    <3>2. CASE /\ queue' = <<>> /\ worker' = Idle /\ check' = NoCheck
               /\ \A m \in Msg : pend'[m] = NoEntry
      <4>1. Elems(queue)' = {} /\ check'.retry = {} /\ \A m \in Msg : ~Pending(m)'
        BY <3>2 DEF Elems, NoCheck, Pending, NoEntry
      <4> QED BY <2>1, <2>5, <3>2, <4>1 DEF Held
    <3> QED BY <2>2, <3>1, <3>2
  <2> QED BY <2>4, <2>5, <2>6 DEF HeldAsked
<1> QED BY <1>1, <1>2

LEMMA OInvNext == OInv /\ [Next]_vars => OInv'
<1> SUFFICES ASSUME OInv, [Next]_vars PROVE OInv' OBVIOUS
<1>1. Types' BY TypesStep DEF OInv
<1>2. Lined' /\ HeldAsked'
  BY LinedUser, LinedWorker, LinedCheck, LinedServer, LinedLate, LinedElsewhere
     DEF Next, NetStep, EndStep
<1>3. (late \subseteq delayed)'
  <2>1. delayed \subseteq delayed' /\ (late' \subseteq late \/ late' \subseteq delayed')
    <3>1. CASE UserStep BY <3>1 DEF OInv, UserStep, SendMessage, RetryMessage, SaveRetry, Enqueue,
             netVars, historyVars
    <3>2. CASE WorkerStep BY <3>2 DEF WorkerStep, Working, TakeQueued, Transmit, ReportWritten,
             ReportStray, ReportRefused, ReportExhausted, NapEnds, SaveGivenUp
    <3>3. CASE CheckStep BY <3>3 DEF CheckStep, Checking, CheckPending, CheckRetry, CheckFail,
             netVars
    <3>4. CASE AnswerStep BY <3>4 DEF AnswerStep, TakeAnswer, SaveAcknowledged, SaveError, Handling,
             historyVars
    <3>5. CASE NetStep BY <3>5 DEF OInv, NetStep, Connect, Serve, Refuse, Admit, Drop, ServeLate, Broken,
             netVars, historyVars
    <3>6. CASE EndStep BY <3>6 DEF OInv, EndStep, Close, Start, FinishClose, Crash, Broken,
             netVars, historyVars
    <3>7. CASE UNCHANGED vars BY <3>7 DEF vars, netVars, historyVars
    <3> QED BY <3>1, <3>2, <3>3, <3>4, <3>5, <3>6, <3>7 DEF Next
  <2> QED BY <2>1 DEF OInv
<1> QED BY <1>1, <1>2, <1>3 DEF OInv

LEMMA OInvInit == Init => OInv
<1> SUFFICES ASSUME Init PROVE OInv OBVIOUS
<1>1. Types BY IInvInit DEF IInv
<1>2. Sending = {} BY DEF Init, Sending, Busy, Idle
<1>3. Lined BY <1>2, OrdEmptied, Emptied DEF Lined, Before, Init
<1>4. HeldAsked BY Emptied DEF HeldAsked, Held, Init, Pending, NoEntry, NoCheck
<1>5. late \subseteq delayed BY DEF Init
<1> QED BY <1>1, <1>3, <1>4, <1>5 DEF OInv

(* What was asked first is stored first, whatever is lost, repeated or     *)
(* answered late meanwhile, unless the message was queued a second time or *)
(* was on the wire when the connection broke.                              *)
THEOREM AskedFirstStoredFirst == Spec => []OrderKept
<1>1. OInv => OrderKept
  <2> SUFFICES ASSUME OInv, NEW i \in DOMAIN log, NEW j \in DOMAIN log,
                      NEW k \in DOMAIN asked, NEW l \in DOMAIN asked,
                      i < j, k < l, asked[k] = log[j], asked[l] = log[i]
               PROVE  log[j] \in delayed
    BY DEF OrderKept
  <2>1. log[i] \in Msg /\ log[j] \in Msg /\ k <= l BY DEF OInv, Types, Typed
  <2>2. Before(log[i], log[j]) BY DEF Before, Ord
  <2>3. Precedes(log[j], log[i]) BY <2>1 DEF Precedes
  <2> QED BY <2>1, <2>2, <2>3 DEF OInv, Lined
<1>2. Spec => []OInv BY OInvInit, OInvNext, PTL DEF Spec
<1> QED BY <1>1, <1>2, PTL
=============================================================================
