-------------------------- MODULE SessionLogProofs --------------------------
(***************************************************************************)
(* Proofs about SessionLog: its types, that the log tells all about the    *)
(* table, and that the numbers increase, for any messages and contents and *)
(* a log of any length.                                                    *)
(*                                                                         *)
(* Every operation replaces the row of one message and appends one entry   *)
(* about it, so one lemma about such a step serves them all; the           *)
(* operations then only have to say that the new row shows what the new    *)
(* entry says, and that the entry's number is beyond its counter.          *)
(***************************************************************************)
EXTENDS SessionLog, TLAPS

RowsNumbered == \A m \in Msg : Exists(m) => rows[m].seq <= msgSeq

LogInv == LogTypeOK /\ TableIsReplay /\ NumbersIncrease /\ RowsNumbered

\* what appending an entry does to the log
LEMMA Appending ==
  ASSUME log \in Seq(Entry), NEW e \in Entry, log' = Append(log, e)
  PROVE  /\ Len(log) + 1 \in Nat
         /\ DOMAIN log' = DOMAIN log \cup {Len(log) + 1}
         /\ log'[Len(log) + 1] = e
         /\ \A i \in DOMAIN log : i \in Nat /\ i < Len(log) + 1 /\ log'[i] = log[i]
         /\ log' \in Seq(Entry)
         /\ \A i \in DOMAIN log : log[i] \in Entry
OBVIOUS

\* the step all operations share: the row of m and one entry about m
StepOf(m, e) ==
  /\ log' = Append(log, e)
  /\ e.msg = m
  /\ \A n \in Msg : n # m => rows'[n] = rows[n]

\* the log still tells all, once the new row shows what the new entry says
LEMMA StepKeepsReplay ==
  ASSUME LogTypeOK, TableIsReplay, NEW m \in Msg, NEW e \in Entry, StepOf(m, e),
         View(m)' = Says(e)
  PROVE  TableIsReplay'
<1> DEFINE top == Len(log) + 1
<1>1. /\ top \in Nat
      /\ DOMAIN log' = DOMAIN log \cup {top}
      /\ log'[top] = e
      /\ \A i \in DOMAIN log : i \in Nat /\ i < top /\ log'[i] = log[i]
      /\ \A i \in DOMAIN log : log[i] \in Entry
  BY Appending DEF LogTypeOK, StepOf
<1>2. \A n \in Msg : n # m => View(n)' = View(n) /\ About(n)' = About(n)
  BY <1>1 DEF View, About, StepOf
<1>3. top \in About(m)'
  BY <1>1 DEF About, StepOf
<1>4. \A n \in Msg : About(n)' = {} => View(n)' = Nothing
  BY <1>2, <1>3 DEF TableIsReplay
<1>5. ASSUME NEW i \in DOMAIN log', IsNewest(i)'
      PROVE  View(log[i].msg)' = Says(log[i])'
  <2>1. CASE i = top
    <3>1. log'[i].msg = m
      BY <2>1, <1>1 DEF StepOf
    <3>2. Says(log[i])' = Says(e)
      BY <2>1, <1>1 DEF Says
    <3>3. View(log[i].msg)' = View(m)'
      BY <3>1 DEF View
    <3> QED BY <3>2, <3>3
  <2>2. CASE i # top
    <3>1. i \in DOMAIN log /\ log'[i] = log[i] /\ i < top /\ i \in Nat
      BY <2>2, <1>1
    <3>2. log[i].msg # m
      BY <1>1, <1>3, <1>5, <3>1 DEF IsNewest
    <3>3. log[i].msg \in Msg
      BY <1>1, <3>1 DEF Entry
    <3>4. About(log[i].msg)' = About(log[i].msg) /\ View(log[i].msg)' = View(log[i].msg)
      BY <1>2, <3>1, <3>2, <3>3 DEF View, About
    <3>5. IsNewest(i)
      BY <1>5, <3>1, <3>4 DEF IsNewest
    <3>6. View(log[i].msg) = Says(log[i])
      BY <3>1, <3>5 DEF TableIsReplay
    <3> QED BY <3>1, <3>4, <3>6 DEF Says
  <2> QED BY <2>1, <2>2
<1> QED BY <1>4, <1>5 DEF TableIsReplay

\* an entry numbered beyond its counter keeps the numbers increasing
LEMMA StepKeepsNumbers ==
  ASSUME LogTypeOK, NumbersIncrease, RowsNumbered,
         NEW m \in Msg, NEW e \in Entry, StepOf(m, e),
         msgSeq' \in Nat, eventSeq' \in Nat,
         msgSeq' = IF e.kind = "chat" THEN msgSeq + 1 ELSE msgSeq,
         eventSeq' = IF e.kind = "chat" THEN eventSeq ELSE eventSeq + 1,
         e.seq = IF e.kind = "chat" THEN msgSeq' ELSE eventSeq',
         Exists(m)' => \/ rows'[m].seq = msgSeq' /\ e.kind = "chat"
                       \/ Exists(m) /\ rows'[m].seq = rows[m].seq
  PROVE  NumbersIncrease' /\ RowsNumbered'
<1> DEFINE top == Len(log) + 1
<1>1. /\ top \in Nat
      /\ DOMAIN log' = DOMAIN log \cup {top}
      /\ log'[top] = e
      /\ \A i \in DOMAIN log : i \in Nat /\ i < top /\ log'[i] = log[i]
      /\ \A i \in DOMAIN log : log[i] \in Entry
  BY Appending DEF LogTypeOK, StepOf
<1>2. msgSeq \in Nat /\ eventSeq \in Nat /\ \A n \in Msg : rows[n].seq \in Nat
  BY DEF LogTypeOK
<1>3. \A i \in DOMAIN log' :
        log'[i].seq <= IF log'[i].kind = "chat" THEN msgSeq' ELSE eventSeq'
  <2>1. \A i \in DOMAIN log : log[i].seq \in Nat
    BY <1>1 DEF Entry
  <2>2. \A i \in DOMAIN log :
          log[i].seq <= IF log[i].kind = "chat" THEN msgSeq ELSE eventSeq
    BY DEF NumbersIncrease
  <2> QED BY <1>1, <1>2, <2>1, <2>2
<1>4. ASSUME NEW i \in DOMAIN log', NEW j \in DOMAIN log', i < j,
             log'[i].kind = "chat" <=> log'[j].kind = "chat"
      PROVE  log'[i].seq < log'[j].seq
  <2>1. i \in DOMAIN log /\ log'[i] = log[i] /\ log[i].seq \in Nat
    BY <1>1, <1>4 DEF Entry
  <2>2. CASE j \in DOMAIN log
    BY <1>1, <1>4, <2>1, <2>2 DEF NumbersIncrease
  <2>3. CASE j = top
    <3>1. log[i].seq <= IF log[i].kind = "chat" THEN msgSeq ELSE eventSeq
      BY <2>1 DEF NumbersIncrease
    <3> QED BY <1>1, <1>2, <1>4, <2>1, <2>3, <3>1
  <2> QED BY <1>1, <2>2, <2>3
<1>5. RowsNumbered'
  BY <1>2 DEF RowsNumbered, Exists, StepOf
<1>6. \A n, k \in Msg :
        Exists(n)' /\ Exists(k)' /\ rows'[n].seq = rows'[k].seq => n = k
  <2>1. \A n, k \in Msg :
          Exists(n) /\ Exists(k) /\ rows[n].seq = rows[k].seq => n = k
    BY DEF NumbersIncrease
  <2> QED BY <1>2, <2>1 DEF RowsNumbered, Exists, StepOf
<1> QED BY <1>3, <1>4, <1>5, <1>6 DEF NumbersIncrease

-----------------------------------------------------------------------------

LEMMA LogInitInv == LogInit => LogInv
<1> SUFFICES ASSUME LogInit PROVE LogInv
  OBVIOUS
<1>1. DOMAIN log = {} /\ log \in Seq(Entry)
  BY DEF LogInit
<1>2. LogTypeOK
  BY <1>1 DEF LogInit, LogTypeOK, NoRow, Statuses
<1>3. TableIsReplay
  BY <1>1 DEF LogInit, TableIsReplay, View, Nothing, NoRow
<1>4. NumbersIncrease /\ RowsNumbered
  BY <1>1 DEF LogInit, NumbersIncrease, RowsNumbered, Exists, NoRow
<1> QED BY <1>2, <1>3, <1>4 DEF LogInv

LEMMA CreateInv ==
  ASSUME LogInv, NEW m \in Msg, NEW b \in Body, Create(m, b) PROVE LogInv'
<1> DEFINE e == [kind |-> "chat", msg |-> m, body |-> b, seq |-> msgSeq + 1]
<1>1. LogTypeOK /\ TableIsReplay /\ NumbersIncrease /\ RowsNumbered
  BY DEF LogInv
<1>2. e \in Entry /\ StepOf(m, e) /\ log' \in Seq(Entry)
  BY <1>1, Appending DEF LogTypeOK, Create, Entry, Kinds, StepOf
<1>3. rows'[m] = [seq |-> msgSeq + 1, status |-> "sent", body |-> b]
  BY <1>1 DEF LogTypeOK, Create
<1>4. LogTypeOK'
  BY <1>1, <1>2 DEF LogTypeOK, Create, Statuses
<1>5. View(m)' = Says(e)
  BY <1>3 DEF View, Says
<1>6. TableIsReplay'
  BY <1>1, <1>2, <1>5, StepKeepsReplay
<1>7. NumbersIncrease' /\ RowsNumbered'
  BY <1>1, <1>2, <1>3, <1>4, StepKeepsNumbers DEF LogTypeOK, Create
<1> QED BY <1>4, <1>6, <1>7 DEF LogInv

\* the operations that record an event and keep or remove the row's number
LEMMA EventInv ==
  ASSUME LogInv, NEW m \in Msg, NEW kind \in Kinds \ {"chat"},
         NEW b \in Body \cup {None}, RecordEvent(kind, m, b),
         rows' \in [Msg -> [seq : Nat, status : Statuses, body : Body \cup {None}]],
         \A n \in Msg : n # m => rows'[n] = rows[n],
         Exists(m)' => Exists(m) /\ rows'[m].seq = rows[m].seq,
         View(m)' = Says([kind |-> kind, msg |-> m, body |-> b,
                          seq |-> eventSeq + 1])
  PROVE  LogInv'
<1> DEFINE e == [kind |-> kind, msg |-> m, body |-> b, seq |-> eventSeq + 1]
<1>1. LogTypeOK /\ TableIsReplay /\ NumbersIncrease /\ RowsNumbered
  BY DEF LogInv
<1>2. e \in Entry /\ StepOf(m, e) /\ log' \in Seq(Entry)
  BY <1>1, Appending DEF LogTypeOK, RecordEvent, Entry, StepOf
<1>3. LogTypeOK'
  BY <1>1, <1>2 DEF LogTypeOK, RecordEvent
<1>4. TableIsReplay'
  BY <1>1, <1>2, StepKeepsReplay
<1>5. NumbersIncrease' /\ RowsNumbered'
  BY <1>1, <1>2, <1>3, StepKeepsNumbers DEF LogTypeOK, RecordEvent, Kinds
<1> QED BY <1>3, <1>4, <1>5 DEF LogInv

LEMMA EditInv ==
  ASSUME LogInv, NEW m \in Msg, NEW b \in Body, Edit(m, b) PROVE LogInv'
<1>1. LogTypeOK BY DEF LogInv
<1>2. /\ rows' \in [Msg -> [seq : Nat, status : Statuses, body : Body \cup {None}]]
      /\ \A n \in Msg : n # m => rows'[n] = rows[n]
      /\ rows'[m].seq = rows[m].seq /\ rows'[m].status = "edited" /\ rows'[m].body = b
  BY <1>1 DEF Edit, LogTypeOK, Statuses
<1>3. Exists(m) BY DEF Edit, Mutable, Exists
<1>4. View(m)' = Says([kind |-> "edit", msg |-> m, body |-> b, seq |-> eventSeq + 1])
  BY <1>2 DEF View, Says
<1> QED BY <1>2, <1>3, <1>4, EventInv DEF Edit, Kinds

LEMMA RecallInv ==
  ASSUME LogInv, NEW m \in Msg, Recall(m) PROVE LogInv'
<1>1. LogTypeOK BY DEF LogInv
<1>2. /\ rows' \in [Msg -> [seq : Nat, status : Statuses, body : Body \cup {None}]]
      /\ \A n \in Msg : n # m => rows'[n] = rows[n]
      /\ rows'[m].seq = rows[m].seq /\ rows'[m].status = "recalled"
  BY <1>1 DEF Recall, LogTypeOK, Statuses
<1>3. Exists(m) BY DEF Recall, Mutable, Exists
<1>4. View(m)' = Says([kind |-> "recall", msg |-> m, body |-> None, seq |-> eventSeq + 1])
  BY <1>2 DEF View, Says
<1> QED BY <1>2, <1>3, <1>4, EventInv DEF Recall, Kinds

LEMMA DeleteInv ==
  ASSUME LogInv, NEW m \in Msg, Delete(m) PROVE LogInv'
<1>1. LogTypeOK BY DEF LogInv
<1>2. /\ rows' \in [Msg -> [seq : Nat, status : Statuses, body : Body \cup {None}]]
      /\ \A n \in Msg : n # m => rows'[n] = rows[n]
      /\ rows'[m] = NoRow
  BY <1>1 DEF Delete, LogTypeOK, NoRow, Statuses
<1>3. ~Exists(m)' BY <1>2 DEF Exists, NoRow
<1>4. View(m)' = Says([kind |-> "delete", msg |-> m, body |-> None, seq |-> eventSeq + 1])
  BY <1>2 DEF View, Says, NoRow, Nothing
<1> QED BY <1>2, <1>3, <1>4, EventInv DEF Delete, Kinds

LEMMA LogNextInv == ASSUME LogInv, [LogNext]_logVars PROVE LogInv'
<1>1. CASE LogNext
  <2> PICK m \in Msg : \/ \E b \in Body : Create(m, b) \/ Edit(m, b)
                       \/ Recall(m) \/ Delete(m)
    BY <1>1 DEF LogNext
  <2> QED BY CreateInv, EditInv, RecallInv, DeleteInv
<1>2. CASE UNCHANGED logVars
  BY <1>2 DEF logVars, LogInv, LogTypeOK, TableIsReplay, NumbersIncrease,
     RowsNumbered, View, About, IsNewest, Exists
<1> QED BY <1>1, <1>2

\* The session's table, log and counters keep LogInv for ever.
THEOREM LogInvariance == LogSpec => []LogInv
<1>1. LogInit => LogInv BY LogInitInv
<1>2. LogInv /\ [LogNext]_logVars => LogInv' BY LogNextInv
<1> QED BY <1>1, <1>2, PTL DEF LogSpec
=============================================================================
