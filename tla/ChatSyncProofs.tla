--------------------------- MODULE ChatSyncProofs ---------------------------
(***************************************************************************)
(* Proofs about ChatSync: its types, that the session's log keeps its      *)
(* properties under it, and that the client's cursors claim neither more   *)
(* than is committed nor less than was processed, for any messages and     *)
(* contents, and for any bounds on entries, disconnects and crashes.       *)
(*                                                                         *)
(* A step of ChatSync is a step of the session's log or leaves the log     *)
(* alone.  The cursors need a strengthening: the numbers of an item on the *)
(* wire are committed, and those of the item in hand are claimed.          *)
(*                                                                         *)
(* The second half proves Converges: the newest entry about a message was  *)
(* processed or is still coming, and what was processed is shown.          *)
(***************************************************************************)
EXTENDS ChatSync, SessionLogProofs, WellFoundedInduction

-----------------------------------------------------------------------------
(* Greatest elements.                                                      *)

\* a bounded set of numbers has a greatest element
LEMMA BoundedHasMax ==
  ASSUME NEW S \in SUBSET Nat, S # {}, NEW n \in Nat, \A x \in S : x <= n
  PROVE  MaxOf(S) \in S /\ \A y \in S : y <= MaxOf(S)
<1> DEFINE Less == {ss \in Nat \X Nat : ss[1] < ss[2]}
<1> DEFINE T == {n - x : x \in S}
<1>1. T \subseteq Nat /\ T # {}
  <2>1. \A x \in S : n - x \in Nat
    OBVIOUS
  <2> QED BY <2>1
<1>2. PICK t \in T : \A y \in T : <<y, t>> \notin Less
  <2>1. IsWellFoundedOn(Less, Nat)
    BY NatLessThanWellFounded, Zenon DEF OpToRel
  <2> HIDE DEF T, Less
  <2> QED BY <1>1, <2>1, WFMin, Zenon
<1>3. \A y \in T : t <= y
  <2> TAKE y \in T
  <2>1. <<y, t>> \notin Less /\ y \in Nat /\ t \in Nat
    BY <1>1, <1>2
  <2>2. ~(y < t)
    BY <2>1
  <2> QED BY <2>1, <2>2
<1>4. PICK x \in S : t = n - x
  OBVIOUS
<1>5. \A y \in S : y <= x
  <2> TAKE y \in S
  <2>1. n - y \in T /\ t <= n - y
    BY <1>3
  <2> QED BY <1>4, <2>1
<1> QED BY <1>5 DEF MaxOf

-----------------------------------------------------------------------------
(* What is on the wire.                                                    *)

\* an item of a kind carries what the kind carries
LEMMA ItemIs ==
  ASSUME NEW x \in Item
  PROVE  /\ x.kind = "push" => x.at \in DOMAIN log
         /\ x.kind = "history_messages" => x.rows \in SUBSET Row
         /\ x.kind = "history_events" => x.events \in SUBSET DOMAIN log
         /\ x.kind # "idle" /\ (x.kind = "auth_ack" => x = AuthAck)
         /\ x.kind \in {"auth_ack", "push", "history_messages", "history_events"}
BY DEF Item, AuthAck

\* the numbers an item carries, by its kind
LEMMA MessageSeqsOf ==
  ASSUME NEW x
  PROVE  /\ x.kind = "history_messages" => MessageSeqs(x) = {r.seq : r \in x.rows}
         /\ x.kind = "push" /\ log[x.at].kind = "chat"
              => MessageSeqs(x) = {log[x.at].seq}
         /\ x.kind # "history_messages" /\ ~(x.kind = "push" /\ log[x.at].kind = "chat")
              => MessageSeqs(x) = {}
BY DEF MessageSeqs

LEMMA EventSeqsOf ==
  ASSUME NEW x
  PROVE  /\ x.kind = "history_events" => EventSeqs(x) = {log[i].seq : i \in x.events}
         /\ x.kind = "push" /\ log[x.at].kind # "chat"
              => EventSeqs(x) = {log[x.at].seq}
         /\ x.kind # "history_events" /\ ~(x.kind = "push" /\ log[x.at].kind # "chat")
              => EventSeqs(x) = {}
BY DEF EventSeqs

\* a committed entry stays where it is, and numbers only grow
LEMMA LogGrows ==
  ASSUME LogInv, LogNext
  PROVE  /\ Len(log) \in Nat /\ Len(log') = Len(log) + 1
         /\ DOMAIN log' = DOMAIN log \cup {Len(log) + 1}
         /\ \A i \in DOMAIN log : i \in Nat /\ i <= Len(log) /\ log'[i] = log[i]
         /\ log \in Seq(Entry) /\ log' \in Seq(Entry)
         /\ msgSeq <= msgSeq' /\ eventSeq <= eventSeq'
         /\ msgSeq \in Nat /\ eventSeq \in Nat
         /\ msgSeq' \in Nat /\ eventSeq' \in Nat
<1>1. LogTypeOK /\ LogTypeOK'
  BY LogNextInv DEF LogInv
<1>2. PICK m \in Msg : \/ \E b \in Body : Create(m, b) \/ Edit(m, b)
                       \/ Recall(m) \/ Delete(m)
  BY DEF LogNext
<1>3. \E e : log' = Append(log, e)
  BY <1>2, Zenon DEF Create, Edit, Recall, Delete, RecordEvent
<1>4. \/ msgSeq' = msgSeq + 1 /\ eventSeq' = eventSeq
      \/ msgSeq' = msgSeq /\ eventSeq' = eventSeq + 1
  BY <1>2, Zenon DEF Create, Edit, Recall, Delete, RecordEvent
<1>5. msgSeq <= msgSeq' /\ eventSeq <= eventSeq'
  BY <1>1, <1>4 DEF LogTypeOK
<1> QED BY <1>1, <1>3, <1>5 DEF LogTypeOK

\* what could be on the wire still can
LEMMA ItemsStay ==
  ASSUME LogInv, LogNext
  PROVE  Item \subseteq Item'
BY LogGrows DEF Item, Row

-----------------------------------------------------------------------------
(* The inductive invariant.                                                *)

\* the rows of an item are numbered by the server, its events are events
Sound(x) ==
  /\ x.kind = "history_messages" => \A r \in x.rows : r.seq <= msgSeq
  /\ x.kind = "history_events" => \A i \in x.events : log[i].kind # "chat"

\* the cursors cover an item
Claimed(x) ==
  /\ \A s \in MessageSeqs(x) : s <= cursor.msg
  /\ \A s \in EventSeqs(x) : s <= cursor.event

CursorInv ==
  /\ CursorsClaimWhatWasTaken
  /\ \A k \in DOMAIN wire : Sound(wire[k])
  /\ \A i \in owed.events : log[i].kind # "chat"
  /\ Sound(proc) /\ Claimed(proc)

IInv == TypeOK /\ LogInv /\ CursorInv

\* the numbers of a sound item are below the server's counters
LEMMA SeqsCommitted ==
  ASSUME LogInv, NEW x \in Item, Sound(x)
  PROVE  /\ MessageSeqs(x) \in SUBSET Nat /\ \A s \in MessageSeqs(x) : s <= msgSeq
         /\ EventSeqs(x) \in SUBSET Nat /\ \A s \in EventSeqs(x) : s <= eventSeq
<1>1. \A i \in DOMAIN log :
        /\ log[i].seq \in Nat
        /\ log[i].seq <= IF log[i].kind = "chat" THEN msgSeq ELSE eventSeq
  <2>1. \A i \in DOMAIN log : log[i] \in Entry
    BY DEF LogInv, LogTypeOK
  <2> QED BY <2>1 DEF LogInv, NumbersIncrease, Entry
<1>2. CASE x.kind = "push"
  BY <1>1, <1>2, ItemIs, MessageSeqsOf, EventSeqsOf
<1>3. CASE x.kind = "history_messages"
  <2>1. MessageSeqs(x) = {r.seq : r \in x.rows} /\ EventSeqs(x) = {}
    BY <1>3, MessageSeqsOf, EventSeqsOf
  <2>2. \A r \in x.rows : r.seq \in Nat /\ r.seq <= msgSeq
    BY <1>3, ItemIs DEF Sound, Row
  <2> QED BY <2>1, <2>2
<1>4. CASE x.kind = "history_events"
  <2>1. EventSeqs(x) = {log[i].seq : i \in x.events} /\ MessageSeqs(x) = {}
    BY <1>4, MessageSeqsOf, EventSeqsOf
  <2>2. \A i \in x.events : log[i].seq \in Nat /\ log[i].seq <= eventSeq
    BY <1>1, <1>4, ItemIs DEF Sound
  <2> QED BY <2>1, <2>2
<1>5. CASE x.kind = "auth_ack"
  BY <1>5, MessageSeqsOf, EventSeqsOf
<1> QED BY <1>2, <1>3, <1>4, <1>5, ItemIs

\* with the entries an item names in place, it carries the same numbers
LEMMA SeqsStay ==
  ASSUME NEW x,
         x.kind = "push" => log'[x.at] = log[x.at],
         x.kind = "history_events" => \A i \in x.events : log'[i] = log[i]
  PROVE  MessageSeqs(x)' = MessageSeqs(x) /\ EventSeqs(x)' = EventSeqs(x)
<1>1. MessageSeqs(x)' = MessageSeqs(x)
  BY Zenon DEF MessageSeqs
<1>2. CASE x.kind = "history_events"
  <2>1. {log'[i].seq : i \in x.events} = {log[i].seq : i \in x.events}
    BY <1>2
  <2> QED BY <1>1, <1>2, <2>1, Zenon DEF EventSeqs
<1>3. CASE x.kind # "history_events"
  BY <1>1, <1>3, Zenon DEF EventSeqs
<1> QED BY <1>2, <1>3

\* a step that leaves the log alone leaves alone what is said of it
LEMMA LogRests ==
  ASSUME IInv, UNCHANGED logVars
  PROVE  /\ LogInv' /\ LogTypeOK' /\ Item' = Item
         /\ \A x : /\ MessageSeqs(x)' = MessageSeqs(x)
                  /\ EventSeqs(x)' = EventSeqs(x)
                  /\ Sound(x)' = Sound(x)
         /\ \A i, c : Above(i, c)' = Above(i, c)
<1>1. LogInv' /\ LogTypeOK'
  BY LogNextInv DEF IInv, LogInv
<1>2. Item' = Item
  BY DEF Item, Row, logVars
<1>3. \A x : MessageSeqs(x)' = MessageSeqs(x) /\ EventSeqs(x)' = EventSeqs(x)
  BY SeqsStay DEF logVars
<1>4. \A x : Sound(x)' = Sound(x)
  BY DEF Sound, logVars
<1>5. \A i, c : Above(i, c)' = Above(i, c)
  BY DEF Above, logVars
<1> QED BY <1>1, <1>2, <1>3, <1>4, <1>5

LEMMA InitInv == Init => IInv
<1> SUFFICES ASSUME Init PROVE IInv
  OBVIOUS
<1>1. LogInv
  BY LogInitInv DEF Init
<1>2. TypeOK
  BY <1>1, BoundsAreNat
  DEF Init, TypeOK, LogInv, NoAsk, NotOwed, Cursors, Idle, Item, Shown, Nothing,
      Statuses, LogInit
<1>3. MessageSeqs(Idle) = {} /\ EventSeqs(Idle) = {} /\ Sound(Idle)
  BY MessageSeqsOf, EventSeqsOf DEF Idle, Sound
<1>4. CursorInv
  BY <1>3, <1>1 DEF Init, CursorInv, Claimed, CursorsClaimWhatWasTaken, NotOwed,
     LogInit
<1> QED BY <1>1, <1>2, <1>4 DEF IInv

-----------------------------------------------------------------------------
(* The server's steps.                                                     *)

LEMMA CommitInv == ASSUME IInv, Commit PROVE IInv'
<1>1. LogNext /\ LogInv /\ TypeOK /\ CursorInv
  BY DEF Commit, IInv
<1>2. LogInv' /\ LogTypeOK'
  BY <1>1, LogNextInv DEF LogInv
<1>3. /\ Len(log) \in Nat /\ Len(log') = Len(log) + 1
      /\ DOMAIN log' = DOMAIN log \cup {Len(log) + 1}
      /\ \A i \in DOMAIN log : log'[i] = log[i]
      /\ msgSeq \in Nat /\ msgSeq' \in Nat /\ msgSeq <= msgSeq'
      /\ eventSeq \in Nat /\ eventSeq' \in Nat /\ eventSeq <= eventSeq'
  BY <1>1, LogGrows
<1>4. Item \subseteq Item'
  BY <1>1, ItemsStay
<1>5. /\ UNCHANGED <<link, wire, ask, owed, clientVars, drops, crashes, historyVars>>
      /\ pend' = pend \cup {Len(log) + 1}
  BY DEF Commit
<1>6. TypeOK'
  <2>1. wire' \in Seq(Item') /\ proc' \in Item' \cup {Idle}
    BY <1>1, <1>4, <1>5 DEF TypeOK, clientVars
  <2>2. last' \in [Msg -> 0..Len(log')]
    BY <1>1, <1>3, <1>5 DEF TypeOK, historyVars
  <2>3. pend' \subseteq DOMAIN log' /\ got' \subseteq DOMAIN log'
        /\ owed' \in [open : BOOLEAN, events : SUBSET DOMAIN log']
    BY <1>1, <1>3, <1>5 DEF TypeOK, historyVars
  <2> QED BY <1>1, <1>2, <1>5, <2>1, <2>2, <2>3
          DEF TypeOK, clientVars, historyVars, Cursors
<1>7. ASSUME NEW x \in Item, Sound(x) PROVE Sound(x)'
  <2>1. x.kind = "history_messages" => \A r \in x.rows : r.seq \in Nat
    BY <1>7, ItemIs DEF Row
  <2>2. x.kind = "history_events" => x.events \in SUBSET DOMAIN log
    BY <1>7, ItemIs
  <2> QED BY <1>3, <1>7, <2>1, <2>2 DEF Sound
<1>8. ASSUME NEW x \in Item
      PROVE  MessageSeqs(x)' = MessageSeqs(x) /\ EventSeqs(x)' = EventSeqs(x)
  BY <1>3, <1>8, ItemIs, SeqsStay
<1>9. CursorInv'
  <2>1. \A k \in DOMAIN wire' : Sound(wire[k])'
    <3>1. \A k \in DOMAIN wire : wire[k] \in Item /\ Sound(wire[k])
      BY <1>1 DEF CursorInv, TypeOK
    <3> QED BY <1>5, <1>7, <3>1 DEF Sound
  <2>2. Sound(proc)' /\ Claimed(proc)'
    <3>1. CASE proc \in Item
      BY <1>1, <1>5, <1>7, <1>8, <3>1
      DEF CursorInv, Claimed, Sound, MessageSeqs, EventSeqs, clientVars
    <3>2. CASE proc = Idle
      <4>1. MessageSeqs(Idle)' = {} /\ EventSeqs(Idle)' = {}
        BY MessageSeqsOf, EventSeqsOf, SeqsStay DEF Idle
      <4> QED BY <1>5, <3>2, <4>1 DEF Claimed, Sound, Idle, clientVars
    <3> QED BY <1>1, <3>1, <3>2 DEF TypeOK
  <2>3. CursorsClaimWhatWasTaken'
    <3>1. cursor' = cursor /\ got' = got /\ cursor \in Cursors /\ got \subseteq DOMAIN log
      BY <1>1, <1>5 DEF clientVars, historyVars, TypeOK
    <3> QED BY <1>1, <1>3, <3>1
            DEF CursorInv, CursorsClaimWhatWasTaken, Above, Cursors
  <2>4. \A i \in owed'.events : log'[i].kind # "chat"
    BY <1>1, <1>3, <1>5 DEF CursorInv, TypeOK
  <2> QED BY <2>1, <2>2, <2>3, <2>4 DEF CursorInv
<1> QED BY <1>2, <1>6, <1>9 DEF IInv

\* a step that only writes an item, or lets go of the connection
LEMMA WriteInv ==
  ASSUME IInv, UNCHANGED <<logVars, clientVars, got, last>>,
         pend' \subseteq pend, link' \in {"down", "bound"},
         ask' \in [msg : Nat, event : Nat, open : BOOLEAN],
         base' \in Cursors, drops' \in 0..MaxDrops, crashes' \in 0..MaxCrashes,
         owed' \in [open : BOOLEAN, events : SUBSET DOMAIN log],
         \A i \in owed'.events : log[i].kind # "chat",
         wire' \in Seq(Item), \A k \in DOMAIN wire' : Sound(wire'[k])
  PROVE  IInv'
<1>1. /\ LogInv' /\ LogTypeOK' /\ Item' = Item
      /\ \A x : /\ MessageSeqs(x)' = MessageSeqs(x)
               /\ EventSeqs(x)' = EventSeqs(x)
               /\ Sound(x)' = Sound(x)
      /\ \A i, c : Above(i, c)' = Above(i, c)
  BY LogRests
<1>2. TypeOK /\ CursorInv
  BY DEF IInv
<1>3. TypeOK'
  BY <1>1, <1>2 DEF TypeOK, logVars, clientVars
<1>4. CursorInv'
  <2>1. Sound(proc)' /\ Claimed(proc)'
    BY <1>1, <1>2 DEF CursorInv, Claimed, clientVars
  <2>2. CursorsClaimWhatWasTaken'
    BY <1>1, <1>2 DEF CursorInv, CursorsClaimWhatWasTaken, Above, logVars, clientVars
  <2>3. \A k \in DOMAIN wire' : Sound(wire[k])'
    BY <1>1 DEF Sound
  <2> QED BY <2>1, <2>2, <2>3 DEF CursorInv, logVars
<1> QED BY <1>1, <1>3, <1>4 DEF IInv

\* one more item on the wire is sound with the others
LEMMA AppendSound ==
  ASSUME IInv, NEW x \in Item, Sound(x), wire' = Append(wire, x)
  PROVE  wire' \in Seq(Item) /\ \A k \in DOMAIN wire' : Sound(wire'[k])
<1>1. wire \in Seq(Item) /\ \A k \in DOMAIN wire : Sound(wire[k])
  BY DEF IInv, TypeOK, CursorInv
<1>2. /\ wire' \in Seq(Item) /\ DOMAIN wire' = DOMAIN wire \cup {Len(wire) + 1}
      /\ wire'[Len(wire) + 1] = x
      /\ \A k \in DOMAIN wire : wire'[k] = wire[k]
  BY <1>1
<1> QED BY <1>1, <1>2

\* one item less, too
LEMMA TailSound ==
  ASSUME IInv, wire # <<>>, wire' = Tail(wire)
  PROVE  /\ wire' \in Seq(Item) /\ \A k \in DOMAIN wire' : Sound(wire'[k])
         /\ Head(wire) \in Item /\ Sound(Head(wire))
<1>1. wire \in Seq(Item) /\ \A k \in DOMAIN wire : Sound(wire[k])
  BY DEF IInv, TypeOK, CursorInv
<1>2. /\ wire' \in Seq(Item) /\ Head(wire) = wire[1] /\ 1 \in DOMAIN wire
      /\ \A k \in DOMAIN wire' : k + 1 \in DOMAIN wire /\ wire'[k] = wire[k + 1]
  BY <1>1
<1>3. Head(wire) \in Item
  BY <1>1, <1>2
<1> QED BY <1>1, <1>2, <1>3

LEMMA WritePushInv == ASSUME IInv, NEW i, WritePush(i) PROVE IInv'
<1>1. TypeOK /\ CursorInv
  BY DEF IInv
<1>2. Push(i) \in Item /\ Sound(Push(i))
  BY <1>1 DEF WritePush, TypeOK, Item, Push, Sound
<1>3. wire' \in Seq(Item) /\ \A k \in DOMAIN wire' : Sound(wire'[k])
  BY <1>1, <1>2, AppendSound DEF WritePush, TypeOK, CursorInv
<1> QED BY <1>1, <1>3, WriteInv DEF WritePush, TypeOK, CursorInv, historyVars

LEMMA BindInv == ASSUME IInv, Bind PROVE IInv'
<1>1. TypeOK /\ CursorInv
  BY DEF IInv
<1>2. AuthAck \in Item /\ Sound(AuthAck)
  BY DEF AuthAck, Item, Sound
<1>3. wire' \in Seq(Item) /\ \A k \in DOMAIN wire' : Sound(wire'[k])
  BY <1>2 DEF Bind
<1> QED BY <1>1, <1>3, WriteInv DEF Bind, TypeOK, CursorInv, historyVars

\* a message that is there has entries, and one of them is the newest
LEMMA NewestIsThere ==
  ASSUME LogInv, NEW m \in Msg, Exists(m)
  PROVE  (CHOOSE i \in About(m) : IsNewest(i)) \in DOMAIN log
<1>1. log \in Seq(Entry) /\ About(m) \subseteq DOMAIN log
  BY DEF LogInv, LogTypeOK, About
<1>2. About(m) # {}
  BY DEF LogInv, TableIsReplay, View, Nothing, Recalled, Exists
<1>3. MaxOf(About(m)) \in About(m) /\ \A j \in About(m) : j <= MaxOf(About(m))
  <2>1. /\ About(m) \in SUBSET Nat /\ Len(log) \in Nat
        /\ \A i \in About(m) : i <= Len(log)
    BY <1>1
  <2> QED BY <1>2, <2>1, BoundedHasMax
<1>4. IsNewest(MaxOf(About(m)))
  BY <1>3 DEF IsNewest, About
<1> QED BY <1>1, <1>3, <1>4

LEMMA ViewIsShown == ASSUME LogTypeOK, NEW m \in Msg PROVE View(m) \in Shown
<1>1. rows[m].status \in Statuses /\ rows[m].body \in Body \cup {None}
  BY DEF LogTypeOK
<1> QED BY <1>1 DEF View, Shown, Recalled, Statuses

LEMMA AnswerSyncInv == ASSUME IInv, AnswerSync PROVE IInv'
<1>1. TypeOK /\ CursorInv /\ LogInv /\ LogTypeOK
  BY DEF IInv, LogInv
<1> DEFINE R == MissingRows(ask.msg)
<1>2. ASSUME NEW r \in R PROVE r \in Row /\ r.seq <= msgSeq
  <2>1. PICK m \in Msg : /\ Exists(m)
                         /\ r = [msg |-> m, seq |-> rows[m].seq, shown |-> View(m),
                                 at |-> CHOOSE i \in About(m) : IsNewest(i)]
    BY <1>2, Zenon DEF MissingRows
  <2>2. rows[m].seq \in Nat /\ rows[m].seq <= msgSeq
    BY <1>1, <2>1 DEF LogInv, LogTypeOK, RowsNumbered
  <2>3. View(m) \in Shown
    BY <1>1, ViewIsShown
  <2>4. (CHOOSE i \in About(m) : IsNewest(i)) \in DOMAIN log
    BY <1>1, <2>1, NewestIsThere
  <2> QED BY <2>1, <2>2, <2>3, <2>4 DEF Row
<1>3. HistoryMessages(R) \in Item /\ Sound(HistoryMessages(R))
  <2> HIDE DEF R
  <2> QED BY <1>2 DEF HistoryMessages, Item, Sound
<1>4. wire' \in Seq(Item) /\ \A k \in DOMAIN wire' : Sound(wire'[k])
  BY <1>3, AppendSound DEF AnswerSync
<1>5. /\ owed' \in [open : BOOLEAN, events : SUBSET DOMAIN log]
      /\ \A i \in owed'.events : log[i].kind # "chat"
  <2>1. MissingEvents(ask.event) \in SUBSET DOMAIN log
        /\ \A i \in MissingEvents(ask.event) : log[i].kind # "chat"
    BY DEF MissingEvents
  <2> QED BY <2>1 DEF AnswerSync
<1>6. ask' \in [msg : Nat, event : Nat, open : BOOLEAN]
  BY DEF AnswerSync, NoAsk
<1> QED BY <1>1, <1>4, <1>5, <1>6, WriteInv DEF AnswerSync, TypeOK, historyVars

LEMMA WriteEventsInv == ASSUME IInv, WriteEvents PROVE IInv'
<1>1. TypeOK /\ CursorInv
  BY DEF IInv
<1>2. HistoryEvents(owed.events) \in Item /\ Sound(HistoryEvents(owed.events))
  BY <1>1 DEF TypeOK, CursorInv, Item, HistoryEvents, Sound
<1>3. wire' \in Seq(Item) /\ \A k \in DOMAIN wire' : Sound(wire'[k])
  BY <1>2, AppendSound DEF WriteEvents
<1> QED BY <1>1, <1>3, WriteInv DEF WriteEvents, TypeOK, NotOwed, historyVars

LEMMA DropInv == ASSUME IInv, Drop PROVE IInv'
<1>1. TypeOK /\ CursorInv
  BY DEF IInv
<1>2. drops' \in 0..MaxDrops
  BY <1>1, BoundsAreNat DEF Drop, TypeOK
<1>3. wire' \in Seq(Item) /\ \A k \in DOMAIN wire' : Sound(wire'[k])
  BY DEF Drop
<1>4. ask' \in [msg : Nat, event : Nat, open : BOOLEAN]
  BY DEF Drop, NoAsk
<1> QED BY <1>1, <1>2, <1>3, <1>4, WriteInv DEF Drop, TypeOK, NotOwed, historyVars

LEMMA AuthenticatedInv == ASSUME IInv, Authenticated PROVE IInv'
<1>1. TypeOK /\ CursorInv
  BY DEF IInv
<1>2. wire' \in Seq(Item) /\ \A k \in DOMAIN wire' : Sound(wire'[k])
  BY TailSound DEF Authenticated
<1>3. ask' \in [msg : Nat, event : Nat, open : BOOLEAN]
  BY <1>1 DEF Authenticated, TypeOK, Cursors
<1> QED BY <1>1, <1>2, <1>3, WriteInv DEF Authenticated, TypeOK, CursorInv

-----------------------------------------------------------------------------
(* The client's steps.                                                     *)

\* taking an item, the cursors claim it, keep what they claimed, and stay
\* within what is committed
LEMMA AdvancedClaims ==
  ASSUME LogInv, cursor \in Cursors, cursor.msg <= msgSeq, cursor.event <= eventSeq,
         NEW x \in Item, Sound(x)
  PROVE  /\ Advanced(x) \in Cursors
         /\ cursor.msg <= Advanced(x).msg /\ Advanced(x).msg <= msgSeq
         /\ cursor.event <= Advanced(x).event /\ Advanced(x).event <= eventSeq
         /\ \A s \in MessageSeqs(x) : s <= Advanced(x).msg
         /\ \A s \in EventSeqs(x) : s <= Advanced(x).event
<1> DEFINE M == {cursor.msg} \cup MessageSeqs(x)
           E == {cursor.event} \cup EventSeqs(x)
<1>1. cursor.msg \in Nat /\ cursor.event \in Nat /\ msgSeq \in Nat /\ eventSeq \in Nat
  BY DEF Cursors, LogInv, LogTypeOK
<1>2. M \in SUBSET Nat /\ M # {} /\ \A s \in M : s <= msgSeq
  BY <1>1, SeqsCommitted
<1>3. E \in SUBSET Nat /\ E # {} /\ \A s \in E : s <= eventSeq
  BY <1>1, SeqsCommitted
<1>4. MaxOf(M) \in M /\ \A s \in M : s <= MaxOf(M)
  <2> HIDE DEF M
  <2> QED BY <1>1, <1>2, BoundedHasMax
<1>5. MaxOf(E) \in E /\ \A s \in E : s <= MaxOf(E)
  <2> HIDE DEF E
  <2> QED BY <1>1, <1>3, BoundedHasMax
<1>6. Advanced(x) = [msg |-> MaxOf(M), event |-> MaxOf(E)]
  BY DEF Advanced
<1> HIDE DEF M, E
<1>7. /\ MaxOf(M) \in Nat /\ MaxOf(M) <= msgSeq
      /\ MaxOf(E) \in Nat /\ MaxOf(E) <= eventSeq
  BY <1>2, <1>3, <1>4, <1>5
<1>8. /\ cursor.msg <= MaxOf(M) /\ \A s \in MessageSeqs(x) : s <= MaxOf(M)
      /\ cursor.event <= MaxOf(E) /\ \A s \in EventSeqs(x) : s <= MaxOf(E)
  BY <1>4, <1>5 DEF M, E
<1> QED BY <1>6, <1>7, <1>8 DEF Cursors

LEMMA TakeInv == ASSUME IInv, Take PROVE IInv'
<1> DEFINE x == Head(wire)
<1>1. TypeOK /\ CursorInv /\ LogInv
  BY DEF IInv
<1>2. /\ wire' \in Seq(Item) /\ \A k \in DOMAIN wire' : Sound(wire'[k])
      /\ x \in Item /\ Sound(x)
  BY TailSound DEF Take
<1>3. /\ LogInv' /\ LogTypeOK' /\ Item' = Item
      /\ \A y : /\ MessageSeqs(y)' = MessageSeqs(y)
               /\ EventSeqs(y)' = EventSeqs(y)
               /\ Sound(y)' = Sound(y)
      /\ \A i, c : Above(i, c)' = Above(i, c)
  BY LogRests DEF Take
<1>4. proc' = x /\ cursor' = Advanced(x)
  BY DEF Take
<1>5. UNCHANGED <<logVars, pend, link, ask, owed, store, recent, drops, crashes,
                  historyVars>>
  BY DEF Take
<1> HIDE DEF x
<1>6. /\ cursor' \in Cursors
      /\ cursor.msg <= cursor'.msg /\ cursor'.msg <= msgSeq
      /\ cursor.event <= cursor'.event /\ cursor'.event <= eventSeq
      /\ \A s \in MessageSeqs(x) : s <= cursor'.msg
      /\ \A s \in EventSeqs(x) : s <= cursor'.event
  BY <1>1, <1>2, <1>4, AdvancedClaims
  DEF TypeOK, CursorInv, CursorsClaimWhatWasTaken
<1>7. TypeOK'
  BY <1>1, <1>2, <1>3, <1>4, <1>5, <1>6 DEF TypeOK, logVars, historyVars
<1>8. CursorInv'
  <2>1. \A k \in DOMAIN wire' : Sound(wire[k])'
    BY <1>2, <1>3 DEF Sound
  <2>2. Sound(proc)' /\ Claimed(proc)'
    <3>1. Sound(proc)'
      BY <1>2, <1>4, <1>5 DEF Sound, logVars
    <3>2. MessageSeqs(proc)' = MessageSeqs(x) /\ EventSeqs(proc)' = EventSeqs(x)
      BY <1>4, <1>5, Zenon DEF MessageSeqs, EventSeqs, logVars
    <3> QED BY <3>1, <3>2, <1>6 DEF Claimed
  <2>3. CursorsClaimWhatWasTaken'
    <3>1. got' = got /\ got \subseteq DOMAIN log /\ cursor \in Cursors
          /\ log \in Seq(Entry)
      BY <1>1, <1>5 DEF historyVars, TypeOK, LogTypeOK
    <3>2. ASSUME NEW i \in got PROVE ~Above(i, cursor)'
      <4>1. ~Above(i, cursor) /\ log[i] \in Entry
        BY <1>1, <3>1 DEF CursorInv, CursorsClaimWhatWasTaken
      <4> QED BY <1>5, <1>6, <3>1, <4>1 DEF Above, logVars, Cursors, Entry
    <3> QED BY <1>5, <1>6, <3>1, <3>2 DEF CursorsClaimWhatWasTaken, logVars
  <2>4. \A i \in owed'.events : log'[i].kind # "chat"
    BY <1>1, <1>5 DEF CursorInv, logVars
  <2> QED BY <2>1, <2>2, <2>3, <2>4 DEF CursorInv
<1> QED BY <1>3, <1>7, <1>8 DEF IInv

\* a step that is done with the item in hand, having processed entries the
\* cursors claim
LEMMA DoneInv ==
  ASSUME IInv, UNCHANGED <<logVars, cursor, base>>, proc' = Idle,
         pend' = pend, link' \in {"down", "bound"}, wire' \in Seq(Item),
         \A k \in DOMAIN wire' : Sound(wire'[k]),
         ask' \in [msg : Nat, event : Nat, open : BOOLEAN],
         owed' = owed \/ owed' = NotOwed,
         drops' = drops, crashes' \in 0..MaxCrashes,
         store' \in [Msg -> Shown], last' \in [Msg -> 0..Len(log)],
         recent' \subseteq Msg, got' \subseteq DOMAIN log,
         \A i \in got' : i \in got \/ ~Above(i, cursor)
  PROVE  IInv'
<1>1. /\ LogInv' /\ LogTypeOK' /\ Item' = Item
      /\ \A y : /\ MessageSeqs(y)' = MessageSeqs(y)
               /\ EventSeqs(y)' = EventSeqs(y)
               /\ Sound(y)' = Sound(y)
      /\ \A i, c : Above(i, c)' = Above(i, c)
  BY LogRests
<1>2. TypeOK /\ CursorInv
  BY DEF IInv
<1>3. TypeOK'
  <2>1. owed' \in [open : BOOLEAN, events : SUBSET DOMAIN log]
    <3>1. NotOwed \in [open : BOOLEAN, events : SUBSET DOMAIN log]
      BY DEF NotOwed
    <3> QED BY <1>2, <3>1 DEF TypeOK
  <2>2. proc' \in Item \cup {Idle}
    OBVIOUS
  <2> QED BY <1>1, <1>2, <2>1, <2>2 DEF TypeOK, logVars
<1>4. CursorInv'
  <2>1. \A k \in DOMAIN wire' : Sound(wire[k])'
    BY <1>1 DEF Sound
  <2>2. Sound(proc)' /\ Claimed(proc)'
    <3>1. MessageSeqs(Idle) = {} /\ EventSeqs(Idle) = {}
      BY MessageSeqsOf, EventSeqsOf DEF Idle
    <3>2. MessageSeqs(proc)' = MessageSeqs(Idle) /\ EventSeqs(proc)' = EventSeqs(Idle)
      BY Zenon DEF MessageSeqs, EventSeqs, logVars
    <3> QED BY <3>1, <3>2 DEF Claimed, Sound, Idle
  <2>3. CursorsClaimWhatWasTaken'
    BY <1>1, <1>2 DEF CursorInv, CursorsClaimWhatWasTaken, Above, logVars
  <2>4. \A i \in owed'.events : log'[i].kind # "chat"
    BY <1>2 DEF CursorInv, logVars, NotOwed
  <2> QED BY <2>1, <2>2, <2>3, <2>4 DEF CursorInv
<1> QED BY <1>1, <1>3, <1>4 DEF IInv

LEMMA EntryTypes ==
  ASSUME LogTypeOK, NEW i \in DOMAIN log
  PROVE  log[i] \in Entry /\ log[i].seq \in Nat /\ log[i].msg \in Msg
<1>1. log[i] \in Entry
  BY DEF LogTypeOK
<1> QED BY <1>1 DEF Entry

\* what an entry says can be shown
LEMMA SaysIsShown == ASSUME NEW e \in Entry PROVE Says(e) \in Shown
<1>1. /\ e.kind \in {"chat", "edit", "recall", "delete"}
      /\ e.body \in Body \cup {None}
  BY DEF Entry, Kinds
<1>2. /\ [status |-> "sent", body |-> e.body] \in Shown
      /\ [status |-> "edited", body |-> e.body] \in Shown
      /\ Recalled \in Shown /\ Nothing \in Shown
  BY <1>1 DEF Shown, Statuses, Recalled, Nothing
<1> QED BY <1>1, <1>2, Zenon DEF Says

\* applying committed entries keeps the types of the copies
LEMMA ApplyTypes ==
  ASSUME LogTypeOK, store \in [Msg -> Shown], last \in [Msg -> 0..Len(log)],
         got \subseteq DOMAIN log, NEW E \in SUBSET DOMAIN log, Apply(E)
  PROVE  /\ store' \in [Msg -> Shown] /\ last' \in [Msg -> 0..Len(log)]
         /\ got' = got \cup E
<1> DEFINE of(m) == {i \in E : log[i].msg = m}
           touched == {log[i].msg : i \in E}
<1>1. \A i \in DOMAIN log : i \in Nat /\ i <= Len(log) /\ log[i] \in Entry
  BY DEF LogTypeOK
<1>2. ASSUME NEW m \in touched
      PROVE  /\ MaxOf(of(m)) \in 0..Len(log)
             /\ Says(log[MaxOf(of(m))]) \in Shown
  <2>1. of(m) \in SUBSET Nat /\ of(m) # {} /\ Len(log) \in Nat
        /\ \A i \in of(m) : i <= Len(log)
    BY <1>1, <1>2 DEF LogTypeOK
  <2>2. MaxOf(of(m)) \in of(m)
    <3> HIDE DEF of
    <3> QED BY <2>1, BoundedHasMax
  <2>3. MaxOf(of(m)) \in DOMAIN log
    BY <2>2
  <2> QED BY <1>1, <2>3, SaysIsShown
<1>3. /\ store' = [m \in Msg |-> IF m \in touched THEN Says(log[MaxOf(of(m))])
                                ELSE store[m]]
      /\ last' = [m \in Msg |-> IF m \in touched THEN MaxOf(of(m)) ELSE last[m]]
      /\ got' = got \cup E
  BY Zenon DEF Apply
<1> HIDE DEF of, touched
<1> QED BY <1>2, <1>3

LEMMA StoreChatInv == ASSUME IInv, StoreChat PROVE IInv'
<1>1. TypeOK /\ CursorInv /\ LogTypeOK
  BY DEF IInv, LogInv
<1>2. proc \in Item /\ proc.at \in DOMAIN log
  BY <1>1, ItemIs DEF StoreChat, TypeOK, Idle
<1>3. ~Above(proc.at, cursor)
  <2>1. log[proc.at].seq <= cursor.msg
    BY <1>1, MessageSeqsOf DEF StoreChat, CursorInv, Claimed
  <2>2. cursor.msg \in Nat /\ log[proc.at].seq \in Nat
    BY <1>1, <1>2, EntryTypes DEF TypeOK, Cursors
  <2> QED BY <2>1, <2>2 DEF StoreChat, Above
<1>4. log[proc.at].msg \in Msg
  BY <1>1, <1>2, EntryTypes
<1>5. /\ store' \in [Msg -> Shown] /\ last' \in [Msg -> 0..Len(log)]
      /\ recent' \subseteq Msg /\ got' = got \cup {proc.at}
  <2>1. CASE Apply({proc.at}) /\ recent' = recent \cup {log[proc.at].msg}
    BY <1>1, <1>2, <1>4, <2>1, ApplyTypes DEF TypeOK
  <2>2. CASE got' = got \cup {proc.at} /\ UNCHANGED <<store, last, recent>>
    BY <1>1, <2>2 DEF TypeOK
  <2> QED BY <2>1, <2>2, Zenon DEF StoreChat
<1> QED BY <1>1, <1>2, <1>3, <1>5, DoneInv
        DEF StoreChat, Stored, TypeOK, CursorInv, netVars

LEMMA StoreEventInv == ASSUME IInv, StoreEvent PROVE IInv'
<1>1. TypeOK /\ CursorInv /\ LogTypeOK
  BY DEF IInv, LogInv
<1>2. proc \in Item /\ proc.at \in DOMAIN log
  BY <1>1, ItemIs DEF StoreEvent, TypeOK, Idle
<1>3. ~Above(proc.at, cursor)
  <2>1. log[proc.at].seq <= cursor.event
    BY <1>1, EventSeqsOf DEF StoreEvent, CursorInv, Claimed
  <2>2. cursor.event \in Nat /\ log[proc.at].seq \in Nat
    BY <1>1, <1>2, EntryTypes DEF TypeOK, Cursors
  <2> QED BY <2>1, <2>2 DEF StoreEvent, Above
<1>4. /\ store' \in [Msg -> Shown] /\ last' \in [Msg -> 0..Len(log)]
      /\ got' = got \cup {proc.at}
  BY <1>1, <1>2, ApplyTypes DEF StoreEvent, TypeOK
<1> QED BY <1>1, <1>2, <1>3, <1>4, DoneInv
        DEF StoreEvent, Stored, TypeOK, CursorInv, netVars

LEMMA StoreEventsInv == ASSUME IInv, StoreEvents PROVE IInv'
<1>1. TypeOK /\ CursorInv /\ LogTypeOK
  BY DEF IInv, LogInv
<1>2. proc \in Item /\ proc.events \in SUBSET DOMAIN log
  BY <1>1, ItemIs DEF StoreEvents, TypeOK, Idle
<1>3. ASSUME NEW i \in proc.events PROVE ~Above(i, cursor)
  <2>1. EventSeqs(proc) = {log[j].seq : j \in proc.events}
    BY EventSeqsOf DEF StoreEvents
  <2>2. log[i].seq <= cursor.event /\ log[i].kind # "chat"
    BY <1>1, <1>3, <2>1 DEF StoreEvents, CursorInv, Claimed, Sound
  <2>3. cursor.event \in Nat /\ log[i].seq \in Nat
    BY <1>1, <1>2, EntryTypes DEF TypeOK, Cursors
  <2> QED BY <2>2, <2>3 DEF Above
<1>4. /\ store' \in [Msg -> Shown] /\ last' \in [Msg -> 0..Len(log)]
      /\ got' = got \cup proc.events
  BY <1>1, <1>2, ApplyTypes DEF StoreEvents, TypeOK
<1> QED BY <1>1, <1>2, <1>3, <1>4, DoneInv
        DEF StoreEvents, Stored, TypeOK, CursorInv, netVars

LEMMA StoreHistoryInv == ASSUME IInv, StoreHistory PROVE IInv'
<1> DEFINE new == {r \in proc.rows : store[r.msg] = Nothing}
           row(m) == CHOOSE r \in new : r.msg = m
           added == {r.msg : r \in new}
           named == {i \in DOMAIN log : log[i].kind = "chat" /\
                       \E r \in proc.rows : r.msg = log[i].msg /\ r.seq = log[i].seq}
<1>1. TypeOK /\ CursorInv /\ LogTypeOK
  BY DEF IInv, LogInv
<1>2. proc \in Item /\ proc.rows \in SUBSET Row
  BY <1>1, ItemIs DEF StoreHistory, TypeOK, Idle
<1>3. ASSUME NEW m \in added PROVE row(m) \in Row
  <2>1. \E r \in new : r.msg = m
    OBVIOUS
  <2>2. row(m) \in new
    BY <2>1, Zenon
  <2> QED BY <1>2, <2>2
<1>4. ASSUME NEW m \in added PROVE row(m).shown \in Shown /\ row(m).at \in 0..Len(log)
  <2> HIDE DEF row
  <2>1. row(m).shown \in Shown /\ row(m).at \in DOMAIN log
    BY <1>3, <1>4 DEF Row
  <2> QED BY <1>1, <2>1 DEF LogTypeOK
<1>5. ASSUME NEW i \in named PROVE ~Above(i, cursor)
  <2>1. PICK r \in proc.rows : r.seq = log[i].seq
    OBVIOUS
  <2>2. log[i].kind = "chat" /\ i \in DOMAIN log
    OBVIOUS
  <2>3. MessageSeqs(proc) = {q.seq : q \in proc.rows}
    BY MessageSeqsOf DEF StoreHistory
  <2>4. log[i].seq <= cursor.msg
    BY <1>1, <2>1, <2>3 DEF CursorInv, Claimed
  <2>5. cursor.msg \in Nat /\ log[i].seq \in Nat
    BY <1>1, <2>2, EntryTypes DEF TypeOK, Cursors
  <2> QED BY <2>2, <2>4, <2>5 DEF Above
<1>6. /\ store' = [m \in Msg |-> IF m \in added THEN row(m).shown ELSE store[m]]
      /\ last' = [m \in Msg |-> IF m \in added THEN row(m).at ELSE last[m]]
      /\ got' = got \cup named
  BY Zenon DEF StoreHistory
<1>7. named \subseteq DOMAIN log
  OBVIOUS
<1> HIDE DEF new, row, added, named
<1>8. store' \in [Msg -> Shown] /\ last' \in [Msg -> 0..Len(log)]
  BY <1>1, <1>4, <1>6 DEF TypeOK
<1>9. got' \subseteq DOMAIN log /\ \A i \in got' : i \in got \/ ~Above(i, cursor)
  BY <1>1, <1>5, <1>6, <1>7 DEF TypeOK
<1> QED BY <1>1, <1>8, <1>9, DoneInv
        DEF StoreHistory, Stored, TypeOK, CursorInv, netVars

LEMMA CrashInv == ASSUME IInv, Crash PROVE IInv'
<1>1. TypeOK /\ CursorInv
  BY DEF IInv
<1>2. crashes' \in 0..MaxCrashes
  BY <1>1, BoundsAreNat DEF Crash, TypeOK
<1>3. wire' \in Seq(Item) /\ \A k \in DOMAIN wire' : Sound(wire'[k])
  BY DEF Crash
<1>4. ask' \in [msg : Nat, event : Nat, open : BOOLEAN]
  BY DEF Crash, NoAsk
<1> QED BY <1>1, <1>2, <1>3, <1>4, DoneInv DEF Crash, TypeOK, historyVars

-----------------------------------------------------------------------------

LEMMA StutterInv == ASSUME IInv, UNCHANGED vars PROVE IInv'
<1>1. /\ LogInv' /\ LogTypeOK' /\ Item' = Item
  BY LogRests DEF vars
<1>2. TypeOK'
  BY <1>1 DEF IInv, TypeOK, vars, logVars, netVars, clientVars, historyVars
<1>3. CursorInv'
  BY DEF IInv, CursorInv, CursorsClaimWhatWasTaken, Above, Sound, Claimed,
     MessageSeqs, EventSeqs, vars, logVars, netVars, clientVars, historyVars
<1> QED BY <1>1, <1>2, <1>3 DEF IInv

LEMMA NextInv == ASSUME IInv, [Next]_vars PROVE IInv'
BY CommitInv, WritePushInv, BindInv, AnswerSyncInv, WriteEventsInv, DropInv,
   AuthenticatedInv, TakeInv, StoreChatInv, StoreEventInv, StoreHistoryInv,
   StoreEventsInv, CrashInv, StutterInv, Zenon
DEF Next

LEMMA Invariance == Spec => []IInv
<1> QED BY InitInv, NextInv, PTL DEF Spec

\* Every variable of the log, the network and the client keeps its type.
THEOREM TypeCorrect == Spec => []TypeOK
<1>1. IInv => TypeOK
  BY DEF IInv
<1> QED BY <1>1, Invariance, PTL

\* A client that applies the entries it missed, in order, ends with the
\* server's table: the last entry about a message says what its row shows.
THEOREM TableStaysReplay == Spec => []TableIsReplay
<1>1. IInv => TableIsReplay
  BY DEF IInv, LogInv
<1> QED BY <1>1, Invariance, PTL

\* Message and event numbers are unique, increase in commit order and stay
\* within their counters.
THEOREM NumbersStayOrdered == Spec => []NumbersIncrease
<1>1. IInv => NumbersIncrease
  BY DEF IInv, LogInv
<1> QED BY <1>1, Invariance, PTL

\* The client's cursors never claim an uncommitted number and always cover
\* what it has processed.
THEOREM CursorsStayHonest == Spec => []CursorsClaimWhatWasTaken
<1>1. IInv => CursorsClaimWhatWasTaken
  BY DEF IInv, CursorInv
<1> QED BY <1>1, Invariance, PTL

\* What a session's clients and connections do never shows in its log: the
\* system implements the session log on its own.
THEOREM LogIsImplemented == Spec => LogSpec
<1>1. Init => LogInit
  BY DEF Init
<1>2. [Next]_vars => [LogNext]_logVars
  BY Zenon
  DEF Next, Commit, WritePush, Bind, AnswerSync, WriteEvents, Drop, Authenticated,
      Take, StoreChat, StoreEvent, StoreHistory, StoreEvents, Stored, Crash, vars
<1> QED BY <1>1, <1>2, PTL DEF Spec, LogSpec

-----------------------------------------------------------------------------
(***************************************************************************)
(* Proof that the client of ChatSync converges: when nothing is on the way *)
(* any more, a message with entries the last sync did not claim to have is *)
(* shown as the server has it, unless an older entry about it was          *)
(* processed after a newer one.                                            *)
(*                                                                         *)
(* Two facts carry the argument.  While the connection is bound, the       *)
(* newest entry about a message, if it is above the cursors of the last    *)
(* sync, was processed or is on one of the stations between the server's   *)
(* log and the client's table.  And a copy always shows what its entry     *)
(* says, whether it came as a push, as an event or as a row of the sync.   *)
(***************************************************************************)

(* The row of a message that was not changed since it was written has the  *)
(* number of the entry that wrote it.                                      *)
NewestIsRow ==
  \A i \in DOMAIN log :
    log[i].kind = "chat" /\ IsNewest(i) => rows[log[i].msg].seq = log[i].seq

(* An item brings an entry to the client.                                  *)
Carries(x, i) ==
  \/ x.kind = "push" /\ x.at = i
  \/ x.kind = "history_events" /\ i \in x.events
  \/ /\ x.kind = "history_messages" /\ log[i].kind = "chat"
     /\ \E r \in x.rows : r.msg = log[i].msg /\ r.seq = log[i].seq

OnWire(i) == \E k \in DOMAIN wire : wire[k] = AuthAck \/ Carries(wire[k], i)

(* The stations of an entry, up to its being processed.                    *)
Coming(i) ==
  \/ i \in got \/ i \in pend
  \/ ask.open
  \/ owed.open /\ i \in owed.events
  \/ Carries(proc, i) \/ OnWire(i)

(* The rows of an item show what the entry they stand for says.            *)
Honest(x) ==
  x.kind = "history_messages" =>
    \A r \in x.rows : log[r.at].msg = r.msg /\ r.shown = Says(log[r.at])

Faithful(m) ==
  last[m] # 0 => log[last[m]].msg = m /\ store[m] = Says(log[last[m]])

NothingLost ==
  link = "bound" =>
    \A i \in DOMAIN log : IsNewest(i) /\ Above(i, base) => Coming(i)

SyncInv ==
  /\ NewestIsRow
  /\ ask.open => ask.msg = base.msg /\ ask.event = base.event
  /\ Honest(proc) /\ \A k \in DOMAIN wire : Honest(wire[k])
  /\ \A m \in Msg : Faithful(m)
  /\ NothingLost

-----------------------------------------------------------------------------
(* What the invariant gives.                                               *)

LEMMA SyncInvConverges == ASSUME IInv, SyncInv PROVE Converges
<1> SUFFICES ASSUME Quiet, NEW i \in DOMAIN log, IsNewest(i), Above(i, base),
                    InOrder(log[i].msg)
             PROVE  store[log[i].msg] = View(log[i].msg)
  BY DEF Converges
<1> DEFINE m == log[i].msg
<1>1. TypeOK /\ LogTypeOK /\ TableIsReplay
  BY DEF IInv, LogInv
<1>2. m \in Msg /\ i \in About(m)
  BY <1>1, EntryTypes DEF About
<1>3. i \in got
  <2>1. Coming(i)
    BY DEF SyncInv, NothingLost, Quiet
  <2>2. ~Carries(proc, i) /\ ~OnWire(i)
    BY DEF Quiet, Carries, OnWire, Idle
  <2> QED BY <2>1, <2>2 DEF Coming, Quiet
<1>4. i <= last[m]
  BY <1>2, <1>3 DEF InOrder
<1>5. i \in Nat /\ i >= 1 /\ last[m] \in 0..Len(log) /\ Len(log) \in Nat
      /\ DOMAIN log = 1..Len(log)
  BY <1>1, <1>2 DEF LogTypeOK, TypeOK
<1>6. log[last[m]].msg = m /\ store[m] = Says(log[last[m]])
  BY <1>2, <1>4, <1>5 DEF SyncInv, Faithful
<1>7. last[m] <= i
  BY <1>4, <1>5, <1>6 DEF IsNewest, About
<1>8. last[m] = i
  BY <1>4, <1>5, <1>7
<1> QED BY <1>1, <1>6, <1>8 DEF TableIsReplay

-----------------------------------------------------------------------------
(* The log.                                                                *)

\* an operation of the session appends one entry, about the message whose
\* row it changes; that of a new message has its number
LEMMA LogStepShape ==
  ASSUME LogInv, LogNext
  PROVE  \E m \in Msg, e \in Entry :
           /\ StepOf(m, e)
           /\ e.kind = "chat" => rows'[m].seq = e.seq
<1>1. LogTypeOK
  BY DEF LogInv
<1>2. PICK m \in Msg : \/ \E b \in Body : Create(m, b) \/ Edit(m, b)
                       \/ Recall(m) \/ Delete(m)
  BY DEF LogNext
<1>3. msgSeq + 1 \in Nat /\ eventSeq + 1 \in Nat
  BY <1>1 DEF LogTypeOK
<1>4. ASSUME NEW b \in Body, Create(m, b)
      PROVE  \E e \in Entry : StepOf(m, e) /\ (e.kind = "chat" => rows'[m].seq = e.seq)
  <2> DEFINE e == [kind |-> "chat", msg |-> m, body |-> b, seq |-> msgSeq + 1]
  <2>1. e \in Entry
    BY <1>3 DEF Entry, Kinds
  <2>2. StepOf(m, e) /\ rows'[m].seq = e.seq
    BY <1>1, <1>4 DEF StepOf, Create, LogTypeOK
  <2> QED BY <2>1, <2>2
<1>5. ASSUME NEW kind \in Kinds \ {"chat"}, NEW b \in Body \cup {None},
             RecordEvent(kind, m, b), \A n \in Msg : n # m => rows'[n] = rows[n]
      PROVE  \E e \in Entry : StepOf(m, e) /\ (e.kind = "chat" => rows'[m].seq = e.seq)
  <2> DEFINE e == [kind |-> kind, msg |-> m, body |-> b, seq |-> eventSeq + 1]
  <2>1. e \in Entry /\ e.kind # "chat"
    BY <1>3 DEF Entry
  <2>2. StepOf(m, e)
    BY <1>5 DEF StepOf, RecordEvent
  <2> QED BY <2>1, <2>2
<1>6. ASSUME NEW b \in Body, Edit(m, b)
      PROVE  \E e \in Entry : StepOf(m, e) /\ (e.kind = "chat" => rows'[m].seq = e.seq)
  BY <1>1, <1>5, <1>6 DEF Edit, LogTypeOK, Kinds
<1>7. ASSUME Recall(m) \/ Delete(m)
      PROVE  \E e \in Entry : StepOf(m, e) /\ (e.kind = "chat" => rows'[m].seq = e.seq)
  BY <1>1, <1>5, <1>7 DEF Recall, Delete, LogTypeOK, Kinds
<1> QED BY <1>2, <1>4, <1>6, <1>7

\* what a commit leaves alone: the entries, and which of them are newest but
\* for the message it is about
LEMMA CommitRests ==
  ASSUME LogInv, LogNext, NEW i \in DOMAIN log
  PROVE  /\ i \in DOMAIN log' /\ log'[i] = log[i]
         /\ IsNewest(i)' => IsNewest(i)
BY LogGrows DEF IsNewest, About

LEMMA NewestIsRowStays ==
  ASSUME LogInv, NewestIsRow, LogNext
  PROVE  NewestIsRow'
<1>1. PICK m \in Msg, e \in Entry : /\ StepOf(m, e)
                                    /\ e.kind = "chat" => rows'[m].seq = e.seq
  BY LogStepShape
<1>2. /\ Len(log) + 1 \in Nat
      /\ DOMAIN log' = DOMAIN log \cup {Len(log) + 1}
      /\ log'[Len(log) + 1] = e
      /\ \A i \in DOMAIN log : i \in Nat /\ i < Len(log) + 1 /\ log'[i] = log[i]
      /\ \A i \in DOMAIN log : log[i] \in Entry
  BY <1>1, Appending DEF LogInv, LogTypeOK, StepOf
<1> SUFFICES ASSUME NEW i \in DOMAIN log', log'[i].kind = "chat", IsNewest(i)'
             PROVE  rows'[log'[i].msg].seq = log'[i].seq
  BY DEF NewestIsRow
<1>3. CASE i = Len(log) + 1
  BY <1>1, <1>2, <1>3 DEF StepOf
<1>4. CASE i # Len(log) + 1
  <2>1. i \in DOMAIN log /\ log'[i] = log[i] /\ i < Len(log) + 1 /\ i \in Nat
    BY <1>2, <1>4
  <2>2. log[i].msg # m
    <3>1. SUFFICES ASSUME log[i].msg = m PROVE FALSE
      OBVIOUS
    <3>2. Len(log) + 1 \in {j \in DOMAIN log' : log'[j].msg = log'[i].msg}
      BY <1>1, <1>2, <2>1, <3>1 DEF StepOf
    <3>3. Len(log) + 1 <= i
      BY <3>2 DEF IsNewest, About
    <3> QED BY <1>2, <2>1, <3>3
  <2>3. log[i].msg \in Msg
    BY <1>2, <2>1 DEF Entry
  <2>4. IsNewest(i)
    BY <2>1, CommitRests
  <2> QED BY <1>1, <2>1, <2>2, <2>3, <2>4 DEF NewestIsRow, StepOf
<1> QED BY <1>3, <1>4

\* a step that leaves the log alone leaves alone what is said of it
LEMMA LogStands ==
  ASSUME UNCHANGED logVars
  PROVE  /\ NewestIsRow' = NewestIsRow
         /\ \A x : Honest(x)' = Honest(x)
         /\ \A x, i : Carries(x, i)' = Carries(x, i)
         /\ \A i : IsNewest(i)' = IsNewest(i)
         /\ \A i, c : Above(i, c)' = Above(i, c)
<1>1. \A i : IsNewest(i)' = IsNewest(i)
  BY DEF IsNewest, About, logVars
<1>2. NewestIsRow' = NewestIsRow
  BY <1>1 DEF NewestIsRow, logVars
<1>3. \A x : Honest(x)' = Honest(x)
  <2>1. log' = log
    BY DEF logVars
  <2>2. \A i : Says(log[i])' = Says(log[i])
    BY <2>1, Zenon DEF Says
  <2> QED BY <2>1, <2>2 DEF Honest
<1>4. \A x, i : Carries(x, i)' = Carries(x, i)
  BY DEF Carries, logVars
<1>5. \A i, c : Above(i, c)' = Above(i, c)
  BY DEF Above, logVars
<1> QED BY <1>1, <1>2, <1>3, <1>4, <1>5
-----------------------------------------------------------------------------
(* The server's steps.                                                     *)

LEMMA InitSync == Init => SyncInv
<1> SUFFICES ASSUME Init PROVE SyncInv
  OBVIOUS
<1>1. DOMAIN log = {} /\ DOMAIN wire = {}
  BY DEF Init, LogInit
<1>2. Honest(proc) /\ \A m \in Msg : Faithful(m)
  BY DEF Init, Honest, Idle, Faithful
<1> QED BY <1>1, <1>2 DEF Init, SyncInv, NewestIsRow, NoAsk, NothingLost

LEMMA CommitSync == ASSUME IInv, SyncInv, Commit PROVE SyncInv'
<1>1. TypeOK /\ LogInv /\ LogNext
  BY DEF IInv, Commit
<1>2. /\ UNCHANGED <<link, wire, ask, owed, proc, store, got, last, base>>
      /\ pend' = pend \cup {Len(log) + 1}
  BY DEF Commit, clientVars, historyVars
<1>3. /\ DOMAIN log' = DOMAIN log \cup {Len(log) + 1}
      /\ \A i \in DOMAIN log : log'[i] = log[i]
  BY <1>1, LogGrows
<1>4. NewestIsRow'
  BY <1>1, NewestIsRowStays DEF SyncInv
<1>5. ASSUME NEW x \in Item \cup {Idle}, Honest(x) PROVE Honest(x)'
  <2> SUFFICES ASSUME x.kind = "history_messages", NEW r \in x.rows
               PROVE  log'[r.at].msg = r.msg /\ r.shown = Says(log[r.at])'
    BY DEF Honest
  <2>1. r.at \in DOMAIN log
    BY ItemIs DEF Idle, Row
  <2>2. log'[r.at] = log[r.at]
    BY <1>3, <2>1
  <2>3. Says(log[r.at])' = Says(log[r.at])
    BY <2>2, Zenon DEF Says
  <2> QED BY <1>5, <2>2, <2>3 DEF Honest
<1>6. Honest(proc)' /\ \A k \in DOMAIN wire' : Honest(wire[k])'
  <2>1. proc \in Item \cup {Idle} /\ \A k \in DOMAIN wire : wire[k] \in Item
    BY <1>1 DEF TypeOK
  <2> QED BY <1>2, <1>5, <2>1 DEF SyncInv, Honest
<1>7. \A m \in Msg : Faithful(m)'
  <2> SUFFICES ASSUME NEW m \in Msg, last[m] # 0
               PROVE  log'[last[m]].msg = m /\ store[m] = Says(log[last[m]])'
    BY <1>2 DEF Faithful
  <2>1. last[m] \in DOMAIN log
    BY <1>1 DEF TypeOK, LogInv, LogTypeOK
  <2>2. log'[last[m]] = log[last[m]]
    BY <1>3, <2>1
  <2>3. Says(log[last[m]])' = Says(log[last[m]])
    BY <1>2, <2>2, Zenon DEF Says
  <2> QED BY <2>2, <2>3 DEF SyncInv, Faithful
<1>8. NothingLost'
  <2> SUFFICES ASSUME link = "bound", NEW i \in DOMAIN log', IsNewest(i)', Above(i, base)'
               PROVE  Coming(i)'
    BY <1>2 DEF NothingLost
  <2>1. CASE i \in DOMAIN log
    <3>1. IsNewest(i) /\ Above(i, base)
      BY <1>1, <1>2, <2>1, CommitRests DEF Above
    <3>2. Coming(i)
      BY <2>1, <3>1 DEF SyncInv, NothingLost
    <3>3. \A x : Carries(x, i) => Carries(x, i)'
      BY <1>3, <2>1 DEF Carries
    <3> QED BY <1>2, <3>2, <3>3 DEF Coming, OnWire, Carries
  <2>2. CASE i = Len(log) + 1
    BY <1>2, <2>2 DEF Coming
  <2> QED BY <1>3, <2>1, <2>2
<1> QED BY <1>2, <1>4, <1>6, <1>7, <1>8 DEF SyncInv

\* a step that leaves the log, the copies and the cursors of the last sync
\* alone only has to account for the items and the entries on their way
LEMMA MoveSync ==
  ASSUME IInv, SyncInv, UNCHANGED <<logVars, store, last, base>>,
         ask'.open => ask' = ask,
         Honest(proc'), \A k \in DOMAIN wire' : Honest(wire'[k]),
         ASSUME link' = "bound", NEW i \in DOMAIN log, IsNewest(i), Above(i, base)
         PROVE  \/ i \in got' \/ i \in pend' \/ ask'.open
                \/ owed'.open /\ i \in owed'.events
                \/ Carries(proc', i)
                \/ \E k \in DOMAIN wire' : wire'[k] = AuthAck \/ Carries(wire'[k], i)
  PROVE  SyncInv'
<1>1. /\ NewestIsRow'
      /\ \A x : Honest(x)' = Honest(x)
      /\ \A x, i : Carries(x, i)' = Carries(x, i)
      /\ \A i : IsNewest(i)' = IsNewest(i)
      /\ \A i, c : Above(i, c)' = Above(i, c)
      /\ log' = log
  BY LogStands DEF SyncInv, logVars
<1>2. Honest(proc)' /\ \A k \in DOMAIN wire' : Honest(wire[k])'
  BY <1>1 DEF Honest
<1>3. \A m \in Msg : Faithful(m)'
  <2>1. \A i : Says(log[i])' = Says(log[i])
    BY <1>1, Zenon DEF Says
  <2>2. \A m : Says(log[last[m]])' = Says(log[last[m]])
    BY <1>1, Zenon DEF Says
  <2> QED BY <1>1, <2>2 DEF SyncInv, Faithful
<1>4. NothingLost'
  <2> SUFFICES ASSUME link' = "bound", NEW i \in DOMAIN log', IsNewest(i)', Above(i, base)'
               PROVE  Coming(i)'
    BY DEF NothingLost
  <2>1. i \in DOMAIN log /\ IsNewest(i) /\ Above(i, base)
    BY <1>1 DEF Above
  <2>2. \/ i \in got' \/ i \in pend' \/ ask'.open
        \/ owed'.open /\ i \in owed'.events
        \/ Carries(proc', i)
        \/ \E k \in DOMAIN wire' : wire'[k] = AuthAck \/ Carries(wire'[k], i)
    BY <2>1
  <2> QED BY <1>1, <2>2 DEF Coming, OnWire, Carries
<1> QED BY <1>1, <1>2, <1>3, <1>4 DEF SyncInv

\* the items that were on the wire still are when another is written
LEMMA AppendKeeps ==
  ASSUME IInv, SyncInv, NEW x, Honest(x), wire' = Append(wire, x)
  PROVE  /\ \A k \in DOMAIN wire' : Honest(wire'[k])
         /\ \A i : OnWire(i) \/ Carries(x, i) =>
              \E k \in DOMAIN wire' : wire'[k] = AuthAck \/ Carries(wire'[k], i)
<1>1. /\ DOMAIN wire' = DOMAIN wire \cup {Len(wire) + 1}
      /\ wire'[Len(wire) + 1] = x
      /\ \A k \in DOMAIN wire : wire'[k] = wire[k]
  BY DEF IInv, TypeOK
<1> QED BY <1>1 DEF SyncInv, OnWire

LEMMA WritePushSync == ASSUME IInv, SyncInv, NEW i, WritePush(i) PROVE SyncInv'
<1>1. UNCHANGED <<logVars, link, ask, owed, proc, store, got, last, base>>
  BY DEF WritePush, clientVars, historyVars
<1>2. Honest(Push(i)) /\ Carries(Push(i), i) /\ pend' = pend \ {i}
  BY DEF Honest, Carries, Push, WritePush
<1>3. CASE link = "bound"
  <2>1. /\ \A k \in DOMAIN wire' : Honest(wire'[k])
        /\ \A j : OnWire(j) \/ Carries(Push(i), j) =>
             \E k \in DOMAIN wire' : wire'[k] = AuthAck \/ Carries(wire'[k], j)
    BY <1>2, <1>3, AppendKeeps DEF WritePush
  <2>2. ASSUME NEW j \in DOMAIN log, IsNewest(j), Above(j, base)
        PROVE  Coming(j)
    BY <1>3, <2>2 DEF SyncInv, NothingLost
  <2>3. proc' = proc /\ got' = got /\ ask' = ask /\ owed' = owed
    BY <1>1
  <2> QED BY <1>1, <1>2, <2>1, <2>2, <2>3, MoveSync DEF SyncInv, Coming
<1>4. CASE link # "bound"
  BY <1>1, <1>4, MoveSync DEF WritePush, SyncInv
<1> QED BY <1>3, <1>4

LEMMA BindSync == ASSUME IInv, SyncInv, Bind PROVE SyncInv'
<1>1. DOMAIN wire' = {1} /\ wire'[1] = AuthAck /\ Honest(AuthAck)
  BY DEF Bind, Honest, AuthAck
<1>2. UNCHANGED <<logVars, ask, proc, store, last, base>>
  BY DEF Bind, clientVars, historyVars
<1> QED BY <1>1, <1>2, MoveSync DEF SyncInv

LEMMA LeaveSync == ASSUME IInv, SyncInv, Drop \/ Crash PROVE SyncInv'
<1>1. /\ UNCHANGED <<logVars, store, last, base>>
      /\ link' = "down" /\ DOMAIN wire' = {} /\ ~ask'.open
      /\ proc' = proc \/ proc' = Idle
  BY DEF Drop, Crash, clientVars, historyVars, NoAsk
<1>2. Honest(proc')
  BY <1>1 DEF SyncInv, Honest, Idle
<1> QED BY <1>1, <1>2, MoveSync

LEMMA WriteEventsSync == ASSUME IInv, SyncInv, WriteEvents PROVE SyncInv'
<1> DEFINE x == HistoryEvents(owed.events)
<1>1. UNCHANGED <<logVars, link, pend, ask, proc, store, got, last, base>>
  BY DEF WriteEvents, clientVars, historyVars
<1>2. Honest(x) /\ \A i \in owed.events : Carries(x, i)
  BY DEF Honest, Carries, HistoryEvents
<1>3. /\ \A k \in DOMAIN wire' : Honest(wire'[k])
      /\ \A j : OnWire(j) \/ Carries(x, j) =>
           \E k \in DOMAIN wire' : wire'[k] = AuthAck \/ Carries(wire'[k], j)
  BY <1>2, AppendKeeps DEF WriteEvents
<1>4. ASSUME link = "bound", NEW j \in DOMAIN log, IsNewest(j), Above(j, base)
      PROVE  Coming(j)
  BY <1>4 DEF SyncInv, NothingLost
<1>5. proc' = proc /\ got' = got /\ pend' = pend /\ ask' = ask /\ link' = link
  BY <1>1
<1> HIDE DEF x
<1> QED BY <1>1, <1>2, <1>3, <1>4, <1>5, MoveSync DEF SyncInv, Coming

\* a message that is there has a newest entry
LEMMA NewestExists ==
  ASSUME LogInv, NEW m \in Msg, Exists(m)
  PROVE  \E i \in About(m) : IsNewest(i)
<1>1. About(m) # {}
  BY DEF LogInv, TableIsReplay, View, Nothing, Recalled, Exists
<1>2. /\ About(m) \in SUBSET Nat /\ Len(log) \in Nat
      /\ \A i \in About(m) : i <= Len(log)
  BY DEF LogInv, LogTypeOK, About
<1>3. MaxOf(About(m)) \in About(m) /\ \A j \in About(m) : j <= MaxOf(About(m))
  BY <1>1, <1>2, BoundedHasMax
<1> QED BY <1>3 DEF IsNewest, About

\* the answer to a sync brings every newest entry above its cursors
LEMMA AnswerSyncSync == ASSUME IInv, SyncInv, AnswerSync PROVE SyncInv'
<1> DEFINE R == MissingRows(ask.msg)
           x == HistoryMessages(R)
<1>1. TypeOK /\ LogInv /\ LogTypeOK /\ TableIsReplay
  BY DEF IInv, LogInv
<1>2. UNCHANGED <<logVars, link, pend, proc, store, got, last, base>>
  BY DEF AnswerSync, clientVars, historyVars
<1>3. ask.msg = base.msg /\ ask.event = base.event /\ ~ask'.open
  BY DEF AnswerSync, SyncInv, NoAsk
<1>4. ASSUME NEW m \in Msg, Exists(m), NEW r,
             r = [msg |-> m, seq |-> rows[m].seq, shown |-> View(m),
                  at |-> CHOOSE i \in About(m) : IsNewest(i)]
      PROVE  log[r.at].msg = r.msg /\ r.shown = Says(log[r.at])
  <2>1. r.at \in About(m) /\ IsNewest(r.at)
    <3>1. \E i \in About(m) : IsNewest(i)
      BY <1>1, <1>4, NewestExists
    <3> QED BY <1>4, <3>1, Zenon
  <2>2. r.at \in DOMAIN log /\ log[r.at].msg = m
    BY <2>1 DEF About
  <2> QED BY <1>1, <1>4, <2>1, <2>2 DEF TableIsReplay
<1>5. Honest(x)
  <2> SUFFICES ASSUME NEW r \in R PROVE log[r.at].msg = r.msg /\ r.shown = Says(log[r.at])
    BY DEF Honest, HistoryMessages
  <2>1. PICK m \in Msg : /\ Exists(m)
                         /\ r = [msg |-> m, seq |-> rows[m].seq, shown |-> View(m),
                                 at |-> CHOOSE i \in About(m) : IsNewest(i)]
    BY Zenon DEF MissingRows
  <2> QED BY <1>4, <2>1
<1>6. /\ \A k \in DOMAIN wire' : Honest(wire'[k])
      /\ \A j : OnWire(j) \/ Carries(x, j) =>
           \E k \in DOMAIN wire' : wire'[k] = AuthAck \/ Carries(wire'[k], j)
  <2> HIDE DEF x
  <2> QED BY <1>5, AppendKeeps DEF AnswerSync, x
<1>7. ASSUME NEW i \in DOMAIN log, IsNewest(i), Above(i, base)
      PROVE  Carries(x, i) \/ (owed'.open /\ i \in owed'.events)
  <2>1. log[i].msg \in Msg /\ log[i].kind \in Kinds
    BY <1>1, EntryTypes DEF Entry
  <2>2. CASE log[i].kind = "chat"
    <3> DEFINE m == log[i].msg
               r == [msg |-> m, seq |-> rows[m].seq, shown |-> View(m),
                     at |-> CHOOSE j \in About(m) : IsNewest(j)]
    <3>1. rows[m].seq = log[i].seq
      BY <1>7, <2>2 DEF SyncInv, NewestIsRow
    <3>2. Exists(m)
      <4>1. Says(log[i]).status = "sent"
        BY <2>2 DEF Says
      <4>2. View(m) = Says(log[i])
        BY <1>1, <1>7 DEF TableIsReplay
      <4> QED BY <4>1, <4>2 DEF View, Exists, Recalled
    <3>3. r \in R
      <4>1. rows[m].seq > ask.msg
        BY <1>3, <1>7, <2>2, <3>1 DEF Above
      <4> QED BY <2>1, <3>2, <4>1, Zenon DEF MissingRows
    <3>4. r.msg = m /\ r.seq = log[i].seq
      BY <3>1
    <3> HIDE DEF r, R, m
    <3>5. \E q \in R : q.msg = m /\ q.seq = log[i].seq
      BY <3>3, <3>4
    <3> QED BY <2>2, <3>5 DEF Carries, HistoryMessages, m
  <2>3. CASE log[i].kind # "chat"
    BY <1>3, <1>7, <2>3 DEF AnswerSync, MissingEvents, Above
  <2> QED BY <2>2, <2>3
<1>8. Honest(proc')
  BY <1>2 DEF SyncInv
<1> HIDE DEF x, R
<1> QED BY <1>2, <1>3, <1>6, <1>7, <1>8, MoveSync

\* one item less on the wire
LEMMA TailKeeps ==
  ASSUME IInv, SyncInv, wire # <<>>, wire' = Tail(wire)
  PROVE  /\ Honest(Head(wire)) /\ \A k \in DOMAIN wire' : Honest(wire'[k])
         /\ \A i : OnWire(i) =>
              \/ Head(wire) = AuthAck \/ Carries(Head(wire), i)
              \/ \E k \in DOMAIN wire' : wire'[k] = AuthAck \/ Carries(wire'[k], i)
<1>1. /\ wire \in Seq(Item) /\ Head(wire) = wire[1] /\ 1 \in DOMAIN wire
      /\ \A k \in DOMAIN wire' : k + 1 \in DOMAIN wire /\ wire'[k] = wire[k + 1]
      /\ \A k \in DOMAIN wire : k # 1 => k - 1 \in DOMAIN wire' /\ wire'[k - 1] = wire[k]
  BY DEF IInv, TypeOK
<1> QED BY <1>1 DEF SyncInv, OnWire

LEMMA TakeSync == ASSUME IInv, SyncInv, Take PROVE SyncInv'
<1>1. UNCHANGED <<logVars, link, pend, ask, owed, store, got, last, base>>
  BY DEF Take, historyVars
<1>2. proc' = Head(wire) /\ Head(wire) # AuthAck /\ proc = Idle
  BY DEF Take
<1>3. /\ Honest(Head(wire)) /\ \A k \in DOMAIN wire' : Honest(wire'[k])
      /\ \A i : OnWire(i) =>
           \/ Head(wire) = AuthAck \/ Carries(Head(wire), i)
           \/ \E k \in DOMAIN wire' : wire'[k] = AuthAck \/ Carries(wire'[k], i)
  BY TailKeeps DEF Take
<1>4. ASSUME link = "bound", NEW j \in DOMAIN log, IsNewest(j), Above(j, base)
      PROVE  Coming(j) /\ ~Carries(proc, j)
  BY <1>2, <1>4 DEF SyncInv, NothingLost, Carries, Idle
<1> QED BY <1>1, <1>2, <1>3, <1>4, MoveSync DEF Coming

\* the cursors of a new sync are the client's; until it is answered every
\* entry may still come
LEMMA AuthenticatedSync == ASSUME IInv, SyncInv, Authenticated PROVE SyncInv'
<1>1. UNCHANGED <<logVars, proc, store, last>>
  BY DEF Authenticated, clientVars
<1>2. ask'.open /\ ask'.msg = base'.msg /\ ask'.event = base'.event
  BY DEF Authenticated
<1>3. \A k \in DOMAIN wire' : Honest(wire'[k])
  BY TailKeeps DEF Authenticated
<1>4. NewestIsRow' /\ (\A y : Honest(y)' = Honest(y)) /\ log' = log
  BY <1>1, LogStands DEF SyncInv, logVars
<1>5. Honest(proc)' /\ \A k \in DOMAIN wire' : Honest(wire[k])'
  BY <1>1, <1>3, <1>4 DEF SyncInv, Honest
<1>6. \A m \in Msg : Faithful(m)'
  <2>1. \A m : Says(log[last[m]])' = Says(log[last[m]])
    BY <1>1, <1>4, Zenon DEF Says
  <2> QED BY <1>1, <1>4, <2>1 DEF SyncInv, Faithful
<1>7. NothingLost'
  BY <1>2 DEF NothingLost, Coming
<1> QED BY <1>2, <1>4, <1>5, <1>6, <1>7 DEF SyncInv

-----------------------------------------------------------------------------
(* The client's steps.                                                     *)

\* a step that is done with the item in hand: the copies stay faithful and
\* what the item brought counts as processed
LEMMA DoneSync ==
  ASSUME IInv, SyncInv, Stored,
         \A m \in Msg : last'[m] # 0 =>
           log[last'[m]].msg = m /\ store'[m] = Says(log[last'[m]]),
         \A i \in DOMAIN log : i \in got \/ Carries(proc, i) => i \in got'
  PROVE  SyncInv'
<1>1. UNCHANGED <<logVars, pend, link, wire, ask, owed, base>> /\ proc' = Idle
  BY DEF Stored, netVars
<1>2. /\ NewestIsRow'
      /\ \A x : Honest(x)' = Honest(x)
      /\ \A x, i : Carries(x, i)' = Carries(x, i)
      /\ \A i : IsNewest(i)' = IsNewest(i)
      /\ log' = log
  BY <1>1, LogStands DEF SyncInv, logVars
<1>3. Honest(proc)' /\ \A k \in DOMAIN wire' : Honest(wire[k])'
  BY <1>1, <1>2 DEF SyncInv, Honest, Idle
<1>4. \A m \in Msg : Faithful(m)'
  <2>1. \A m : Says(log[last[m]])' = Says(log[last'[m]])
    BY <1>2, Zenon DEF Says
  <2> QED BY <1>2, <2>1 DEF Faithful
<1>5. NothingLost'
  <2> SUFFICES ASSUME link' = "bound", NEW i \in DOMAIN log', IsNewest(i)', Above(i, base)'
               PROVE  Coming(i)'
    BY DEF NothingLost
  <2>1. i \in DOMAIN log /\ IsNewest(i) /\ Above(i, base)
    BY <1>1, <1>2 DEF Above
  <2>2. Coming(i)
    BY <1>1, <2>1 DEF SyncInv, NothingLost
  <2> QED BY <1>1, <1>2, <2>1, <2>2 DEF Coming, OnWire, Carries
<1> QED BY <1>1, <1>2, <1>3, <1>4, <1>5 DEF SyncInv

\* applying entries keeps the copies faithful
LEMMA ApplyFaithful ==
  ASSUME IInv, SyncInv, NEW E \in SUBSET DOMAIN log, Apply(E)
  PROVE  /\ \A m \in Msg : last'[m] # 0 =>
              log[last'[m]].msg = m /\ store'[m] = Says(log[last'[m]])
         /\ got' = got \cup E
<1> DEFINE of(m) == {i \in E : log[i].msg = m}
           touched == {log[i].msg : i \in E}
<1>1. LogTypeOK /\ Len(log) \in Nat
  BY DEF IInv, LogInv, LogTypeOK
<1>2. ASSUME NEW m \in touched PROVE log[MaxOf(of(m))].msg = m
  <2>1. of(m) \in SUBSET Nat /\ of(m) # {} /\ \A i \in of(m) : i <= Len(log)
    BY <1>1, <1>2 DEF LogTypeOK
  <2>2. MaxOf(of(m)) \in of(m)
    <3> HIDE DEF of
    <3> QED BY <1>1, <2>1, BoundedHasMax
  <2> QED BY <2>2
<1>3. /\ store' = [m \in Msg |-> IF m \in touched THEN Says(log[MaxOf(of(m))])
                                ELSE store[m]]
      /\ last' = [m \in Msg |-> IF m \in touched THEN MaxOf(of(m)) ELSE last[m]]
      /\ got' = got \cup E
  BY Zenon DEF Apply
<1> HIDE DEF of, touched
<1> QED BY <1>2, <1>3 DEF SyncInv, Faithful

LEMMA StorePushSync == ASSUME IInv, SyncInv, StoreChat \/ StoreEvent PROVE SyncInv'
<1>1. Stored /\ proc.kind = "push"
  BY DEF StoreChat, StoreEvent
<1>2. proc.at \in DOMAIN log /\ \A i : Carries(proc, i) => i = proc.at
  BY <1>1, ItemIs DEF IInv, TypeOK, Idle, Carries
<1>3. CASE Apply({proc.at})
  <2>1. {proc.at} \in SUBSET DOMAIN log
    BY <1>2
  <2> QED BY <1>1, <1>2, <1>3, <2>1, ApplyFaithful, DoneSync
<1>4. CASE got' = got \cup {proc.at} /\ UNCHANGED <<store, last, recent>>
  BY <1>1, <1>2, <1>4, DoneSync DEF SyncInv, Faithful
<1> QED BY <1>3, <1>4, Zenon DEF StoreChat, StoreEvent

LEMMA StoreEventsSync == ASSUME IInv, SyncInv, StoreEvents PROVE SyncInv'
<1>1. Stored /\ proc.kind = "history_events" /\ Apply(proc.events)
  BY DEF StoreEvents
<1>2. proc.events \in SUBSET DOMAIN log /\ \A i : Carries(proc, i) => i \in proc.events
  BY <1>1, ItemIs DEF IInv, TypeOK, Idle, Carries
<1> QED BY <1>1, <1>2, ApplyFaithful, DoneSync

LEMMA StoreHistorySync == ASSUME IInv, SyncInv, StoreHistory PROVE SyncInv'
<1> DEFINE new == {r \in proc.rows : store[r.msg] = Nothing}
           row(m) == CHOOSE r \in new : r.msg = m
           added == {r.msg : r \in new}
           named == {i \in DOMAIN log : log[i].kind = "chat" /\
                       \E r \in proc.rows : r.msg = log[i].msg /\ r.seq = log[i].seq}
<1>1. Stored /\ proc.kind = "history_messages"
  BY DEF StoreHistory
<1>2. ASSUME NEW m \in added
      PROVE  log[row(m).at].msg = m /\ row(m).shown = Says(log[row(m).at])
  <2>1. \E r \in new : r.msg = m
    OBVIOUS
  <2>2. row(m) \in new /\ row(m).msg = m
    BY <2>1, Zenon
  <2> HIDE DEF row
  <2> QED BY <1>1, <2>2 DEF SyncInv, Honest
<1>3. /\ store' = [m \in Msg |-> IF m \in added THEN row(m).shown ELSE store[m]]
      /\ last' = [m \in Msg |-> IF m \in added THEN row(m).at ELSE last[m]]
      /\ got' = got \cup named
  BY Zenon DEF StoreHistory
<1>4. \A i \in DOMAIN log : Carries(proc, i) => i \in named
  BY <1>1 DEF Carries
<1> HIDE DEF new, row, added, named
<1>5. \A m \in Msg : last'[m] # 0 =>
        log[last'[m]].msg = m /\ store'[m] = Says(log[last'[m]])
  BY <1>2, <1>3 DEF SyncInv, Faithful
<1> QED BY <1>1, <1>3, <1>4, <1>5, DoneSync

-----------------------------------------------------------------------------

LEMMA StutterSync == ASSUME IInv, SyncInv, UNCHANGED vars PROVE SyncInv'
<1>1. UNCHANGED <<logVars, pend, link, wire, ask, owed, proc, store, got, last, base>>
  BY DEF vars, netVars, clientVars, historyVars
<1>2. ASSUME link = "bound", NEW j \in DOMAIN log, IsNewest(j), Above(j, base)
      PROVE  Coming(j)
  BY <1>2 DEF SyncInv, NothingLost
<1> QED BY <1>1, <1>2, MoveSync DEF SyncInv, Coming, OnWire

LEMMA NextSync == ASSUME IInv, SyncInv, [Next]_vars PROVE SyncInv'
BY CommitSync, WritePushSync, BindSync, AnswerSyncSync, WriteEventsSync,
   LeaveSync, AuthenticatedSync, TakeSync, StorePushSync, StoreHistorySync,
   StoreEventsSync, StutterSync, Zenon
DEF Next

\* When nothing is on the way any more, the client shows every message as the
\* server has it, but for those the last sync claimed to have and those an
\* older entry overtook.
THEOREM ClientConverges == Spec => []Converges
<1>1. IInv /\ SyncInv => Converges
  BY SyncInvConverges
<1>2. IInv /\ SyncInv /\ [Next]_vars => SyncInv'
  BY NextSync
<1> QED BY <1>1, <1>2, InitSync, Invariance, PTL DEF Spec
=============================================================================
