-------------------------- MODULE ClientCallsProofs --------------------------
(***************************************************************************)
(* Proofs about ClientCalls, for any users, calls and bound on losses: its *)
(* types, and what clients and server agree on once nothing is on the way: *)
(* a call that is shown is one the server has, a call the server has is    *)
(* shown, and a call nobody answered is over.                              *)
(*                                                                         *)
(* These hold in quiet states only; the invariant says what stands for     *)
(* them while something is on the way.  Its parts, each resting on those   *)
(* before it:                                                              *)
(*   PartiesInv   what is on the way and in hand belongs to a user of its  *)
(*                call                                                     *)
(*   FlowInv      what is on the way is true, or the news that it is not   *)
(*                comes after it                                           *)
(*   ClientInv    what a client shows fits what is on the way to it        *)
(*   ShownInv     a shown call is live, or its end is on the way           *)
(*   CallerInv, CalleeInv                                                  *)
(*                a live call is shown, or its invitation is on the way    *)
(* The module is laid out in this order: the effects of the network, of a  *)
(* request and of an event first, then each part, step by step.            *)
(***************************************************************************)
EXTENDS ClientCalls, TLAPS

-----------------------------------------------------------------------------
(* What is on the way: sequences as the sets of what they hold.            *)

LEMMA Appended ==
  ASSUME NEW S, NEW s \in Seq(S), NEW e \in S
  PROVE  Append(s, e) \in Seq(S) /\ Range(Append(s, e)) = Range(s) \cup {e}
<1>1. /\ Append(s, e) \in Seq(S)
      /\ DOMAIN Append(s, e) = DOMAIN s \cup {Len(s) + 1}
      /\ Append(s, e)[Len(s) + 1] = e
      /\ \A i \in DOMAIN s : Append(s, e)[i] = s[i]
  OBVIOUS
<1> QED BY <1>1 DEF Range

LEMMA Headed ==
  ASSUME NEW S, NEW s \in Seq(S), s # <<>>
  PROVE  /\ Head(s) \in S /\ Tail(s) \in Seq(S)
         /\ Range(s) = {Head(s)} \cup Range(Tail(s))
<1>1. /\ Head(s) \in S /\ Tail(s) \in Seq(S) /\ Head(s) = s[1]
      /\ 1 \in DOMAIN s
      /\ Len(Tail(s)) = Len(s) - 1 /\ Len(s) \in Nat /\ Len(s) > 0
      /\ DOMAIN s = 1..Len(s) /\ DOMAIN Tail(s) = 1..(Len(s) - 1)
      /\ \A i \in DOMAIN Tail(s) : Tail(s)[i] = s[i + 1]
  OBVIOUS
<1>2. ASSUME NEW i \in DOMAIN s PROVE s[i] \in {Head(s)} \cup Range(Tail(s))
  <2>1. CASE i = 1 BY <2>1, <1>1
  <2>2. CASE i # 1
    <3>1. i - 1 \in DOMAIN Tail(s) /\ s[i] = Tail(s)[i - 1] BY <1>1, <2>2
    <3> QED BY <3>1 DEF Range
  <2> QED BY <2>1, <2>2
<1>3. ASSUME NEW i \in DOMAIN Tail(s) PROVE Tail(s)[i] \in Range(s)
  <2>1. i + 1 \in DOMAIN s /\ Tail(s)[i] = s[i + 1] BY <1>1
  <2> QED BY <2>1 DEF Range
<1> QED BY <1>1, <1>2, <1>3 DEF Range

LEMMA Elements ==
  ASSUME NEW S, NEW s \in Seq(S) PROVE \A x \in Range(s) : x \in S
BY DEF Range

LEMMA NothingIn == Range(<<>>) = {}
BY DEF Range

\* behind an x there is no y
NoneAfter(s, x, y) == \A i, j \in DOMAIN s : i < j /\ s[i] = x => s[j] # y

LEMMA NoneAfterAppend ==
  ASSUME NEW S, NEW s \in Seq(S), NEW e \in S, NEW x, NEW y,
         NoneAfter(s, x, y), e # y \/ x \notin Range(s)
  PROVE  NoneAfter(Append(s, e), x, y)
<1>1. /\ DOMAIN Append(s, e) = 1..(Len(s) + 1) /\ DOMAIN s = 1..Len(s) /\ Len(s) \in Nat
      /\ Append(s, e)[Len(s) + 1] = e
      /\ \A i \in DOMAIN s : Append(s, e)[i] = s[i]
  OBVIOUS
<1> SUFFICES ASSUME NEW i \in DOMAIN Append(s, e), NEW j \in DOMAIN Append(s, e),
                    i < j, Append(s, e)[i] = x
             PROVE  Append(s, e)[j] # y
  BY DEF NoneAfter
<1>2. i \in DOMAIN s /\ s[i] = x BY <1>1
<1>3. CASE j \in DOMAIN s BY <1>1, <1>2, <1>3 DEF NoneAfter
<1>4. CASE j = Len(s) + 1 BY <1>1, <1>2, <1>4 DEF Range
<1> QED BY <1>1, <1>3, <1>4

LEMMA NoneAfterTail ==
  ASSUME NEW S, NEW s \in Seq(S), s # <<>>, NEW x, NEW y, NoneAfter(s, x, y)
  PROVE  /\ NoneAfter(Tail(s), x, y)
         /\ Head(s) = x => y \notin Range(Tail(s))
<1>1. /\ Len(s) \in Nat /\ Len(s) > 0 /\ Head(s) = s[1] /\ 1 \in DOMAIN s
      /\ DOMAIN s = 1..Len(s) /\ DOMAIN Tail(s) = 1..(Len(s) - 1)
      /\ \A i \in DOMAIN Tail(s) : i + 1 \in DOMAIN s /\ Tail(s)[i] = s[i + 1]
  OBVIOUS
<1>2. ASSUME NEW i \in DOMAIN Tail(s), NEW j \in DOMAIN Tail(s), i < j, Tail(s)[i] = x
      PROVE  Tail(s)[j] # y
  <2>1. i + 1 \in DOMAIN s /\ j + 1 \in DOMAIN s /\ i + 1 < j + 1 BY <1>1, <1>2
  <2> QED BY <1>1, <1>2, <2>1 DEF NoneAfter
<1>3. ASSUME Head(s) = x, NEW j \in DOMAIN Tail(s) PROVE Tail(s)[j] # y
  <2>1. j + 1 \in DOMAIN s /\ 1 < j + 1 BY <1>1
  <2> QED BY <1>1, <1>3, <2>1 DEF NoneAfter
<1> QED BY <1>2, <1>3 DEF NoneAfter, Range

LEMMA NoneAfterNothing == \A x, y : NoneAfter(<<>>, x, y)
BY DEF NoneAfter

-----------------------------------------------------------------------------
(* Who is in a call.                                                       *)

Caller(k) == party[k][1]
Callee(k) == party[k][2]
Started(k) == party[k] # NoParty

Asked(u, kind, k) == Plain(kind, k) \in Range(up[u])
Told(u, kind, k) == Plain(kind, k) \in Range(down[u])
Error(kind, k) == [type |-> "error", re |-> kind, call |-> k]
Refused(u, kind, k) == Error(kind, k) \in Range(down[u])

Between(u, k) == Started(k) /\ u \in Both(k)

PartyNamed ==
  \A k \in Call : Started(k) => party[k] \in User \X User /\ Caller(k) # Callee(k)

LiveNamed ==
  \A k \in Call : Live(k) =>
    Started(k) /\ calls[k].initiator = Caller(k) /\ calls[k].recipient = Callee(k)

UpNamed ==
  \A u \in User : \A m \in Range(up[u]) :
    /\ Between(u, m.call)
    /\ m.type = "call_invite" => u = Caller(m.call)
    /\ m.type = "call_accept" => u = Callee(m.call)

DownNamed == \A u \in User : \A m \in Range(down[u]) : Between(u, m.call)

StartingNamed ==
  \A u \in User : \A k \in Range(starting[u]) : Started(k) /\ u = Caller(k)

ActiveNamed ==
  \A u \in User : active[u] # Idle =>
    /\ Between(u, active[u].id)
    /\ active[u].dir = "out" <=> u = Caller(active[u].id)

TimerNamed ==
  \A u \in User : timer[u] # None => Started(timer[u]) /\ u = Caller(timer[u])

PromptNamed == \A u \in User : \A k \in prompt[u] : Started(k) /\ u = Callee(k)

EndingNamed ==
  \A u \in User : ending[u] # None => active[u] # Idle /\ Started(ending[u])

PartiesInv ==
  /\ PartyNamed /\ LiveNamed /\ UpNamed /\ DownNamed /\ StartingNamed
  /\ ActiveNamed /\ TimerNamed /\ PromptNamed /\ EndingNamed

-----------------------------------------------------------------------------
(* What the network does.                                                  *)

LEMMA RequestType ==
  ASSUME NEW kind \in Kinds, NEW k \in Call PROVE Plain(kind, k) \in Request
BY DEF Plain, Request

LEMMA EventType ==
  ASSUME NEW kind \in Kinds \cup {"call_busy"}, NEW k \in Call
  PROVE  Plain(kind, k) \in Event
BY DEF Plain, Event

LEMMA ErrorType ==
  ASSUME NEW kind \in Kinds, NEW k \in Call PROVE Error(kind, k) \in Event
BY DEF Error, Event

\* one more at the end of what u asks, at most
Grows(u, x) ==
  /\ \A v \in User \ {u} : up'[v] = up[v]
  /\ up'[u] = up[u] \/ up'[u] = Append(up[u], x)

LEMMA GrowsRange ==
  ASSUME TypeOK, NEW u \in User, NEW x \in Request, Grows(u, x)
  PROVE  \A v \in User : /\ Range(up[v]) \subseteq Range(up'[v])
                         /\ Range(up'[v]) \subseteq Range(up[v]) \cup {x}
                         /\ v # u => Range(up'[v]) = Range(up[v])
<1>1. \A v \in User : up[v] \in Seq(Request)
  BY DEF TypeOK
<1>2. Range(Append(up[u], x)) = Range(up[u]) \cup {x}
  BY <1>1, Appended
<1> QED BY <1>2 DEF Grows

AskTyped ==
  /\ up \in [User -> Seq(Request)]
  /\ actions \in [User -> SUBSET (Call \X Kinds)]
  /\ faults \in 0..MaxFaults
  /\ torn \in SUBSET (User \X Call)

\* a request goes out and is remembered, or counts as torn
LEMMA AskEffect ==
  ASSUME TypeOK, NEW u \in User, NEW k \in Call, NEW kind \in Kinds, Ask(u, k, kind)
  PROVE  /\ AskTyped'
         /\ Grows(u, Plain(kind, k))
         /\ torn \subseteq torn'
         /\ \A v \in User : actions[v] \subseteq actions'[v]
         /\ \/ <<u, k>> \in torn'
            \/ Asked(u, kind, k)' /\ <<k, kind>> \in actions'[u]
<1> DEFINE x == Plain(kind, k)
<1>1. x \in Request BY RequestType
<1>2. /\ up \in [User -> Seq(Request)] /\ actions \in [User -> SUBSET (Call \X Kinds)]
      /\ faults \in 0..MaxFaults /\ torn \in SUBSET (User \X Call) /\ MaxFaults \in Nat
  BY BoundsAreNaturals DEF TypeOK
<1>3. x = [type |-> kind, call |-> k] BY DEF Plain
<1>4. up' = IF link[u] = "up" THEN [up EXCEPT ![u] = Append(@, x)] ELSE up
  BY <1>3 DEF Ask
<1> HIDE DEF x
<1>5. up' \in [User -> Seq(Request)] /\ Grows(u, x)
  <2>1. CASE link[u] = "up"
    <3>1. Append(up[u], x) \in Seq(Request) BY <1>1, <1>2
    <3> QED BY <3>1, <2>1, <1>2, <1>4 DEF Grows
  <2>2. CASE link[u] # "up" BY <2>2, <1>2, <1>4 DEF Grows
  <2> QED BY <2>1, <2>2
<1>6. link[u] = "up" => x \in Range(up'[u])
  <2>1. Range(Append(up[u], x)) = Range(up[u]) \cup {x} BY <1>1, <1>2, Appended
  <2> QED BY <2>1, <1>2, <1>4
<1>7. CASE /\ link[u] = "up"
           /\ actions' = [actions EXCEPT ![u] = @ \cup {<<k, kind>>}]
           /\ UNCHANGED <<faults, torn>>
  <2>1. actions' \in [User -> SUBSET (Call \X Kinds)] BY <1>7, <1>2
  <2>2. <<k, kind>> \in actions'[u] /\ \A v \in User : actions[v] \subseteq actions'[v]
    BY <1>7, <1>2
  <2> QED BY <2>1, <2>2, <1>2, <1>5, <1>6, <1>7 DEF AskTyped, Asked, x
<1>8. CASE /\ torn' = torn \cup {<<u, k>>} /\ UNCHANGED <<actions, faults>>
  BY <1>8, <1>2, <1>5 DEF AskTyped, x
<1>9. CASE /\ faults < MaxFaults /\ faults' = faults + 1
           /\ torn' = torn \cup {<<u, k>>} /\ UNCHANGED actions
  <2>1. faults' \in 0..MaxFaults BY <1>9, <1>2
  <2> QED BY <2>1, <1>9, <1>2, <1>5 DEF AskTyped, x
<1> QED BY <1>7, <1>8, <1>9 DEF Ask

PushTyped ==
  /\ down \in [User -> Seq(Event)]
  /\ old \in [User -> BOOLEAN]
  /\ torn \in SUBSET (User \X Call)

\* what the users of S are told; who has no connection misses it
Tells(S, m) ==
  /\ \A v \in User : \/ down'[v] = down[v]
                     \/ v \in S /\ down'[v] = Append(down[v], m)
  /\ \A v \in User : /\ Range(down[v]) \subseteq Range(down'[v])
                     /\ Range(down'[v]) \subseteq Range(down[v]) \cup {m}
                     /\ v \notin S => Range(down'[v]) = Range(down[v])
  /\ \A v \in S : m \in Range(down'[v]) \/ <<v, m.call>> \in torn'
  /\ torn \subseteq torn'

LEMMA PushEffect ==
  ASSUME TypeOK, NEW S \in SUBSET User, NEW m \in Event, Push(S, m)
  PROVE  PushTyped' /\ Tells(S, m)
<1>1. /\ \A v \in User : down[v] \in Seq(Event) /\ link[v] \in {"up", "down"}
      /\ torn \in SUBSET (User \X Call) /\ m.call \in Call
      /\ \A v \in User : old[v] \in BOOLEAN
  BY DEF TypeOK, Event
<1>2. ASSUME NEW v \in User
      PROVE  Append(down[v], m) \in Seq(Event)
             /\ Range(Append(down[v], m)) = Range(down[v]) \cup {m}
  BY <1>1, Appended
<1>3. /\ down' = [v \in User |-> IF v \in S /\ link[v] = "up"
                                 THEN Append(down[v], m) ELSE down[v]]
      /\ old' = [v \in User |-> old[v] /\ v \notin S]
      /\ torn' = torn \cup ({v \in S : link[v] = "down"} \X {m.call})
  BY DEF Push
<1>4. down' \in [User -> Seq(Event)] BY <1>1, <1>2, <1>3
<1>5. old' \in [User -> BOOLEAN] BY <1>1, <1>3
<1>6. torn' \in SUBSET (User \X Call) /\ torn \subseteq torn' BY <1>1, <1>3
<1>7. \A v \in S : m \in Range(down'[v]) \/ <<v, m.call>> \in torn'
  <2> TAKE v \in S
  <2>1. CASE link[v] = "up" BY <2>1, <1>2, <1>3
  <2>2. CASE link[v] = "down" BY <2>2, <1>3
  <2> QED BY <2>1, <2>2, <1>1
<1>8. \A v \in User : \/ down'[v] = down[v]
                      \/ v \in S /\ down'[v] = Append(down[v], m)
  BY <1>3
<1> QED BY <1>2, <1>4, <1>5, <1>6, <1>7, <1>8 DEF PushTyped, Tells

\* the first of what is on the way is taken
LEMMA TakenUp ==
  ASSUME TypeOK, NEW u \in User, up[u] # <<>>, up' = [up EXCEPT ![u] = Tail(@)]
  PROVE  /\ up' \in [User -> Seq(Request)]
         /\ Head(up[u]) \in Request /\ Head(up[u]) \in Range(up[u])
         /\ up'[u] = Tail(up[u]) /\ \A v \in User \ {u} : up'[v] = up[v]
         /\ Range(up[u]) = {Head(up[u])} \cup Range(up'[u])
         /\ \A v \in User : Range(up'[v]) \subseteq Range(up[v])
<1>1. up \in [User -> Seq(Request)] BY DEF TypeOK
<1>2. /\ Head(up[u]) \in Request /\ Tail(up[u]) \in Seq(Request)
      /\ Range(up[u]) = {Head(up[u])} \cup Range(Tail(up[u]))
  BY <1>1, Headed
<1> QED BY <1>1, <1>2

LEMMA TakenDown ==
  ASSUME TypeOK, NEW u \in User, down[u] # <<>>, down' = [down EXCEPT ![u] = Tail(@)]
  PROVE  /\ down' \in [User -> Seq(Event)]
         /\ Head(down[u]) \in Event /\ Head(down[u]) \in Range(down[u])
         /\ down'[u] = Tail(down[u]) /\ \A v \in User \ {u} : down'[v] = down[v]
         /\ Range(down[u]) = {Head(down[u])} \cup Range(down'[u])
         /\ \A v \in User : Range(down'[v]) \subseteq Range(down[v])
<1>1. down \in [User -> Seq(Event)] BY DEF TypeOK
<1>2. /\ Head(down[u]) \in Event /\ Tail(down[u]) \in Seq(Event)
      /\ Range(down[u]) = {Head(down[u])} \cup Range(Tail(down[u]))
  BY <1>1, Headed
<1> QED BY <1>1, <1>2

-----------------------------------------------------------------------------
(* Types.                                                                  *)

LEMMA BothUsers ==
  ASSUME PartyNamed, NEW k \in Call, Started(k)
  PROVE  /\ Caller(k) \in User /\ Callee(k) \in User /\ Caller(k) # Callee(k)
         /\ Both(k) = {Caller(k), Callee(k)} /\ Both(k) \in SUBSET User
BY DEF PartyNamed, Both, Caller, Callee

\* what a client that shows a call shows
Call1 == [id : Call, dir : {"in", "out"}, status : Shown \cup Terminal]

LEMMA Showing ==
  ASSUME TypeOK, NEW u \in User
  PROVE  /\ active[u].id \in Call <=> active[u] # Idle
         /\ active[u] # Idle => active[u] \in Call1
         /\ active[u].id = None <=> active[u] = Idle
         /\ active[u] = Idle => active[u].status = "none" /\ active[u].dir = "none"
BY NoneIsNoCall DEF TypeOK, Idle, Call1, Shown, Terminal

\* the status of the call that is shown is set
LEMMA StatusSet ==
  ASSUME TypeOK, NEW u \in User, NEW s \in Shown \cup Terminal, active[u] # Idle,
         active' = [active EXCEPT ![u].status = s]
  PROVE  /\ active'[u] = [id |-> active[u].id, dir |-> active[u].dir, status |-> s]
         /\ active'[u] # Idle
         /\ \A v \in User \ {u} : active'[v] = active[v]
         /\ active' \in [User -> Call1 \cup {Idle}]
<1>1. active \in [User -> Call1 \cup {Idle}] BY DEF TypeOK, Call1
<1>2. ASSUME NEW r \in Call1
      PROVE  [r EXCEPT !.status = s] = [id |-> r.id, dir |-> r.dir, status |-> s]
  BY <1>2 DEF Call1
<1>3. active[u] \in Call1 BY <1>1
<1>4. active' = [active EXCEPT ![u] = [active[u] EXCEPT !.status = s]]
  OBVIOUS
<1>5. active'[u] = [id |-> active[u].id, dir |-> active[u].dir, status |-> s]
  BY <1>1, <1>2, <1>3, <1>4
<1>6. active'[u] \in Call1 BY <1>3, <1>5 DEF Call1
<1>7. active'[u] # Idle BY <1>6, NoneIsNoCall DEF Call1, Idle
<1> QED BY <1>1, <1>4, <1>5, <1>6, <1>7

LEMMA InitTypes == Init => TypeOK
BY BoundsAreNaturals
DEF Init, TypeOK, RegistryInit, RegistryTypeOK, NoCall, NoParty, Idle

LEMMA StartTypes ==
  ASSUME TypeOK, NEW u \in User, NEW v \in User, NEW k \in Call, StartCall(u, v, k)
  PROVE  TypeOK'
<1> DEFINE x == [type |-> "call_invite", call |-> k]
<1>0. /\ x \in Request /\ up \in [User -> Seq(Request)]
      /\ starting \in [User -> Seq(Call)]
  BY DEF TypeOK, Request, Kinds
<1>a. up' = [up EXCEPT ![u] = Append(@, x)] BY DEF StartCall
<1> HIDE DEF x
<1>1. Append(starting[u], k) \in Seq(Call) /\ Append(up[u], x) \in Seq(Request)
  BY <1>0
<1>2. <<k, "call_invite">> \in Call \X Kinds BY DEF Kinds
<1>3. /\ starting' \in [User -> Seq(Call)] /\ up' \in [User -> Seq(Request)]
      /\ actions' \in [User -> SUBSET (Call \X Kinds)]
      /\ party' \in [Call -> (User \X User) \cup {NoParty}]
  BY <1>0, <1>a, <1>1, <1>2 DEF StartCall, TypeOK
<1>4. UNCHANGED <<calls, callOf, active, timer, accepting, ending, prompt, alert,
                  link, old, down, hidden, faults, strayed, torn>>
  BY DEF StartCall, Elsewhere, registryVars
<1> QED BY <1>3, <1>4 DEF TypeOK, RegistryTypeOK

LEMMA SentTypes ==
  ASSUME TypeOK, NEW u \in User, InviteSent(u)
  PROVE  TypeOK'
<1>1. Head(starting[u]) \in Call /\ Tail(starting[u]) \in Seq(Call)
  BY Headed DEF TypeOK, InviteSent
<1> DEFINE now == [id |-> Head(starting[u]), dir |-> "out", status |-> "inviting"]
<1>2. now \in Call1 BY <1>1 DEF Call1, Shown
<1>3. active' = [active EXCEPT ![u] = now] BY DEF InviteSent
<1> HIDE DEF now
<1>a. active \in [User -> Call1 \cup {Idle}] BY DEF TypeOK, Call1
<1>4. active' \in [User -> Call1 \cup {Idle}]
  BY <1>2, <1>3, <1>a
<1>5. strayed' \in SUBSET (User \X Call)
  <2>1. active[u] # Idle => <<u, active[u].id>> \in User \X Call BY Showing
  <2>2. strayed \in SUBSET (User \X Call) BY DEF TypeOK
  <2> QED BY <2>1, <2>2 DEF InviteSent
<1>6. starting' \in [User -> Seq(Call)] /\ timer' \in [User -> Call \cup {None}]
  BY <1>1 DEF TypeOK, InviteSent
<1>7. UNCHANGED <<calls, callOf, accepting, actions, ending, prompt, alert,
                  link, old, up, down, hidden, party, faults, torn>>
  BY DEF InviteSent, registryVars, netVars
<1> QED BY <1>4, <1>5, <1>6, <1>7 DEF TypeOK, RegistryTypeOK, Call1

LEMMA FailsTypes ==
  ASSUME TypeOK, NEW u \in User, InviteFails(u)
  PROVE  TypeOK'
<1>1. Head(starting[u]) \in Call /\ Tail(starting[u]) \in Seq(Call)
  BY Headed DEF TypeOK, InviteFails
<1>2. /\ starting' \in [User -> Seq(Call)]
      /\ actions' \in [User -> SUBSET (Call \X Kinds)]
      /\ torn' \in SUBSET (User \X Call)
  BY <1>1 DEF TypeOK, InviteFails
<1>3. faults' \in 0..MaxFaults
  BY BoundsAreNaturals DEF TypeOK, InviteFails
<1>4. UNCHANGED <<calls, callOf, active, timer, accepting, ending, prompt, alert,
                  link, old, up, down, hidden, party, strayed>>
  BY DEF InviteFails, registryVars, netVars
<1> QED BY <1>2, <1>3, <1>4 DEF TypeOK, RegistryTypeOK

\* the steps that ask, or see there is nothing to ask any more
AsksSomething(u) ==
  \/ \E k \in Call : AcceptCall(u, k) \/ RejectCall(u, k) \/ HangupCall(u, k)
  \/ (\E k \in Call : SendRinging(u, k)) \/ TimeOut(u)

LEMMA AsksTypes ==
  ASSUME TypeOK, NEW u \in User, AsksSomething(u)
  PROVE  TypeOK'
<1> DEFINE Rest ==
      /\ accepting' \in [User -> SUBSET Call] /\ prompt' \in [User -> SUBSET Call]
      /\ alert' \in [User -> SUBSET Call] /\ timer' \in [User -> Call \cup {None}]
      /\ UNCHANGED <<calls, callOf, active, ending, starting, link, old, down,
                     hidden, party, strayed>>
<1> USE DEF Elsewhere, registryVars
<1>1. AskNothing => AskTyped' BY DEF AskNothing, AskTyped, TypeOK
<1>2. ASSUME NEW k \in Call, AcceptCall(u, k) PROVE AskTyped' /\ Rest
  <2>1. AskTyped' BY <1>2, AskEffect DEF AcceptCall, Kinds
  <2>2. accepting' \in [User -> SUBSET Call] BY <1>2 DEF AcceptCall, TypeOK
  <2> QED BY <2>1, <2>2, <1>2 DEF AcceptCall, TypeOK
<1>3. ASSUME NEW k \in Call, RejectCall(u, k) PROVE AskTyped' /\ Rest
  BY <1>3, AskEffect DEF RejectCall, Kinds, TypeOK
<1>4. ASSUME NEW k \in Call, HangupCall(u, k) PROVE AskTyped' /\ Rest
  BY <1>4, AskEffect DEF HangupCall, Kinds, TypeOK
<1>5. ASSUME NEW k \in Call, SendRinging(u, k) PROVE AskTyped' /\ Rest
  BY <1>1, <1>5, AskEffect DEF SendRinging, Kinds, TypeOK
<1>6. ASSUME TimeOut(u) PROVE AskTyped' /\ Rest
  <2>1. timer[u] \in Call BY <1>6 DEF TimeOut, TypeOK
  <2> QED BY <1>1, <1>6, <2>1, AskEffect DEF TimeOut, Kinds, TypeOK
<1>7. AskTyped' /\ Rest BY <1>2, <1>3, <1>4, <1>5, <1>6 DEF AsksSomething
<1> QED BY <1>7 DEF TypeOK, RegistryTypeOK, AskTyped

\* what handling an event may change of a client
ClientTyped ==
  /\ active \in [User -> Call1 \cup {Idle}]
  /\ timer \in [User -> Call \cup {None}]
  /\ accepting \in [User -> SUBSET Call]
  /\ actions \in [User -> SUBSET (Call \X Kinds)]
  /\ ending \in [User -> Call \cup {None}]
  /\ prompt \in [User -> SUBSET Call]
  /\ alert \in [User -> SUBSET Call]
  /\ strayed \in SUBSET (User \X Call)

LEMMA ClientIsTyped == TypeOK => ClientTyped
BY DEF TypeOK, ClientTyped, Call1

LEMMA PassOverTypes == ASSUME TypeOK, PassOver PROVE ClientTyped'
BY ClientIsTyped DEF PassOver, ClientTyped

LEMMA FinishTypes ==
  ASSUME TypeOK, NEW u \in User, NEW k \in Call, NEW s \in Terminal,
         active[u] # Idle, Finish(u, k, s),
         actions' \in [User -> SUBSET (Call \X Kinds)]
  PROVE  ClientTyped'
<1>1. ClientTyped BY ClientIsTyped
<1>2. active' \in [User -> Call1 \cup {Idle}] BY StatusSet DEF Finish
<1> QED BY <1>1, <1>2 DEF ClientTyped, Finish

LEMMA TakeInviteTypes ==
  ASSUME TypeOK, NEW u \in User, NEW k \in Call, TakeInvite(u, k)
  PROVE  ClientTyped'
<1> DEFINE d == IF party[k][1] = u THEN "out" ELSE "in"
           now == [id |-> k, dir |-> d, status |-> "invited"]
<1>1. ClientTyped /\ now \in Call1 BY ClientIsTyped DEF Call1, Shown
<1>2. CASE /\ active' = [active EXCEPT ![u] = now]
           /\ \/ /\ prompt' = [prompt EXCEPT ![u] = @ \cup {k}]
                 /\ alert' = [alert EXCEPT ![u] = @ \cup {k}]
              \/ UNCHANGED <<prompt, alert>>
           /\ UNCHANGED <<timer, accepting, actions, ending, strayed>>
  <2> HIDE DEF now
  <2>1. active' \in [User -> Call1 \cup {Idle}] BY <1>1, <1>2 DEF ClientTyped
  <2>2. prompt' \in [User -> SUBSET Call] /\ alert' \in [User -> SUBSET Call]
    BY <1>1, <1>2 DEF ClientTyped
  <2> QED BY <1>1, <1>2, <2>1, <2>2 DEF ClientTyped
<1>3. CASE /\ strayed' = strayed \cup {<<u, k>>} \/ strayed' = strayed
           /\ UNCHANGED <<active, timer, accepting, actions, ending, prompt, alert>>
  BY <1>1, <1>3 DEF ClientTyped
<1> QED BY <1>2, <1>3 DEF TakeInvite

LEMMA TakeRingingTypes ==
  ASSUME TypeOK, NEW u \in User, NEW k \in Call, TakeRinging(u, k)
  PROVE  ClientTyped'
<1>1. ClientTyped BY ClientIsTyped
<1>2. CASE active[u].id = k
  <2>1. active[u] # Idle BY <1>2, Showing
  <2>2. active' \in [User -> Call1 \cup {Idle}]
    BY <1>2, <2>1, StatusSet DEF TakeRinging, Shown
  <2> QED BY <1>1, <1>2, <2>2 DEF TakeRinging, ClientTyped
<1>3. CASE active[u].id # k BY <1>3, PassOverTypes DEF TakeRinging
<1> QED BY <1>2, <1>3

LEMMA TakeAcceptTypes ==
  ASSUME TypeOK, NEW u \in User, NEW k \in Call, TakeAccept(u, k)
  PROVE  ClientTyped'
<1>1. ClientTyped BY ClientIsTyped
<1>2. CASE active[u].id = k /\ active[u].status # "accepted"
  <2>1. active[u] # Idle BY <1>2, Showing
  <2>2. CASE active[u].dir = "out" \/ k \in accepting[u]
    <3>1. active' \in [User -> Call1 \cup {Idle}]
      BY <1>2, <2>1, <2>2, StatusSet DEF TakeAccept, Shown
    <3> QED BY <1>1, <1>2, <2>2, <3>1 DEF TakeAccept, ClientTyped
  <2>3. CASE ~(active[u].dir = "out" \/ k \in accepting[u])
    BY <1>1, <1>2, <2>3 DEF TakeAccept, Forget, ClientTyped
  <2> QED BY <2>2, <2>3
<1>3. CASE ~(active[u].id = k /\ active[u].status # "accepted")
  BY <1>3, PassOverTypes DEF TakeAccept
<1> QED BY <1>2, <1>3

LEMMA TakeEndTypes ==
  ASSUME TypeOK, NEW u \in User, NEW k \in Call, NEW s \in Terminal, TakeEnd(u, k, s)
  PROVE  ClientTyped'
<1>1. ClientTyped BY ClientIsTyped
<1>2. CASE active[u].id = k
  <2>1. active[u] # Idle BY <1>2, Showing
  <2> QED BY <1>1, <1>2, <2>1, FinishTypes DEF TakeEnd, ClientTyped
<1>3. CASE active[u].id # k BY <1>3, PassOverTypes DEF TakeEnd
<1> QED BY <1>2, <1>3

LEMMA TakeErrorTypes ==
  ASSUME TypeOK, NEW u \in User, NEW k \in Call, NEW kind \in Kinds,
         TakeError(u, k, kind)
  PROVE  ClientTyped'
<1>1. ClientTyped BY ClientIsTyped
<1>2. CASE active[u] = Idle BY <1>2, PassOverTypes DEF TakeError
<1>3. CASE active[u] # Idle
  <2>1. actions' = [actions EXCEPT ![u] = @ \ {<<k, kind>>}]
    BY <1>3 DEF TakeError
  <2>2. actions' \in [User -> SUBSET (Call \X Kinds)]
    BY <1>1, <2>1 DEF ClientTyped
  <2>3. CASE Finish(u, k, "ended") \/ Finish(u, k, "failed")
    BY <1>3, <2>2, <2>3, FinishTypes DEF Terminal
  <2>4. CASE UNCHANGED <<active, timer, accepting, ending, prompt, alert, strayed>>
    BY <1>1, <2>2, <2>4 DEF ClientTyped
  <2> QED BY <1>3, <2>3, <2>4 DEF TakeError
<1> QED BY <1>2, <1>3

\* an event, and what is done with it
Takes(u, m) ==
  \E k \in Call :
    \/ m = Plain("call_invite", k) /\ TakeInvite(u, k)
    \/ m = Plain("call_ringing", k) /\ TakeRinging(u, k)
    \/ m = Plain("call_accept", k) /\ TakeAccept(u, k)
    \/ m = Plain("call_reject", k) /\ TakeEnd(u, k, "rejected")
    \/ m = Plain("call_hangup", k) /\ TakeEnd(u, k, "ended")
    \/ m = Plain("call_busy", k) /\ TakeEnd(u, k, "busy")
    \/ \E kind \in Kinds : m = Error(kind, k) /\ TakeError(u, k, kind)

LEMMA EventForms ==
  ASSUME NEW m \in Event
  PROVE  /\ m.call \in Call
         /\ m.type # "error" => m = Plain(m.type, m.call)
         /\ m.type = "error" => m.re \in Kinds /\ m = Error(m.re, m.call)
BY DEF Event, Plain, Error, Kinds

LEMMA ReceiveTakes ==
  ASSUME TypeOK, NEW u \in User, Receive(u)
  PROVE  Takes(u, Head(down[u])) /\ Head(down[u]) \in Event
<1> DEFINE m == Head(down[u])
<1>1. m \in Event BY TakenDown DEF Receive
<1>2. \/ m.type = "call_invite" /\ TakeInvite(u, m.call)
      \/ m.type = "call_ringing" /\ TakeRinging(u, m.call)
      \/ m.type = "call_accept" /\ TakeAccept(u, m.call)
      \/ m.type = "call_reject" /\ TakeEnd(u, m.call, "rejected")
      \/ m.type = "call_hangup" /\ TakeEnd(u, m.call, "ended")
      \/ m.type = "call_busy" /\ TakeEnd(u, m.call, "busy")
      \/ m.type = "error" /\ TakeError(u, m.call, m.re)
  BY DEF Receive
<1> HIDE DEF m
<1>3. Takes(u, m) BY <1>1, <1>2, EventForms DEF Takes
<1> QED BY <1>1, <1>3 DEF m

LEMMA ReceiveTypes ==
  ASSUME TypeOK, NEW u \in User, Receive(u)
  PROVE  TypeOK'
<1>1. Takes(u, Head(down[u])) BY ReceiveTakes
<1>2. ClientTyped'
  BY <1>1, TakeInviteTypes, TakeRingingTypes, TakeAcceptTypes, TakeEndTypes,
     TakeErrorTypes DEF Takes, Terminal
<1>3. down' \in [User -> Seq(Event)] BY TakenDown DEF Receive
<1>4. UNCHANGED <<calls, callOf, starting, link, old, up, hidden, party, faults, torn>>
  BY DEF Receive, registryVars
<1> QED BY <1>2, <1>3, <1>4 DEF TypeOK, RegistryTypeOK, ClientTyped, Call1

LEMMA LetGoTypes ==
  ASSUME TypeOK, EndingNamed, NEW u \in User, LetGo(u)
  PROVE  TypeOK'
<1>1. active[u] # Idle BY DEF EndingNamed, LetGo
<1>2. ClientTyped BY ClientIsTyped
<1>3. strayed' \in SUBSET (User \X Call)
  <2>1. <<u, active[u].id>> \in User \X Call BY <1>1, Showing
  <2> QED BY <2>1, <1>2 DEF LetGo, ClientTyped
<1>4. ClientTyped' BY <1>2, <1>3 DEF LetGo, ClientTyped, Forget
<1>5. UNCHANGED <<calls, callOf, starting, link, old, up, down, hidden, party, faults, torn>>
  BY DEF LetGo, registryVars, netVars
<1> QED BY <1>4, <1>5 DEF TypeOK, RegistryTypeOK, ClientTyped, Call1

\* a request, and what the server does with it
Answers(u, kind, k) ==
  \/ /\ Refuses(Plain(kind, k)) /\ UNCHANGED registryVars
     /\ Push({u}, Error(kind, k))
  \/ /\ kind = "call_invite" /\ CreateCall(k, u, Callee(k))
     /\ Push(Both(k), Plain(kind, k))
  \/ /\ kind = "call_invite" /\ callOf' = Swept(Both(k)) /\ UNCHANGED calls
     /\ Push({u}, Plain("call_busy", k))
  \/ /\ kind = "call_ringing" /\ Live(k) /\ calls[k].status # "accepted"
     /\ MarkRinging(k)
     /\ \E S \in {{u}, Both(k)} : Push(S, Plain(kind, k))
  \/ /\ kind = "call_accept" /\ Live(k) /\ calls[k].status # "accepted"
     /\ MarkAccepted(k) /\ Push(Both(k), Plain(kind, k))
  \/ /\ kind \in {"call_reject", "call_hangup"} /\ Live(k) /\ EndCall(k)
     /\ Push(Both(k), Plain(kind, k))

LEMMA RequestForms ==
  ASSUME NEW m \in Request
  PROVE  m.call \in Call /\ m.type \in Kinds /\ m = Plain(m.type, m.call)
BY DEF Request, Plain

LEMMA ServeAnswers ==
  ASSUME TypeOK, NEW u \in User, Serve(u)
  PROVE  \E k \in Call, kind \in Kinds :
           /\ Head(up[u]) = Plain(kind, k) /\ Plain(kind, k) \in Range(up[u])
           /\ Answers(u, kind, k)
<1> DEFINE m == Head(up[u])
<1>1. m \in Request /\ m \in Range(up[u]) BY TakenUp DEF Serve
<1>2. \/ /\ Refuses(m)
         /\ Push({u}, [type |-> "error", re |-> m.type, call |-> m.call])
         /\ UNCHANGED registryVars
      \/ /\ ~Refuses(m)
         /\ \/ m.type = "call_invite" /\ Invite(u, m.call)
            \/ m.type = "call_ringing" /\ Ringing(u, m.call)
            \/ /\ m.type = "call_accept" /\ MarkAccepted(m.call)
               /\ Push(Both(m.call), Plain(m.type, m.call))
            \/ /\ m.type \in {"call_reject", "call_hangup"} /\ EndCall(m.call)
               /\ Push(Both(m.call), Plain(m.type, m.call))
  BY DEF Serve
<1> HIDE DEF m
<1>3. m.call \in Call /\ m.type \in Kinds /\ m = Plain(m.type, m.call)
  BY <1>1, RequestForms
<1>4. ~Refuses(m) =>
        /\ m.type # "call_invite" => Live(m.call)
        /\ m.type \in {"call_ringing", "call_accept", "call_reject"} =>
             calls[m.call].status # "accepted"
  BY DEF Refuses
<1>5. Answers(u, m.type, m.call)
  BY <1>2, <1>3, <1>4 DEF Answers, Error, Invite, Ringing, Callee
<1> QED BY <1>1, <1>3, <1>5 DEF m

\* the end of a call, as both its users are told of it
Ends(k) ==
  /\ Live(k) /\ EndCall(k)
  /\ \E kind \in {"call_reject", "call_hangup"} : Push(Both(k), Plain(kind, k))

\* a user who left is in no call, or the call ends
LEMMA LeaveEnds ==
  ASSUME TypeOK, NEW u \in User, Leave(u)
  PROVE  \/ /\ UNCHANGED <<calls, down, torn>>
            /\ callOf' \in [User -> Call \cup {None}] /\ old' \in [User -> BOOLEAN]
         \/ \E k \in Call : Ends(k)
<1>1. CASE link[u] = "down" /\ GetForUser(u) # None
  <2>1. GetForUser(u) \in Call /\ Live(GetForUser(u)) /\ callOf[u] = GetForUser(u)
    BY <1>1 DEF GetForUser, Live
  <2>2. EndCall(GetForUser(u)) /\ Push(Both(GetForUser(u)), Plain("call_hangup", GetForUser(u)))
    BY <1>1 DEF Leave, EndForOfflineUser
  <2> QED BY <2>1, <2>2 DEF Ends
<1>2. CASE ~(link[u] = "down" /\ GetForUser(u) # None)
  <2>1. UNCHANGED <<down, torn>> /\ old' = [old EXCEPT ![u] = FALSE]
    BY <1>2 DEF Leave
  <2>2. UNCHANGED registryVars \/ (callOf' = Swept({u}) /\ UNCHANGED calls)
    BY <1>2 DEF Leave, EndForOfflineUser
  <2>3. callOf \in [User -> Call \cup {None}] BY DEF TypeOK, RegistryTypeOK
  <2>4. Swept({u}) \in [User -> Call \cup {None}]
    BY <2>3 DEF Swept, GetForUser
  <2>5. UNCHANGED calls /\ callOf' \in [User -> Call \cup {None}]
    BY <2>2, <2>3, <2>4 DEF registryVars
  <2>6. old' \in [User -> BOOLEAN] BY <2>1 DEF TypeOK
  <2> QED BY <2>1, <2>5, <2>6
<1> QED BY <1>1, <1>2

LEMMA RegistryTypes ==
  ASSUME RegistryTypeOK, NEW k \in Call,
         \/ MarkRinging(k) \/ MarkAccepted(k) \/ EndCall(k)
         \/ \E i \in User, r \in User : CreateCall(k, i, r)
         \/ \E S \in SUBSET User : callOf' = Swept(S) /\ UNCHANGED calls
         \/ UNCHANGED registryVars
  PROVE  RegistryTypeOK'
<1>1. CASE MarkRinging(k) \/ MarkAccepted(k)
  BY <1>1 DEF RegistryTypeOK, MarkRinging, MarkAccepted, ActiveStatuses
<1>2. CASE EndCall(k) BY <1>2 DEF RegistryTypeOK, EndCall, NoCall
<1>3. CASE \E i \in User, r \in User : CreateCall(k, i, r)
  BY <1>3 DEF RegistryTypeOK, CreateCall, ActiveStatuses
<1>4. CASE \E S \in SUBSET User : callOf' = Swept(S) /\ UNCHANGED calls
  BY <1>4 DEF RegistryTypeOK, Swept, GetForUser
<1>5. CASE UNCHANGED registryVars BY <1>5 DEF RegistryTypeOK, registryVars
<1> QED BY <1>1, <1>2, <1>3, <1>4, <1>5

\* the set of users an answer goes to, and what it says
LEMMA AnswerPushes ==
  ASSUME TypeOK, PartyNamed, NEW u \in User, NEW k \in Call, NEW kind \in Kinds,
         Started(k), Answers(u, kind, k)
  PROVE  \E S \in SUBSET User, m \in Event : Push(S, m) /\ m.call = k
<1>1. {u} \in SUBSET User /\ Both(k) \in SUBSET User BY BothUsers
<1>2. Error(kind, k) \in Event /\ Error(kind, k).call = k BY ErrorType DEF Error
<1>3. \A t \in Kinds \cup {"call_busy"} : Plain(t, k) \in Event /\ Plain(t, k).call = k
  BY EventType DEF Plain
<1>4. \E S \in {{u}, Both(k)}, m \in {Error(kind, k), Plain(kind, k), Plain("call_busy", k)} :
        Push(S, m)
  BY DEF Answers
<1> QED BY <1>1, <1>2, <1>3, <1>4

LEMMA ServeTypes ==
  ASSUME TypeOK, PartyNamed, UpNamed, NEW u \in User, Serve(u)
  PROVE  TypeOK'
<1>1. PICK k \in Call, kind \in Kinds :
        Plain(kind, k) \in Range(up[u]) /\ Answers(u, kind, k)
  BY ServeAnswers
<1>2. Started(k) BY <1>1 DEF UpNamed, Between, Plain
<1>3. PushTyped' BY <1>1, <1>2, AnswerPushes, PushEffect
<1>4. RegistryTypeOK'
  <2>1. Callee(k) \in User /\ Both(k) \in SUBSET User BY <1>2, BothUsers
  <2> QED BY <1>1, <2>1, RegistryTypes DEF Answers, TypeOK
<1>5. up' \in [User -> Seq(Request)] BY TakenUp DEF Serve
<1>6. UNCHANGED <<active, timer, accepting, actions, starting, ending, prompt,
                  alert, link, hidden, party, faults, strayed>>
  BY DEF Serve, clientVars
<1> QED BY <1>3, <1>4, <1>5, <1>6 DEF TypeOK, PushTyped

LEMMA LeaveTypes ==
  ASSUME TypeOK, PartyNamed, LiveNamed, NEW u \in User, Leave(u)
  PROVE  TypeOK'
<1>1. PushTyped' /\ RegistryTypeOK'
  <2>1. CASE /\ UNCHANGED <<calls, down, torn>>
             /\ callOf' \in [User -> Call \cup {None}] /\ old' \in [User -> BOOLEAN]
    BY <2>1 DEF TypeOK, PushTyped, RegistryTypeOK
  <2>2. ASSUME NEW k \in Call, Ends(k) PROVE PushTyped' /\ RegistryTypeOK'
    <3>1. Both(k) \in SUBSET User BY <2>2, BothUsers DEF Ends, LiveNamed
    <3>2. PICK kind \in {"call_reject", "call_hangup"} : Push(Both(k), Plain(kind, k))
      BY <2>2 DEF Ends
    <3>3. Plain(kind, k) \in Event BY EventType DEF Kinds
    <3> QED BY <2>2, <3>1, <3>2, <3>3, PushEffect, RegistryTypes DEF Ends, TypeOK
  <2> QED BY <2>1, <2>2, LeaveEnds
<1>2. UNCHANGED <<active, timer, accepting, actions, starting, ending, prompt,
                  alert, link, up, hidden, party, faults, strayed>>
  BY DEF Leave, clientVars
<1> QED BY <1>1, <1>2 DEF TypeOK, PushTyped

LEMMA HideTypes == ASSUME TypeOK, NEW k \in Call, Hide(k) PROVE TypeOK'
<1>1. faults' \in 0..MaxFaults /\ hidden' \in SUBSET Call
  BY BoundsAreNaturals DEF TypeOK, Hide
<1>2. UNCHANGED <<registryVars, clientVars, netVars, party, historyVars>> BY DEF Hide
<1> QED BY <1>1, <1>2
    DEF TypeOK, RegistryTypeOK, registryVars, clientVars, netVars, historyVars

\* what a broken connection takes with it
LEMMA DropEffect ==
  ASSUME TypeOK, NEW u \in User, Drop(u)
  PROVE  /\ up' \in [User -> Seq(Request)] /\ down' \in [User -> Seq(Event)]
         /\ torn' \in SUBSET (User \X Call) /\ torn \subseteq torn'
         /\ up'[u] = <<>> /\ down'[u] = <<>>
         /\ \A v \in User \ {u} : up'[v] = up[v] /\ down'[v] = down[v]
         /\ \A m \in Range(up[u]) \cup Range(down[u]) : <<u, m.call>> \in torn'
<1>1. /\ up \in [User -> Seq(Request)] /\ down \in [User -> Seq(Event)]
      /\ torn \in SUBSET (User \X Call)
  BY DEF TypeOK
<1>2. Range(up[u] \o down[u]) = Range(up[u]) \cup Range(down[u])
  <2> DEFINE s == up[u]  t == down[u]
  <2>1. /\ s \in Seq(Request) /\ t \in Seq(Event)
        /\ Len(s) \in Nat /\ Len(t) \in Nat
    BY <1>1
  <2> HIDE DEF s, t
  <2>2. /\ DOMAIN (s \o t) = 1..(Len(s) + Len(t))
        /\ DOMAIN s = 1..Len(s) /\ DOMAIN t = 1..Len(t)
        /\ \A i \in 1..(Len(s) + Len(t)) :
             (s \o t)[i] = IF i <= Len(s) THEN s[i] ELSE t[i - Len(s)]
    BY <2>1
  <2>3. \A i \in DOMAIN (s \o t) : (s \o t)[i] \in Range(s) \cup Range(t)
    BY <2>1, <2>2 DEF Range
  <2>4. \A i \in DOMAIN s : i \in DOMAIN (s \o t) /\ (s \o t)[i] = s[i]
    BY <2>1, <2>2
  <2>5. \A i \in DOMAIN t : i + Len(s) \in DOMAIN (s \o t) /\ (s \o t)[i + Len(s)] = t[i]
    BY <2>1, <2>2
  <2>6. \A x \in Range(s) \cup Range(t) : x \in Range(s \o t)
    <3>1. ASSUME NEW i \in DOMAIN s PROVE s[i] \in Range(s \o t)
      BY <2>4 DEF Range
    <3>2. ASSUME NEW i \in DOMAIN t PROVE t[i] \in Range(s \o t)
      BY <2>5 DEF Range
    <3> QED BY <3>1, <3>2 DEF Range
  <2>7. \A x \in Range(s \o t) : x \in Range(s) \cup Range(t)
    BY <2>3 DEF Range
  <2> QED BY <2>6, <2>7 DEF s, t
<1>3. \A m \in Range(up[u]) \cup Range(down[u]) : m.call \in Call
  BY <1>1, Elements, RequestForms, EventForms
<1>4. torn' = torn \cup ({u} \X {m.call : m \in Range(up[u]) \cup Range(down[u])})
  BY <1>2 DEF Drop
<1>5. torn' \in SUBSET (User \X Call) BY <1>1, <1>3, <1>4
<1>6. \A m \in Range(up[u]) \cup Range(down[u]) : <<u, m.call>> \in torn'
  BY <1>4
<1>7. /\ up' = [up EXCEPT ![u] = <<>>] /\ down' = [down EXCEPT ![u] = <<>>]
  BY DEF Drop
<1>8. up' \in [User -> Seq(Request)] /\ down' \in [User -> Seq(Event)]
  BY <1>1, <1>7
<1> QED BY <1>1, <1>4, <1>5, <1>6, <1>7, <1>8

LEMMA DropTypes == ASSUME TypeOK, NEW u \in User, Drop(u) PROVE TypeOK'
<1>1. /\ faults' \in 0..MaxFaults /\ old' \in [User -> BOOLEAN]
      /\ link' \in [User -> {"up", "down"}]
  BY BoundsAreNaturals DEF TypeOK, Drop
<1>2. UNCHANGED <<registryVars, clientVars, hidden, party, strayed>> BY DEF Drop
<1> QED BY <1>1, <1>2, DropEffect DEF TypeOK, RegistryTypeOK, registryVars, clientVars

LEMMA ReconnectTypes == ASSUME TypeOK, NEW u \in User, Reconnect(u) PROVE TypeOK'
BY DEF TypeOK, Reconnect, RegistryTypeOK, registryVars, clientVars, historyVars

LEMMA NextTypes ==
  ASSUME TypeOK, PartiesInv, [Next]_vars
  PROVE  TypeOK'
<1>1. CASE Next
  BY <1>1, StartTypes, SentTypes, FailsTypes, AsksTypes, ReceiveTypes, LetGoTypes,
     ServeTypes, LeaveTypes, HideTypes, DropTypes, ReconnectTypes
  DEF Next, UserStep, ClientStep, AsksSomething, PartiesInv
<1>2. CASE UNCHANGED vars
  BY <1>2 DEF vars, registryVars, clientVars, netVars, historyVars, TypeOK, RegistryTypeOK
<1> QED BY <1>1, <1>2

-----------------------------------------------------------------------------
(* Everything on the way and in hand belongs to one of a call's two users. *)

\* what only shrinks still names the right users
LEMMA NamesShrink ==
  ASSUME PartiesInv, UNCHANGED party
  PROVE  /\ PartyNamed'
         /\ UNCHANGED calls => LiveNamed'
         /\ (\A v \in User : Range(up'[v]) \subseteq Range(up[v])) => UpNamed'
         /\ (\A v \in User : Range(down'[v]) \subseteq Range(down[v])) => DownNamed'
         /\ (\A v \in User : Range(starting'[v]) \subseteq Range(starting[v])) =>
              StartingNamed'
         /\ UNCHANGED active => ActiveNamed'
         /\ (\A v \in User : timer'[v] \in {timer[v], None}) => TimerNamed'
         /\ (\A v \in User : prompt'[v] \subseteq prompt[v]) => PromptNamed'
         /\ UNCHANGED <<active, ending>> => EndingNamed'
<1> USE DEF PartiesInv, Started, Caller, Callee, Both, Between
<1>1. PartyNamed' BY DEF PartyNamed
<1>2. UNCHANGED calls => LiveNamed' BY DEF LiveNamed, Live
<1>3. (\A v \in User : Range(up'[v]) \subseteq Range(up[v])) => UpNamed'
  BY DEF UpNamed
<1>4. (\A v \in User : Range(down'[v]) \subseteq Range(down[v])) => DownNamed'
  BY DEF DownNamed
<1>5. (\A v \in User : Range(starting'[v]) \subseteq Range(starting[v])) => StartingNamed'
  BY DEF StartingNamed
<1>6. UNCHANGED active => ActiveNamed' BY DEF ActiveNamed
<1>7. (\A v \in User : timer'[v] \in {timer[v], None}) => TimerNamed' BY DEF TimerNamed
<1>8. (\A v \in User : prompt'[v] \subseteq prompt[v]) => PromptNamed' BY DEF PromptNamed
<1>9. UNCHANGED <<active, ending>> => EndingNamed' BY DEF EndingNamed
<1> QED BY <1>1, <1>2, <1>3, <1>4, <1>5, <1>6, <1>7, <1>8, <1>9

LEMMA InitParties == Init => PartiesInv
BY NothingIn
DEF Init, PartiesInv, PartyNamed, LiveNamed, UpNamed, DownNamed, StartingNamed,
    ActiveNamed, TimerNamed, PromptNamed, EndingNamed, Started, RegistryInit,
    Live, NoCall, ActiveStatuses, Idle

\* a call is started: no other call changes its users
LEMMA StartNames ==
  ASSUME TypeOK, NEW u \in User, NEW v \in User, NEW k \in Call, StartCall(u, v, k)
  PROVE  /\ ~Started(k) /\ Started(k)' /\ party'[k] = <<u, v>> /\ u # v
         /\ Caller(k)' = u /\ Callee(k)' = v
         /\ \A j \in Call \ {k} : /\ party'[j] = party[j]
                                  /\ Started(j)' <=> Started(j)
                                  /\ Caller(j)' = Caller(j) /\ Callee(j)' = Callee(j)
                                  /\ Both(j)' = Both(j)
         /\ Grows(u, Plain("call_invite", k))
         /\ Range(starting'[u]) = Range(starting[u]) \cup {k}
         /\ \A w \in User \ {u} : starting'[w] = starting[w]
         /\ UNCHANGED <<calls, active, timer, prompt, ending, down, hidden,
                        strayed, torn, accepting>>
<1>1. party' = [party EXCEPT ![k] = <<u, v>>] /\ party[k] = NoParty /\ u # v
  BY DEF StartCall
<1>2. party'[k] = <<u, v>> /\ \A j \in Call \ {k} : party'[j] = party[j]
  BY <1>1 DEF TypeOK
<1>3. <<u, v>> # NoParty BY NoneIsNoCall DEF NoParty
<1>4. Grows(u, Plain("call_invite", k))
  <2> DEFINE x == Plain("call_invite", k)
  <2>1. up' = [up EXCEPT ![u] = Append(@, x)] BY DEF StartCall, Plain
  <2> HIDE DEF x
  <2>2. Grows(u, x) BY <2>1 DEF Grows, TypeOK
  <2> QED BY <2>2 DEF x
<1>5. Range(starting'[u]) = Range(starting[u]) \cup {k}
  BY Appended DEF StartCall, TypeOK
<1>6. \A w \in User \ {u} : starting'[w] = starting[w] BY DEF StartCall, TypeOK
<1>7. UNCHANGED <<calls, active, timer, prompt, ending, down, hidden, strayed, torn,
                  accepting>>
  BY DEF StartCall, Elsewhere, registryVars
<1> QED BY <1>1, <1>2, <1>3, <1>4, <1>5, <1>6, <1>7 DEF Started, Caller, Callee, Both

LEMMA StartParties ==
  ASSUME TypeOK, PartiesInv, NEW u \in User, NEW v \in User, NEW k \in Call,
         StartCall(u, v, k)
  PROVE  PartiesInv'
<1> DEFINE x == Plain("call_invite", k)
<1>1. /\ ~Started(k) /\ Started(k)' /\ party'[k] = <<u, v>> /\ u # v
      /\ Caller(k)' = u /\ Callee(k)' = v
      /\ \A j \in Call \ {k} : /\ party'[j] = party[j]
                               /\ Started(j)' <=> Started(j)
                               /\ Caller(j)' = Caller(j) /\ Callee(j)' = Callee(j)
                               /\ Both(j)' = Both(j)
      /\ Range(starting'[u]) = Range(starting[u]) \cup {k}
      /\ \A w \in User \ {u} : starting'[w] = starting[w]
      /\ UNCHANGED <<calls, active, timer, prompt, ending, down>>
  BY StartNames
<1>2. PartyNamed'
  <2>1. party'[k] \in User \X User /\ Caller(k)' # Callee(k)' BY <1>1
  <2>2. ASSUME NEW j \in Call \ {k}, Started(j)'
        PROVE  party'[j] \in User \X User /\ Caller(j)' # Callee(j)'
    BY <1>1, <2>2 DEF PartiesInv, PartyNamed
  <2> QED BY <2>1, <2>2 DEF PartyNamed
<1>3. LiveNamed' BY <1>1 DEF PartiesInv, LiveNamed, Live
<1>a. u \in Both(k)' /\ x.call = k /\ x.type = "call_invite"
  BY <1>1 DEF Both, Plain
<1>4. UpNamed'
  <2> SUFFICES ASSUME NEW w \in User, NEW m \in Range(up'[w])
               PROVE  /\ Between(w, m.call)'
                      /\ m.type = "call_invite" => w = Caller(m.call)'
                      /\ m.type = "call_accept" => w = Callee(m.call)'
    BY DEF UpNamed
  <2>1. m \in Range(up[w]) \/ (w = u /\ m = x)
    BY StartNames, GrowsRange, RequestType DEF Kinds
  <2>2. CASE m \in Range(up[w])
    <3>1. m.call \in Call BY <2>2, Elements, RequestForms DEF TypeOK
    <3>2. m.call # k BY <1>1, <2>2 DEF PartiesInv, UpNamed, Between
    <3> QED BY <1>1, <2>2, <3>1, <3>2 DEF PartiesInv, UpNamed, Between
  <2>3. CASE w = u /\ m = x BY <1>1, <1>a, <2>3 DEF Between
  <2> QED BY <2>1, <2>2, <2>3
<1>5. DownNamed'
  <2> SUFFICES ASSUME NEW w \in User, NEW m \in Range(down[w])
               PROVE  Between(w, m.call)'
    BY <1>1 DEF DownNamed
  <2>1. m.call \in Call BY Elements, EventForms DEF TypeOK
  <2>2. m.call # k BY <1>1 DEF PartiesInv, DownNamed, Between
  <2> QED BY <1>1, <2>1, <2>2 DEF PartiesInv, DownNamed, Between
<1>6. StartingNamed'
  <2> SUFFICES ASSUME NEW w \in User, NEW j \in Range(starting'[w])
               PROVE  Started(j)' /\ w = Caller(j)'
    BY DEF StartingNamed
  <2>1. j \in Range(starting[w]) \/ (w = u /\ j = k) BY <1>1
  <2>2. j \in Range(starting[w]) => j \in Call BY Elements DEF TypeOK
  <2> QED BY <1>1, <2>1, <2>2 DEF PartiesInv, StartingNamed
<1>7. ActiveNamed' BY <1>1, Showing DEF PartiesInv, ActiveNamed, Between
<1>8. TimerNamed' BY <1>1 DEF PartiesInv, TimerNamed, TypeOK
<1>9. PromptNamed' /\ EndingNamed'
  BY <1>1 DEF PartiesInv, PromptNamed, EndingNamed, TypeOK
<1> QED BY <1>2, <1>3, <1>4, <1>5, <1>6, <1>7, <1>8, <1>9 DEF PartiesInv

\* the invitation of the first coroutine is through, or not
LEMMA SentEffect ==
  ASSUME TypeOK, NEW u \in User, InviteSent(u)
  PROVE  \E k \in Range(starting[u]) :
           /\ k \in Call
           /\ Range(starting[u]) = {k} \cup Range(starting'[u])
           /\ \A v \in User \ {u} : starting'[v] = starting[v] /\ active'[v] = active[v]
                                    /\ timer'[v] = timer[v]
           /\ active'[u] = [id |-> k, dir |-> "out", status |-> "inviting"]
           /\ timer'[u] = k
<1>1. Head(starting[u]) \in Call /\ starting[u] \in Seq(Call) /\ starting[u] # <<>>
      /\ Range(starting[u]) = {Head(starting[u])} \cup Range(Tail(starting[u]))
  BY Headed DEF TypeOK, InviteSent
<1>2. starting'[u] = Tail(starting[u]) BY DEF TypeOK, InviteSent
<1>3. \A v \in User \ {u} : starting'[v] = starting[v] /\ active'[v] = active[v]
                            /\ timer'[v] = timer[v]
  BY DEF TypeOK, InviteSent
<1>4. /\ active'[u] = [id |-> Head(starting[u]), dir |-> "out", status |-> "inviting"]
      /\ timer'[u] = Head(starting[u])
  BY DEF TypeOK, InviteSent
<1> QED BY <1>1, <1>2, <1>3, <1>4

LEMMA SentParties ==
  ASSUME TypeOK, PartiesInv, NEW u \in User, InviteSent(u)
  PROVE  PartiesInv'
<1>1. PICK k \in Range(starting[u]) :
           /\ k \in Call
           /\ Range(starting[u]) = {k} \cup Range(starting'[u])
           /\ \A v \in User \ {u} : starting'[v] = starting[v] /\ active'[v] = active[v]
                                    /\ timer'[v] = timer[v]
           /\ active'[u] = [id |-> k, dir |-> "out", status |-> "inviting"]
           /\ timer'[u] = k
  BY SentEffect
<1>2. UNCHANGED <<calls, up, down, prompt, ending, party>>
  BY DEF InviteSent, registryVars, netVars
<1>3. Started(k) /\ u = Caller(k) BY DEF PartiesInv, StartingNamed
<1>4. StartingNamed' BY <1>1, <1>2, NamesShrink
<1>5. ActiveNamed'
  BY <1>1, <1>2, <1>3 DEF PartiesInv, ActiveNamed, Between, Both, Started, Caller
<1>6. TimerNamed'
  BY <1>1, <1>2, <1>3 DEF PartiesInv, TimerNamed, Started, Caller
<1>7. EndingNamed'
  <2>1. active'[u] # Idle BY <1>1, NoneIsNoCall DEF Idle
  <2> QED BY <1>1, <1>2, <2>1 DEF PartiesInv, EndingNamed, Started
<1> QED BY <1>2, <1>4, <1>5, <1>6, <1>7, NamesShrink DEF PartiesInv

LEMMA FailsParties ==
  ASSUME TypeOK, PartiesInv, NEW u \in User, InviteFails(u)
  PROVE  PartiesInv'
<1>1. UNCHANGED <<calls, active, timer, ending, prompt, up, down, party>>
  BY DEF InviteFails, registryVars, netVars
<1>2. \A v \in User : Range(starting'[v]) \subseteq Range(starting[v])
  BY Headed DEF TypeOK, InviteFails
<1> QED BY <1>1, <1>2, NamesShrink DEF PartiesInv

\* what the steps that ask leave alone
Calm(u) ==
  /\ UNCHANGED <<calls, active, starting, ending, down, hidden, party, strayed>>
  /\ \A v \in User : prompt'[v] \subseteq prompt[v]
  /\ \A v \in User : timer'[v] = timer[v] \/ (v = u /\ timer'[v] = None)

\* what is asked is about the call that is shown
AsksFor(u, kind, k) ==
  /\ Ask(u, k, kind) /\ active[u].id = k /\ kind # "call_invite"
  /\ timer'[u] = timer[u] \/ kind = "call_hangup"
  /\ \/ kind # "call_accept" /\ UNCHANGED accepting
     \/ /\ kind = "call_accept" /\ active[u].dir = "in"
        /\ k \in prompt[u] /\ k \notin prompt'[u]
        /\ \A v \in User : \A j \in accepting[v] :
             j \in accepting'[v] \/ (v = u /\ j = k)
        /\ k \in accepting'[u] \/ <<u, k>> \in torn'

LEMMA AsksForms ==
  ASSUME TypeOK, NEW u \in User, AsksSomething(u)
  PROVE  /\ Calm(u)
         /\ \/ /\ AskNothing /\ UNCHANGED accepting
               /\ timer'[u] = timer[u] \/ ~Unanswered(u, timer[u])
            \/ \E k \in Call, kind \in Kinds : AsksFor(u, kind, k)
<1> USE DEF Elsewhere, registryVars
<1>1. ASSUME NEW k \in Call, AcceptCall(u, k)
      PROVE  Calm(u) /\ AsksFor(u, "call_accept", k)
  <2>1. Calm(u) BY <1>1 DEF AcceptCall, Calm, TypeOK
  <2>2. k \notin prompt'[u] /\ k \in prompt[u] BY <1>1 DEF AcceptCall, TypeOK
  <2>3. <<u, k>> \in torn' \/ <<k, "call_accept">> \in actions'[u]
    BY <1>1, AskEffect DEF AcceptCall, Kinds
  <2>4. accepting' = [accepting EXCEPT ![u] =
          IF <<k, "call_accept">> \in actions'[u] THEN @ \cup {k} ELSE @ \ {k}]
    BY <1>1 DEF AcceptCall
  <2>5. /\ \A v \in User : \A j \in accepting[v] :
             j \in accepting'[v] \/ (v = u /\ j = k)
        /\ k \in accepting'[u] \/ <<u, k>> \in torn'
    BY <2>3, <2>4 DEF TypeOK
  <2> QED BY <1>1, <2>1, <2>2, <2>5 DEF AsksFor, AcceptCall, Waiting, Current
<1>2. ASSUME NEW k \in Call, RejectCall(u, k)
      PROVE  Calm(u) /\ AsksFor(u, "call_reject", k)
  BY <1>2 DEF RejectCall, Calm, AsksFor, Waiting, Current, TypeOK
<1>3. ASSUME NEW k \in Call, HangupCall(u, k)
      PROVE  Calm(u) /\ AsksFor(u, "call_hangup", k)
  BY <1>3 DEF HangupCall, Calm, AsksFor, Current, TypeOK
<1>4. ASSUME NEW k \in Call, SendRinging(u, k)
      PROVE  /\ Calm(u)
             /\ \/ AskNothing /\ UNCHANGED accepting /\ timer'[u] = timer[u]
                \/ AsksFor(u, "call_ringing", k)
  BY <1>4 DEF SendRinging, Calm, AsksFor, Waiting, Current, TypeOK
<1>5. ASSUME TimeOut(u)
      PROVE  /\ Calm(u) /\ timer[u] \in Call
             /\ \/ AskNothing /\ UNCHANGED accepting /\ ~Unanswered(u, timer[u])
                \/ AsksFor(u, "call_hangup", timer[u])
  <2>1. timer[u] \in Call BY <1>5 DEF TimeOut, TypeOK
  <2>2. Calm(u) BY <1>5 DEF TimeOut, Calm, TypeOK
  <2>3. CASE Unanswered(u, timer[u])
    <3>1. Ask(u, timer[u], "call_hangup") /\ UNCHANGED accepting
      BY <1>5, <2>3 DEF TimeOut
    <3>2. active[u].id = timer[u] BY <2>3 DEF Unanswered
    <3> QED BY <2>1, <2>2, <3>1, <3>2 DEF AsksFor
  <2>4. CASE ~Unanswered(u, timer[u]) BY <1>5, <2>1, <2>2, <2>4 DEF TimeOut
  <2> QED BY <2>3, <2>4
<1> QED BY <1>1, <1>2, <1>3, <1>4, <1>5 DEF AsksSomething, Kinds

LEMMA AsksParties ==
  ASSUME TypeOK, PartiesInv, NEW u \in User, AsksSomething(u)
  PROVE  PartiesInv'
<1>1. Calm(u) BY AsksForms
<1>2. UpNamed'
  <2>1. CASE AskNothing BY <1>1, <2>1, NamesShrink DEF AskNothing, Calm
  <2>2. ASSUME NEW k \in Call, NEW kind \in Kinds, AsksFor(u, kind, k)
        PROVE  UpNamed'
    <3> DEFINE x == Plain(kind, k)
    <3>a. Grows(u, x) BY <2>2, AskEffect DEF AsksFor
    <3>b. x \in Request BY RequestType
    <3> HIDE DEF x
    <3>1. \A v \in User :
            /\ Range(up'[v]) \subseteq Range(up[v]) \cup {x}
            /\ v # u => Range(up'[v]) = Range(up[v])
      BY <3>a, <3>b, GrowsRange
    <3>2. x.call = k /\ x.type = kind BY DEF Plain, x
    <3>3. active[u] # Idle BY <2>2, Showing DEF AsksFor
    <3>4. Between(u, k) /\ (active[u].dir = "in" => u # Caller(k))
      BY <2>2, <3>3 DEF AsksFor, PartiesInv, ActiveNamed
    <3>5. Both(k) = {Caller(k), Callee(k)} BY DEF Both, Caller, Callee
    <3>6. kind # "call_invite" /\ (kind = "call_accept" => u = Callee(k))
      BY <2>2, <3>4, <3>5 DEF AsksFor, Between
    <3> SUFFICES ASSUME NEW v \in User, NEW m \in Range(up'[v])
                 PROVE  /\ Between(v, m.call)
                        /\ m.type = "call_invite" => v = Caller(m.call)
                        /\ m.type = "call_accept" => v = Callee(m.call)
      BY <1>1 DEF Calm, UpNamed, Between, Started, Both, Caller, Callee
    <3>7. CASE m \in Range(up[v]) BY <3>7 DEF PartiesInv, UpNamed
    <3>8. CASE v = u /\ m = x BY <3>2, <3>4, <3>6, <3>8
    <3> QED BY <3>1, <3>7, <3>8
  <2> QED BY <2>1, <2>2, AsksForms
<1> QED BY <1>1, <1>2, NamesShrink DEF Calm, PartiesInv

\* only an invitation shows a call that was not shown
LEMMA TakesParties ==
  ASSUME TypeOK, PartiesInv, NEW u \in User, NEW m \in Event, m \in Range(down[u]),
         ending[u] = None, Takes(u, m), UNCHANGED party
  PROVE  ActiveNamed' /\ TimerNamed' /\ PromptNamed' /\ EndingNamed'
<1> USE DEF Started, Caller, Callee, Both, Between
<1>0. PICK k \in Call :
        \/ m = Plain("call_invite", k) /\ TakeInvite(u, k)
        \/ m = Plain("call_ringing", k) /\ TakeRinging(u, k)
        \/ m = Plain("call_accept", k) /\ TakeAccept(u, k)
        \/ \E s \in Terminal : TakeEnd(u, k, s)
        \/ \E kind \in Kinds : TakeError(u, k, kind)
  BY DEF Takes, Terminal
<1>1. ASSUME UNCHANGED <<active, timer, ending, prompt>>
      PROVE  ActiveNamed' /\ TimerNamed' /\ PromptNamed' /\ EndingNamed'
  BY <1>1, NamesShrink
<1>2. ASSUME active[u] # Idle, NEW s \in Shown \cup Terminal,
             active' = [active EXCEPT ![u].status = s]
      PROVE  /\ ActiveNamed' /\ active'[u] # Idle /\ Started(active[u].id)
             /\ \A v \in User \ {u} : active'[v] = active[v]
  <2>1. active'[u] = [id |-> active[u].id, dir |-> active[u].dir, status |-> s]
        /\ active'[u] # Idle /\ \A v \in User \ {u} : active'[v] = active[v]
    BY <1>2, StatusSet
  <2>2. active'[u].id = active[u].id /\ active'[u].dir = active[u].dir BY <2>1
  <2>3. Started(active[u].id) BY <1>2 DEF PartiesInv, ActiveNamed
  <2> QED BY <1>2, <2>1, <2>2, <2>3 DEF PartiesInv, ActiveNamed
<1>3. ASSUME active[u].id = k, NEW s \in Terminal, Finish(u, k, s)
      PROVE  ActiveNamed' /\ TimerNamed' /\ PromptNamed' /\ EndingNamed'
  <2>1. active[u] # Idle BY <1>3, Showing
  <2>2. /\ ActiveNamed' /\ active'[u] # Idle /\ Started(active[u].id)
        /\ \A v \in User \ {u} : active'[v] = active[v]
    BY <1>2, <1>3, <2>1 DEF Finish
  <2>3. TimerNamed' /\ PromptNamed' BY <1>3, NamesShrink DEF Finish, TypeOK
  <2>4. EndingNamed' BY <1>3, <2>2 DEF Finish, PartiesInv, EndingNamed, TypeOK
  <2> QED BY <2>2, <2>3, <2>4
<1>4. CASE m = Plain("call_invite", k) /\ TakeInvite(u, k)
  <2> DEFINE d == IF party[k][1] = u THEN "out" ELSE "in"
             now == [id |-> k, dir |-> d, status |-> "invited"]
  <2>1. Between(u, k) BY <1>4 DEF PartiesInv, DownNamed, Plain
  <2>2. CASE /\ active' = [active EXCEPT ![u] = now]
             /\ \/ d = "in" /\ prompt' = [prompt EXCEPT ![u] = @ \cup {k}]
                \/ UNCHANGED prompt
             /\ UNCHANGED <<timer, ending>>
    <3>1. /\ active'[u] = now /\ \A v \in User \ {u} : active'[v] = active[v]
          /\ now # Idle /\ now.id = k /\ now.dir = d
          /\ \/ d = "in" /\ prompt'[u] = prompt[u] \cup {k}
             \/ prompt'[u] = prompt[u]
          /\ \A v \in User \ {u} : prompt'[v] = prompt[v]
      BY <2>2, NoneIsNoCall DEF TypeOK, Idle
    <3>2. d = "out" <=> u = Caller(k) OBVIOUS
    <3> HIDE DEF now, d
    <3>3. ActiveNamed' BY <2>1, <2>2, <3>1, <3>2 DEF PartiesInv, ActiveNamed
    <3>4. PromptNamed'
      BY <2>1, <3>1, <3>2 DEF PartiesInv, PromptNamed, d
    <3>5. EndingNamed' BY <2>2, <3>1 DEF PartiesInv, EndingNamed
    <3> QED BY <2>2, <3>3, <3>4, <3>5, NamesShrink
  <2>3. CASE UNCHANGED <<active, timer, ending, prompt>> BY <1>1, <2>3
  <2> QED BY <1>4, <2>2, <2>3 DEF TakeInvite
<1>5. CASE TakeRinging(u, k)
  <2>1. CASE active[u].id = k
    <3>1. active[u] # Idle BY <2>1, Showing
    <3>2. /\ ActiveNamed' /\ active'[u] # Idle
          /\ \A v \in User \ {u} : active'[v] = active[v]
      BY <1>2, <1>5, <2>1, <3>1 DEF TakeRinging, Shown
    <3>3. UNCHANGED <<timer, ending, prompt>> BY <1>5, <2>1 DEF TakeRinging
    <3>4. EndingNamed' BY <3>2, <3>3 DEF PartiesInv, EndingNamed
    <3> QED BY <3>2, <3>3, <3>4, NamesShrink
  <2>2. CASE active[u].id # k BY <1>1, <1>5, <2>2 DEF TakeRinging, PassOver
  <2> QED BY <2>1, <2>2
<1>6. CASE TakeAccept(u, k)
  <2>1. CASE active[u].id = k /\ active[u].status # "accepted"
    <3>1. active[u] # Idle BY <2>1, Showing
    <3>2. TimerNamed' /\ PromptNamed' /\ ending' = ending
      <4>1. /\ timer' = [timer EXCEPT ![u] = None] /\ ending' = ending
            /\ prompt' = [prompt EXCEPT ![u] = @ \ {k}]
        BY <1>6, <2>1 DEF TakeAccept
      <4>2. \A v \in User : timer'[v] \in {timer[v], None} /\ prompt'[v] \subseteq prompt[v]
        BY <4>1 DEF TypeOK
      <4> QED BY <4>1, <4>2, NamesShrink
    <3>3. \/ /\ ActiveNamed' /\ active'[u] # Idle
             /\ \A v \in User \ {u} : active'[v] = active[v]
          \/ active' = [active EXCEPT ![u] = Idle]
      BY <1>2, <1>6, <2>1, <3>1 DEF TakeAccept, Shown
    <3>4. ActiveNamed' BY <3>3 DEF PartiesInv, ActiveNamed, TypeOK
    <3>5. EndingNamed' BY <3>2, <3>3 DEF PartiesInv, EndingNamed, TypeOK
    <3> QED BY <3>2, <3>4, <3>5
  <2>2. CASE ~(active[u].id = k /\ active[u].status # "accepted")
    BY <1>1, <1>6, <2>2 DEF TakeAccept, PassOver
  <2> QED BY <2>1, <2>2
<1>7. ASSUME NEW s \in Terminal, TakeEnd(u, k, s)
      PROVE  ActiveNamed' /\ TimerNamed' /\ PromptNamed' /\ EndingNamed'
  BY <1>1, <1>3, <1>7 DEF TakeEnd, PassOver
<1>8. ASSUME NEW kind \in Kinds, TakeError(u, k, kind)
      PROVE  ActiveNamed' /\ TimerNamed' /\ PromptNamed' /\ EndingNamed'
  BY <1>1, <1>3, <1>8 DEF TakeError, PassOver, Terminal
<1> QED BY <1>0, <1>4, <1>5, <1>6, <1>7, <1>8

LEMMA ReceiveParties ==
  ASSUME TypeOK, PartiesInv, NEW u \in User, Receive(u)
  PROVE  PartiesInv'
<1>1. UNCHANGED <<calls, starting, up, party>> /\ ending[u] = None
  BY DEF Receive, registryVars
<1>2. \A v \in User : Range(down'[v]) \subseteq Range(down[v])
      /\ Head(down[u]) \in Range(down[u])
  BY TakenDown DEF Receive
<1>3. ActiveNamed' /\ TimerNamed' /\ PromptNamed' /\ EndingNamed'
  BY <1>1, <1>2, ReceiveTakes, TakesParties
<1> QED BY <1>1, <1>2, <1>3, NamesShrink DEF PartiesInv

LEMMA LetGoParties ==
  ASSUME TypeOK, PartiesInv, NEW u \in User, LetGo(u)
  PROVE  PartiesInv'
<1>1. UNCHANGED <<calls, timer, starting, prompt, up, down, party>>
  BY DEF LetGo, registryVars, netVars
<1>2. /\ active'[u] = Idle /\ \A v \in User \ {u} : active'[v] = active[v]
      /\ ending'[u] = None /\ \A v \in User \ {u} : ending'[v] = ending[v]
  BY DEF LetGo, TypeOK
<1>3. ActiveNamed' /\ EndingNamed'
  BY <1>1, <1>2
  DEF PartiesInv, ActiveNamed, EndingNamed, Between, Started, Both, Caller
<1> QED BY <1>1, <1>3, NamesShrink DEF PartiesInv

\* an answer is about a call of the one who asked, and goes to its users
LEMMA AnswerTells ==
  ASSUME TypeOK, PartiesInv, NEW u \in User, NEW k \in Call, NEW kind \in Kinds,
         Plain(kind, k) \in Range(up[u]), Answers(u, kind, k)
  PROVE  /\ Between(u, k) /\ (kind = "call_invite" => u = Caller(k))
         /\ (kind = "call_accept" => u = Callee(k))
         /\ \E S \in SUBSET Both(k), m \in Event :
              /\ S \in SUBSET User /\ m.call = k /\ Push(S, m)
              /\ PushTyped' /\ Tells(S, m)
<1>1. /\ Between(u, k) /\ (kind = "call_invite" => u = Caller(k))
      /\ (kind = "call_accept" => u = Callee(k))
  BY DEF PartiesInv, UpNamed, Plain
<1>2. Started(k) /\ u \in Both(k) /\ Both(k) \in SUBSET User
  BY <1>1, BothUsers DEF Between, PartiesInv
<1>3. {u} \in SUBSET Both(k) /\ Both(k) \in SUBSET Both(k) BY <1>2
<1>4. Error(kind, k) \in Event /\ Error(kind, k).call = k BY ErrorType DEF Error
<1>5. \A t \in Kinds \cup {"call_busy"} : Plain(t, k) \in Event /\ Plain(t, k).call = k
  BY EventType DEF Plain
<1>6. \E S \in {{u}, Both(k)}, m \in {Error(kind, k), Plain(kind, k), Plain("call_busy", k)} :
        Push(S, m)
  BY DEF Answers
<1>7. \E S \in SUBSET Both(k), m \in Event : S \in SUBSET User /\ m.call = k /\ Push(S, m)
  BY <1>2, <1>3, <1>4, <1>5, <1>6
<1> QED BY <1>1, <1>7, PushEffect

LEMMA PushParties ==
  ASSUME PartiesInv, UNCHANGED party, NEW k \in Call, NEW S \in SUBSET Both(k),
         NEW m \in Event, m.call = k, Started(k), Tells(S, m)
  PROVE  DownNamed'
<1> SUFFICES ASSUME NEW v \in User, NEW x \in Range(down'[v])
             PROVE  Between(v, x.call)
  BY DEF DownNamed, Between, Started, Both
<1>1. CASE x \in Range(down[v]) BY <1>1 DEF PartiesInv, DownNamed
<1>2. CASE x = m /\ v \in S BY <1>2 DEF Between
<1> QED BY <1>1, <1>2 DEF Tells

LEMMA ServeParties ==
  ASSUME TypeOK, PartiesInv, NEW u \in User, Serve(u)
  PROVE  PartiesInv'
<1>1. PICK k \in Call, kind \in Kinds :
        Plain(kind, k) \in Range(up[u]) /\ Answers(u, kind, k)
  BY ServeAnswers
<1>2. UNCHANGED <<active, timer, starting, ending, prompt, party>>
  BY DEF Serve, clientVars
<1>3. /\ Between(u, k) /\ (kind = "call_invite" => u = Caller(k))
  BY <1>1, AnswerTells
<1>4. DownNamed'
  <2>1. PICK S \in SUBSET Both(k), m \in Event : m.call = k /\ Tells(S, m)
    BY <1>1, AnswerTells
  <2> QED BY <1>2, <1>3, <2>1, PushParties DEF Between
<1>5. \A v \in User : Range(up'[v]) \subseteq Range(up[v]) BY TakenUp DEF Serve
<1>6. LiveNamed'
  <2>1. /\ calls \in [Call -> [status : ActiveStatuses \cup {"none"},
                               initiator : User \cup {None}, recipient : User \cup {None}]]
    BY DEF TypeOK, RegistryTypeOK
  <2>2. CASE UNCHANGED calls BY <1>2, <2>2, NamesShrink
  <2>3. CASE (MarkRinging(k) \/ MarkAccepted(k)) /\ Live(k)
    BY <1>2, <2>1, <2>3
    DEF MarkRinging, MarkAccepted, Live, PartiesInv, LiveNamed, Started, Caller, Callee
  <2>4. CASE EndCall(k)
    BY <1>2, <2>1, <2>4
    DEF EndCall, NoCall, ActiveStatuses, Live, PartiesInv, LiveNamed, Started, Caller, Callee
  <2>5. CASE kind = "call_invite" /\ CreateCall(k, u, Callee(k))
    BY <1>2, <1>3, <2>1, <2>5
    DEF CreateCall, Live, PartiesInv, LiveNamed, Started, Caller, Callee, Between
  <2> QED BY <1>1, <2>2, <2>3, <2>4, <2>5 DEF Answers, registryVars
<1> QED BY <1>2, <1>4, <1>5, <1>6, NamesShrink DEF PartiesInv

\* the end of a call: what is known of its users afterwards
LEMMA EndsTells ==
  ASSUME TypeOK, PartiesInv, NEW k \in Call, Ends(k)
  PROVE  /\ Started(k) /\ PushTyped'
         /\ \E kind \in {"call_reject", "call_hangup"} :
              Plain(kind, k) \in Event /\ Tells(Both(k), Plain(kind, k))
<1>1. Started(k) /\ Both(k) \in SUBSET User
  BY BothUsers DEF Ends, PartiesInv, LiveNamed
<1>2. PICK kind \in {"call_reject", "call_hangup"} : Push(Both(k), Plain(kind, k))
  BY DEF Ends
<1>3. Plain(kind, k) \in Event BY EventType DEF Kinds
<1> QED BY <1>1, <1>2, <1>3, PushEffect

LEMMA LeaveParties ==
  ASSUME TypeOK, PartiesInv, NEW u \in User, Leave(u)
  PROVE  PartiesInv'
<1>1. UNCHANGED <<active, timer, starting, ending, prompt, up, party>>
  BY DEF Leave, clientVars
<1>2. CASE UNCHANGED <<calls, down, torn>>
  BY <1>1, <1>2, NamesShrink DEF PartiesInv
<1>3. ASSUME NEW k \in Call, Ends(k) PROVE PartiesInv'
  <2>1. Started(k) BY <1>3, EndsTells
  <2>2. PICK kind \in {"call_reject", "call_hangup"} :
          Plain(kind, k) \in Event /\ Tells(Both(k), Plain(kind, k))
    BY <1>3, EndsTells
  <2>3. DownNamed'
    <3>1. Plain(kind, k).call = k BY DEF Plain
    <3> QED BY <1>1, <2>1, <2>2, <3>1, PushParties
  <2>4. LiveNamed'
    BY <1>1, <1>3
    DEF Ends, EndCall, NoCall, ActiveStatuses, Live, PartiesInv, LiveNamed, Started,
        Caller, Callee, TypeOK, RegistryTypeOK
  <2> QED BY <1>1, <2>3, <2>4, NamesShrink DEF PartiesInv
<1> QED BY <1>2, <1>3, LeaveEnds

LEMMA NetParties ==
  ASSUME TypeOK, PartiesInv,
         \/ \E k \in Call : Hide(k)
         \/ \E u \in User : Drop(u) \/ Reconnect(u)
         \/ UNCHANGED vars
  PROVE  PartiesInv'
<1>1. UNCHANGED <<calls, active, timer, starting, ending, prompt, party>>
  BY DEF Hide, Drop, Reconnect, vars, registryVars, clientVars
<1>2. \A v \in User : /\ Range(up'[v]) \subseteq Range(up[v])
                      /\ Range(down'[v]) \subseteq Range(down[v])
  <2>1. CASE UNCHANGED <<up, down>> BY <2>1
  <2>2. ASSUME NEW u \in User, Drop(u)
        PROVE  \A v \in User : /\ Range(up'[v]) \subseteq Range(up[v])
                               /\ Range(down'[v]) \subseteq Range(down[v])
    BY <2>2, DropEffect, NothingIn
  <2> QED BY <2>1, <2>2 DEF Hide, Reconnect, vars, netVars
<1> QED BY <1>1, <1>2, NamesShrink DEF PartiesInv

LEMMA NextParties ==
  ASSUME TypeOK, PartiesInv, [Next]_vars
  PROVE  PartiesInv'
<1>1. CASE Next
  BY <1>1, StartParties, SentParties, FailsParties, AsksParties, ReceiveParties,
     LetGoParties, ServeParties, LeaveParties, NetParties
  DEF Next, UserStep, ClientStep, AsksSomething
<1>2. CASE UNCHANGED vars BY <1>2, NetParties
<1> QED BY <1>1, <1>2

LEMMA TypedParties == Spec => [](TypeOK /\ PartiesInv)
<1>1. TypeOK /\ PartiesInv /\ [Next]_vars => (TypeOK /\ PartiesInv)'
  BY NextTypes, NextParties
<1> QED BY <1>1, InitTypes, InitParties, PTL DEF Spec

\* TypeOK holds in every state, for any users, calls and bounds.
THEOREM TypeCorrect == Spec => []TypeOK
BY TypedParties, PTL

-----------------------------------------------------------------------------
(* What is on the way tells the truth.                                     *)

Inviting(k) == Plain("call_invite", k)
Accepting(k) == Plain("call_accept", k)

\* the invitation of k has not reached the server
Unserved(k) == \E u \in User : Asked(u, "call_invite", k)

EndTold(u, k) == \E kind \in {"call_reject", "call_hangup", "call_busy"} : Told(u, kind, k)

\* the invitation is the first of all requests of its call, and the only one
InviteOnce ==
  \A u \in User, k \in Call :
    /\ \A kind \in Kinds : NoneAfter(up[u], Plain(kind, k), Inviting(k))
    /\ NoneAfter(down[u], Inviting(k), Inviting(k))

\* nobody has heard of k
Fresh(k) == \A v \in User : \A m \in Range(down[v]) : m.call # k

\* before its invitation arrives only its caller knows of a call
InviteFirst ==
  \A k \in Call : Unserved(k) =>
    /\ ~Live(k) /\ Fresh(k)
    /\ \A v \in User \ {Caller(k)} : \A m \in Range(up[v]) : m.call # k

\* a call is answered once
AcceptOnce ==
  \A u \in User, k \in Call :
    /\ NoneAfter(up[u], Accepting(k), Accepting(k))
    /\ Asked(u, "call_accept", k) \/ k \in prompt[u] => calls[k].status # "accepted"
    /\ k \in prompt[u] => ~Asked(u, "call_accept", k)

EndsAreTrue == \A u \in User, k \in Call : EndTold(u, k) => ~Live(k)

RefusalsAreTrue ==
  \A u \in User, k \in Call :
    \A kind \in {"call_invite", "call_accept", "call_hangup"} :
      Refused(u, kind, k) => ~Live(k) \/ k \in hidden

\* nothing of a call is told after its end
EndsAreLast ==
  \A u \in User, k \in Call :
    \A kind \in {"call_reject", "call_hangup", "call_busy"} :
      /\ NoneAfter(down[u], Plain(kind, k), Inviting(k))
      /\ NoneAfter(down[u], Plain(kind, k), Accepting(k))

NoLateRinging ==
  \A u \in User, k \in Call : NoneAfter(down[u], Accepting(k), Plain("call_ringing", k))

AcceptsAreTrue ==
  \A u \in User, k \in Call : Told(u, "call_accept", k) =>
    /\ calls[k].status \notin {"invited", "ringing"}
    /\ calls[k].status = "accepted" \/ EndTold(u, k) \/ <<u, k>> \in torn

InvitesAreTrue ==
  \A u \in User, k \in Call :
    Told(u, "call_invite", k) => Live(k) \/ EndTold(u, k) \/ <<u, k>> \in torn

FlowInv ==
  /\ InviteOnce /\ InviteFirst /\ AcceptOnce /\ EndsAreTrue
  /\ RefusalsAreTrue /\ EndsAreLast /\ NoLateRinging /\ AcceptsAreTrue
  /\ InvitesAreTrue

-----------------------------------------------------------------------------
(* What a client shows fits what is on the way.                            *)

\* the callee has not seen the invitation of k
Untaken(k) ==
  \/ Unserved(k)
  \/ \E u \in User : Told(u, "call_invite", k) /\ u # Caller(k)

UntakenIsFresh ==
  \A k \in Call : Untaken(k) =>
    /\ calls[k].status # "accepted"
    /\ \A v \in User : /\ active[v].id = k => active[v].dir = "out"
                       /\ k \notin prompt[v]
                       /\ ~Asked(v, "call_accept", k) /\ ~Told(v, "call_accept", k)

EndingIsTrue ==
  \A u \in User : ending[u] # None =>
    (~Live(ending[u]) /\ ~Unserved(ending[u])) \/ ending[u] \in hidden

TerminalEnds ==
  \A u \in User : active[u].status \in Terminal => ending[u] = active[u].id

TimedIsUnanswered ==
  \A u \in User : active[u] # Idle /\ timer[u] = active[u].id =>
    active[u].status \in {"inviting", "ringing"}

AcceptedIsTrue ==
  \A u \in User : active[u].status = "accepted" =>
    /\ calls[active[u].id].status \notin {"invited", "ringing"}
    /\ ~Told(u, "call_ringing", active[u].id)
    /\ ~Unserved(active[u].id)

\* the answer of this client is known as its own
AcceptIsAwaited ==
  \A u \in User, k \in Call :
    (/\ active[u].id = k /\ active[u].dir = "in"
     /\ Asked(u, "call_accept", k) \/ Told(u, "call_accept", k))
    => \/ k \in accepting[u]
       \/ active[u].status \in Terminal \cup {"accepted"}
       \/ <<u, k>> \in torn

ClientInv ==
  /\ UntakenIsFresh /\ EndingIsTrue /\ TerminalEnds /\ TimedIsUnanswered
  /\ AcceptedIsTrue /\ AcceptIsAwaited

-----------------------------------------------------------------------------
(* What is shown is live, or its end is near, and what is live is shown.   *)

\* a hangup of this client, and the refusal it may get
HangupDue(u, k) ==
  /\ <<k, "call_hangup">> \in actions[u]
  /\ Asked(u, "call_hangup", k) \/ Refused(u, "call_hangup", k)

\* client and server agree whether k is answered, or the answer is on its
\* way; a call of this client's own is answered, or else its timer runs
Agrees(u, k) ==
  /\ active[u].status = "accepted" => calls[k].status = "accepted"
  /\ calls[k].status = "accepted" =>
       active[u].status = "accepted" \/ Told(u, "call_accept", k)
  /\ active[u].dir = "out" => active[u].status = "accepted"

Justified(u, k) ==
  \/ <<u, k>> \in torn \/ k \in hidden \/ timer[u] = k \/ ending[u] = k
  \/ HangupDue(u, k) \/ EndTold(u, k)
  \/ (Live(k) /\ Agrees(u, k))

ShownInv == \A u \in User, k \in Call : active[u].id = k => Justified(u, k)

Excused(u, k) == <<u, k>> \in torn \cup strayed \/ k \in hidden

CallerInv ==
  \A k \in Call : Live(k) \/ Unserved(k) =>
    \/ active[Caller(k)].id = k
    \/ k \in Range(starting[Caller(k)])
    \/ Excused(Caller(k), k)

CalleeInv ==
  \A k \in Call : Live(k) =>
    \/ active[Callee(k)].id = k
    \/ Told(Callee(k), "call_invite", k)
    \/ Excused(Callee(k), k)

IInv ==
  TypeOK /\ PartiesInv /\ FlowInv /\ ClientInv /\ ShownInv /\ CallerInv /\ CalleeInv

-----------------------------------------------------------------------------
(* FlowInv, step by step.                                                  *)

LEMMA Forms ==
  /\ \A a, k : Plain(a, k).type = a /\ Plain(a, k).call = k
  /\ \A a, k : Error(a, k).type = "error" /\ Error(a, k).re = a /\ Error(a, k).call = k
  /\ \A a, b, j, k : Plain(a, j) = Plain(b, k) => a = b /\ j = k
  /\ \A a, b, j, k : Error(a, j) = Error(b, k) => a = b /\ j = k
  /\ \A a, b, j, k : a # "error" => Plain(a, j) # Error(b, k)
<1>1. \A a, k : Plain(a, k).type = a /\ Plain(a, k).call = k BY DEF Plain
<1>2. \A a, k : Error(a, k).type = "error" /\ Error(a, k).re = a /\ Error(a, k).call = k
  BY DEF Error
<1>3. \A a, b, j, k : Plain(a, j) = Plain(b, k) => a = b /\ j = k
  <2> TAKE a, b, j, k
  <2> HAVE Plain(a, j) = Plain(b, k)
  <2>1. Plain(a, j).type = Plain(b, k).type /\ Plain(a, j).call = Plain(b, k).call
    OBVIOUS
  <2> QED BY <1>1, <2>1
<1>4. \A a, b, j, k : Error(a, j) = Error(b, k) => a = b /\ j = k
  <2> TAKE a, b, j, k
  <2> HAVE Error(a, j) = Error(b, k)
  <2>1. Error(a, j).re = Error(b, k).re /\ Error(a, j).call = Error(b, k).call
    OBVIOUS
  <2> QED BY <1>2, <2>1
<1>5. \A a, b, j, k : a # "error" => Plain(a, j) # Error(b, k)
  <2> TAKE a, b, j, k
  <2> HAVE a # "error"
  <2>1. Plain(a, j).type # Error(b, k).type BY <1>1, <1>2
  <2> QED BY <2>1
<1> QED BY <1>1, <1>2, <1>3, <1>4, <1>5

\* what is on the way is about calls of this instance
LEMMA OnTheWay ==
  ASSUME TypeOK, NEW u \in User
  PROVE  /\ \A m \in Range(up[u]) : m \in Request /\ m.call \in Call /\ m.type # "error"
         /\ \A m \in Range(down[u]) : m \in Event /\ m.call \in Call
<1>1. up[u] \in Seq(Request) /\ down[u] \in Seq(Event) BY DEF TypeOK
<1>2. \A m \in Range(up[u]) : m \in Request BY <1>1, Elements
<1>3. \A m \in Range(down[u]) : m \in Event BY <1>1, Elements
<1>4. \A m \in Request : m.call \in Call /\ m.type # "error"
  BY RequestForms DEF Kinds
<1> QED BY <1>2, <1>3, <1>4, EventForms

LEMMA InitFlow == Init => FlowInv
BY NothingIn, NoneAfterNothing
DEF Init, FlowInv, InviteOnce, InviteFirst, AcceptOnce, EndsAreTrue, RefusalsAreTrue,
    EndsAreLast, NoLateRinging, AcceptsAreTrue, InvitesAreTrue, Unserved, Asked,
    Told, EndTold, Refused

\* what only shrinks stays true
LEMMA FlowShrinks ==
  ASSUME FlowInv, UNCHANGED <<calls, party>>, hidden \subseteq hidden', torn \subseteq torn',
         \A v \in User : up'[v] = up[v] \/ up'[v] = <<>>,
         \A v \in User : down'[v] = down[v] \/ down'[v] = <<>>,
         \A v \in User : prompt'[v] \subseteq prompt[v]
  PROVE  FlowInv'
<1> USE DEF FlowInv, Asked, Told, Refused, Inviting, Accepting
<1>1. \A v \in User : /\ Range(up'[v]) \subseteq Range(up[v])
                      /\ Range(down'[v]) \subseteq Range(down[v])
  BY NothingIn
<1>2. InviteOnce' BY NoneAfterNothing, Zenon DEF InviteOnce
<1>3. InviteFirst' BY <1>1 DEF InviteFirst, Fresh, Unserved, Live, Caller
<1>4. AcceptOnce'
  <2>1. \A v \in User, k \in Call : NoneAfter(up'[v], Accepting(k), Accepting(k))
    BY NoneAfterNothing, Zenon DEF AcceptOnce
  <2> QED BY <1>1, <2>1 DEF AcceptOnce
<1>5. EndsAreTrue' BY <1>1 DEF EndsAreTrue, EndTold, Live
<1>6. RefusalsAreTrue' BY <1>1 DEF RefusalsAreTrue, Live
<1>7. NoLateRinging' BY NoneAfterNothing, Zenon DEF NoLateRinging
<1>a. EndsAreLast'
  <2> SUFFICES ASSUME NEW u \in User, NEW k \in Call,
                      NEW kind \in {"call_reject", "call_hangup", "call_busy"}
               PROVE  /\ NoneAfter(down'[u], Plain(kind, k), Inviting(k))
                      /\ NoneAfter(down'[u], Plain(kind, k), Accepting(k))
    BY DEF EndsAreLast
  <2>1. /\ NoneAfter(down[u], Plain(kind, k), Inviting(k))
        /\ NoneAfter(down[u], Plain(kind, k), Accepting(k))
    BY DEF EndsAreLast
  <2>2. CASE down'[u] = down[u] BY <2>1, <2>2
  <2>3. CASE down'[u] = <<>> BY <2>3, NoneAfterNothing
  <2> QED BY <2>2, <2>3
<1>8. AcceptsAreTrue' BY NothingIn DEF AcceptsAreTrue, EndTold
<1>9. InvitesAreTrue' BY NothingIn DEF InvitesAreTrue, EndTold, Live
<1> QED BY <1>2, <1>3, <1>4, <1>5, <1>6, <1>7, <1>8, <1>9, <1>a

LEMMA StartFlow ==
  ASSUME TypeOK, PartiesInv, FlowInv,
         NEW u \in User, NEW v \in User, NEW k \in Call, StartCall(u, v, k)
  PROVE  FlowInv'
<1> DEFINE x == Inviting(k)
<1>1. /\ Grows(u, x) /\ ~Started(k)
      /\ UNCHANGED <<calls, prompt, down, hidden, torn>>
  BY StartNames DEF Inviting
<1>2. x \in Request BY RequestType DEF Kinds, Inviting
<1>3. \A w \in User : /\ Range(up[w]) \subseteq Range(up'[w])
                      /\ Range(up'[w]) \subseteq Range(up[w]) \cup {x}
                      /\ w # u => Range(up'[w]) = Range(up[w])
  BY <1>1, <1>2, GrowsRange
<1>4. x.call = k /\ x.type = "call_invite"
      /\ \A j : (Inviting(j) = x => j = k) /\ Accepting(j) # x
  BY Forms DEF Inviting, Accepting
<1>5. /\ \A w \in User : \A m \in Range(up[w]) : m.call # k
      /\ \A w \in User : \A m \in Range(down[w]) : m.call # k
      /\ ~Live(k)
  BY <1>1 DEF PartiesInv, UpNamed, DownNamed, LiveNamed, Between
<1>6. \A w \in User : up[w] \in Seq(Request) BY DEF TypeOK
<1>a. ASSUME NEW z, NEW y, y # x \/ z \notin Range(up[u]),
             NoneAfter(up[u], z, y)
      PROVE  NoneAfter(up'[u], z, y)
  <2>1. up'[u] = up[u] \/ up'[u] = Append(up[u], x) BY <1>1 DEF Grows
  <2>2. x # y \/ z \notin Range(up[u]) BY <1>a
  <2> HIDE DEF x
  <2> QED BY <1>2, <1>6, <1>a, <2>1, <2>2, NoneAfterAppend
<1>b. \A w \in User : w # u => up'[w] = up[w] BY <1>1 DEF Grows
<1>7. InviteOnce'
  <2> SUFFICES ASSUME NEW w \in User, NEW j \in Call, NEW kind \in Kinds
               PROVE  NoneAfter(up'[w], Plain(kind, j), Inviting(j))
    BY <1>1 DEF FlowInv, InviteOnce
  <2>1. NoneAfter(up[w], Plain(kind, j), Inviting(j)) BY DEF FlowInv, InviteOnce
  <2>2. Inviting(j) # x \/ Plain(kind, j) \notin Range(up[u]) BY <1>4, <1>5, Forms
  <2> QED BY <1>a, <1>b, <2>1, <2>2
<1>8. AcceptOnce'
  <2> SUFFICES ASSUME NEW w \in User, NEW j \in Call
               PROVE  /\ NoneAfter(up'[w], Accepting(j), Accepting(j))
                      /\ Asked(w, "call_accept", j)' => Asked(w, "call_accept", j)
    BY <1>1 DEF FlowInv, AcceptOnce
  <2>1. NoneAfter(up[w], Accepting(j), Accepting(j)) BY DEF FlowInv, AcceptOnce
  <2>2. NoneAfter(up'[w], Accepting(j), Accepting(j)) BY <1>4, <1>a, <1>b, <2>1
  <2>3. Asked(w, "call_accept", j)' => Asked(w, "call_accept", j)
    BY <1>3, <1>4 DEF Asked, Accepting
  <2> QED BY <2>2, <2>3
<1>9. InviteFirst'
  <2> SUFFICES ASSUME NEW j \in Call, Unserved(j)'
               PROVE  /\ ~Live(j) /\ Fresh(j)
                      /\ \A w \in User \ {Caller(j)'} : \A m \in Range(up'[w]) : m.call # j
    BY <1>1 DEF InviteFirst, Fresh, Live
  <2>1. j = k \/ Unserved(j) BY <1>3, <1>4 DEF Unserved, Asked, Inviting
  <2>2. CASE j = k
    <3>1. Caller(j)' = u BY <2>2, StartNames
    <3> QED BY <1>3, <1>5, <2>2, <3>1 DEF Fresh
  <2>3. CASE j # k /\ Unserved(j)
    <3>1. Caller(j)' = Caller(j) BY <2>3, StartNames
    <3> QED BY <1>3, <1>4, <2>3, <3>1 DEF FlowInv, InviteFirst
  <2> QED BY <2>1, <2>2, <2>3
<1>10. EndsAreTrue' /\ RefusalsAreTrue' /\ EndsAreLast' /\ NoLateRinging'
      /\ AcceptsAreTrue' /\ InvitesAreTrue'
  BY <1>1 DEF FlowInv, EndsAreTrue, RefusalsAreTrue, EndsAreLast, NoLateRinging, AcceptsAreTrue,
     InvitesAreTrue, Told, Refused, EndTold, Live
<1> QED BY <1>7, <1>8, <1>9, <1>10 DEF FlowInv

LEMMA AsksFlow ==
  ASSUME TypeOK, PartiesInv, FlowInv, ClientInv, NEW u \in User, AsksSomething(u)
  PROVE  FlowInv'
<1>1. Calm(u) BY AsksForms
<1>2. CASE AskNothing
  BY <1>1, <1>2, FlowShrinks DEF Calm, AskNothing
<1>3. ASSUME NEW k \in Call, NEW kind \in Kinds, AsksFor(u, kind, k)
      PROVE  FlowInv'
  <2> DEFINE x == Plain(kind, k)
  <2>1. Grows(u, x) /\ torn \subseteq torn' BY <1>3, AskEffect DEF AsksFor
  <2>2. x \in Request BY RequestType
  <2>3. \A w \in User : /\ Range(up[w]) \subseteq Range(up'[w])
                        /\ Range(up'[w]) \subseteq Range(up[w]) \cup {x}
                        /\ w # u => Range(up'[w]) = Range(up[w])
    BY <2>1, <2>2, GrowsRange
  <2>4. /\ \A j : Inviting(j) # x
        /\ \A j : Accepting(j) = x => j = k /\ kind = "call_accept"
    BY <1>3, Forms DEF Inviting, Accepting, AsksFor
  <2>5. \A w \in User : up[w] \in Seq(Request) BY DEF TypeOK
  <2>6. ASSUME NEW z, NEW y, y # x \/ z \notin Range(up[u]), NoneAfter(up[u], z, y)
        PROVE  NoneAfter(up'[u], z, y)
    <3>1. up'[u] = up[u] \/ up'[u] = Append(up[u], x) BY <2>1 DEF Grows
    <3>2. x # y \/ z \notin Range(up[u]) BY <2>6
    <3> HIDE DEF x
    <3> QED BY <2>2, <2>5, <2>6, <3>1, <3>2, NoneAfterAppend
  <2>7. \A w \in User : w # u => up'[w] = up[w] BY <2>1 DEF Grows
  <2>8. InviteOnce'
    <3> SUFFICES ASSUME NEW w \in User, NEW j \in Call, NEW a \in Kinds
                 PROVE  NoneAfter(up'[w], Plain(a, j), Inviting(j))
      BY <1>1 DEF FlowInv, InviteOnce, Calm
    <3>1. NoneAfter(up[w], Plain(a, j), Inviting(j)) BY DEF FlowInv, InviteOnce
    <3> QED BY <2>4, <2>6, <2>7, <3>1
  <2>9. \A j \in Call : Unserved(j)' => Unserved(j)
    BY <2>3, <2>4 DEF Unserved, Asked, Inviting
  <2>10. InviteFirst'
    <3> SUFFICES ASSUME NEW j \in Call, Unserved(j)
                 PROVE  /\ ~Live(j) /\ Fresh(j)
                        /\ \A w \in User \ {Caller(j)} : \A m \in Range(up'[w]) : m.call # j
      BY <1>1, <2>9 DEF Calm, InviteFirst, Fresh, Live, Caller
    <3>1. /\ ~Live(j) /\ Fresh(j)
          /\ \A w \in User \ {Caller(j)} : \A m \in Range(up[w]) : m.call # j
      BY DEF FlowInv, InviteFirst
    <3>2. j = k => u = Caller(j)
      BY <1>3, Showing
      DEF AsksFor, ClientInv, UntakenIsFresh, Untaken, PartiesInv, ActiveNamed
    <3>3. x.call = k BY Forms
    <3> QED BY <2>3, <3>1, <3>2, <3>3
  <2>11. kind = "call_accept" => /\ k \in prompt[u] /\ k \notin prompt'[u]
                                 /\ ~Asked(u, "call_accept", k)
                                 /\ calls[k].status # "accepted"
    BY <1>3 DEF AsksFor, FlowInv, AcceptOnce
  <2>12. AcceptOnce'
    <3> SUFFICES ASSUME NEW w \in User, NEW j \in Call
                 PROVE  /\ NoneAfter(up'[w], Accepting(j), Accepting(j))
                        /\ Asked(w, "call_accept", j)' \/ j \in prompt'[w] =>
                             calls[j].status # "accepted"
                        /\ j \in prompt'[w] => ~Asked(w, "call_accept", j)'
      BY <1>1 DEF AcceptOnce, Calm
    <3>1. /\ NoneAfter(up[w], Accepting(j), Accepting(j))
          /\ Asked(w, "call_accept", j) \/ j \in prompt[w] => calls[j].status # "accepted"
          /\ j \in prompt[w] => ~Asked(w, "call_accept", j)
          /\ prompt'[w] \subseteq prompt[w]
      BY <1>1 DEF FlowInv, AcceptOnce, Calm
    <3>2. w = u => Accepting(j) # x \/ Accepting(j) \notin Range(up[u])
      BY <2>4, <2>11 DEF Asked, Accepting
    <3>3. NoneAfter(up'[w], Accepting(j), Accepting(j)) BY <2>6, <2>7, <3>1, <3>2
    <3>4. Asked(w, "call_accept", j)' =>
            Asked(w, "call_accept", j) \/ (w = u /\ j = k /\ kind = "call_accept")
      BY <2>3, <2>4 DEF Asked, Accepting
    <3> QED BY <2>11, <3>1, <3>3, <3>4
  <2>13. EndsAreTrue' /\ RefusalsAreTrue' /\ EndsAreLast' /\ NoLateRinging'
      /\ AcceptsAreTrue' /\ InvitesAreTrue'
    BY <1>1, <2>1 DEF Calm, FlowInv, EndsAreTrue, RefusalsAreTrue, EndsAreLast, NoLateRinging,
       AcceptsAreTrue, InvitesAreTrue, Told, Refused, EndTold, Live
  <2> QED BY <2>8, <2>10, <2>12, <2>13 DEF FlowInv
<1> QED BY <1>2, <1>3, AsksForms

\* an event is taken: a call whose invitation it was is prompted for
LEMMA TakesPrompt ==
  ASSUME TypeOK, PartiesInv, NEW u \in User, NEW m \in Event, m \in Range(down[u]),
         Takes(u, m)
  PROVE  \A v \in User, j \in Call : j \in prompt'[v] =>
           \/ j \in prompt[v]
           \/ v = u /\ m = Inviting(j) /\ u # Caller(j)
<1> DEFINE Goal == \A v \in User, j \in Call : j \in prompt'[v] =>
                     \/ j \in prompt[v]
                     \/ v = u /\ m = Inviting(j) /\ u # Caller(j)
<1> USE DEF TypeOK
<1>1. ASSUME NEW k \in Call, m = Plain("call_invite", k), TakeInvite(u, k) PROVE Goal
  <2>1. \/ UNCHANGED prompt
        \/ party[k][1] # u /\ prompt' = [prompt EXCEPT ![u] = @ \cup {k}]
    BY <1>1 DEF TakeInvite
  <2> QED BY <1>1, <2>1 DEF Inviting, Caller
<1>2. ASSUME NEW k \in Call, TakeRinging(u, k) PROVE Goal
  BY <1>2 DEF TakeRinging, PassOver
<1>3. ASSUME NEW k \in Call, TakeAccept(u, k) PROVE Goal
  BY <1>3 DEF TakeAccept, PassOver
<1>4. ASSUME NEW k \in Call, NEW s, TakeEnd(u, k, s) PROVE Goal
  BY <1>4 DEF TakeEnd, PassOver, Finish
<1>5. ASSUME NEW k \in Call, NEW kind, TakeError(u, k, kind) PROVE Goal
  BY <1>5 DEF TakeError, PassOver, Finish
<1> QED BY <1>1, <1>2, <1>3, <1>4, <1>5 DEF Takes

LEMMA ReceiveFlow ==
  ASSUME TypeOK, PartiesInv, FlowInv, ClientInv, NEW u \in User, Receive(u)
  PROVE  FlowInv'
<1> DEFINE m == Head(down[u])
<1>1. UNCHANGED <<calls, hidden, torn, up, party>> /\ down[u] # <<>>
  BY DEF Receive, registryVars
<1>2. /\ m \in Event /\ m \in Range(down[u]) /\ Takes(u, m)
      /\ down'[u] = Tail(down[u]) /\ \A v \in User \ {u} : down'[v] = down[v]
      /\ Range(down[u]) = {m} \cup Range(down'[u])
      /\ \A v \in User : Range(down'[v]) \subseteq Range(down[v])
  BY TakenDown, ReceiveTakes DEF Receive
<1>3. down[u] \in Seq(Event) BY DEF TypeOK
<1>4. ASSUME NEW v \in User, NEW x, NEW y, NoneAfter(down[v], x, y)
      PROVE  /\ NoneAfter(down'[v], x, y)
             /\ v = u /\ m = x => y \notin Range(down'[v])
  BY <1>1, <1>2, <1>3, <1>4, NoneAfterTail
<1>5. \A v \in User, j \in Call : j \in prompt'[v] =>
           \/ j \in prompt[v]
           \/ v = u /\ m = Inviting(j) /\ u # Caller(j)
  BY <1>2, TakesPrompt
<1> HIDE DEF m
<1>6. InviteOnce' BY <1>1, <1>4 DEF FlowInv, InviteOnce
<1>7. InviteFirst'
  BY <1>1, <1>2 DEF FlowInv, InviteFirst, Fresh, Unserved, Asked, Live, Caller
<1>8. AcceptOnce'
  <2>1. \A j \in Call : m = Inviting(j) /\ u # Caller(j) =>
          /\ calls[j].status # "accepted" /\ ~Asked(u, "call_accept", j)
    <3>1. \A j \in Call : m = Inviting(j) /\ u # Caller(j) => Untaken(j)
      BY <1>2 DEF Untaken, Told, Inviting
    <3> QED BY <3>1 DEF ClientInv, UntakenIsFresh
  <2> QED BY <1>1, <1>5, <2>1 DEF FlowInv, AcceptOnce, Asked
<1>9. EndsAreTrue' BY <1>1, <1>2 DEF FlowInv, EndsAreTrue, EndTold, Told, Live
<1>10. RefusalsAreTrue' BY <1>1, <1>2 DEF FlowInv, RefusalsAreTrue, Refused, Live
<1>11. EndsAreLast' BY <1>4 DEF FlowInv, EndsAreLast
<1>12. NoLateRinging' BY <1>4 DEF FlowInv, NoLateRinging
<1>13. \A v \in User, j \in Call :
         Told(v, "call_accept", j)' \/ Told(v, "call_invite", j)' =>
           (EndTold(v, j) => EndTold(v, j)')
  <2> SUFFICES ASSUME NEW v \in User, NEW j \in Call,
                      NEW kind \in {"call_reject", "call_hangup", "call_busy"},
                      Plain(kind, j) \in Range(down[v]),
                      Accepting(j) \in Range(down'[v]) \/ Inviting(j) \in Range(down'[v])
               PROVE  Plain(kind, j) \in Range(down'[v])
    BY DEF Told, EndTold, Accepting, Inviting
  <2>1. /\ NoneAfter(down[v], Plain(kind, j), Inviting(j))
        /\ NoneAfter(down[v], Plain(kind, j), Accepting(j))
    BY DEF FlowInv, EndsAreLast
  <2>2. ~(v = u /\ m = Plain(kind, j)) BY <1>4, <2>1
  <2> QED BY <1>2, <2>2
<1>14. AcceptsAreTrue'
  <2> SUFFICES ASSUME NEW v \in User, NEW j \in Call, Told(v, "call_accept", j)'
               PROVE  /\ calls[j].status \notin {"invited", "ringing"}
                      /\ calls[j].status = "accepted" \/ EndTold(v, j)' \/ <<v, j>> \in torn
    BY <1>1 DEF AcceptsAreTrue
  <2>1. Told(v, "call_accept", j) BY <1>2 DEF Told
  <2> QED BY <1>13, <2>1 DEF FlowInv, AcceptsAreTrue
<1>15. InvitesAreTrue'
  <2> SUFFICES ASSUME NEW v \in User, NEW j \in Call, Told(v, "call_invite", j)'
               PROVE  Live(j) \/ EndTold(v, j)' \/ <<v, j>> \in torn
    BY <1>1 DEF InvitesAreTrue, Live
  <2>1. Told(v, "call_invite", j) BY <1>2 DEF Told
  <2> QED BY <1>13, <2>1 DEF FlowInv, InvitesAreTrue
<1> QED BY <1>6, <1>7, <1>8, <1>9, <1>10, <1>11, <1>12, <1>14, <1>15 DEF FlowInv

LEMMA TellsNoneAfter ==
  ASSUME TypeOK, NEW S, NEW m \in Event, Tells(S, m), NEW v \in User, NEW x, NEW y,
         NoneAfter(down[v], x, y), m # y \/ x \notin Range(down[v])
  PROVE  NoneAfter(down'[v], x, y)
<1>1. down[v] \in Seq(Event) BY DEF TypeOK
<1>2. down'[v] = down[v] \/ down'[v] = Append(down[v], m) BY DEF Tells
<1> QED BY <1>1, <1>2, NoneAfterAppend

IsEnd(m, k) ==
  \E kind \in {"call_reject", "call_hangup", "call_busy"} : m = Plain(kind, k)

\* the requests of one user are taken in turn, those of the others left
TakesUp ==
  \A v \in User : up'[v] = up[v] \/ (up[v] # <<>> /\ up'[v] = Tail(up[v]))

\* a hangup that is taken is a hangup of k, and is answered
HangupsHeard(k, S, m) ==
  \A v \in User, j \in Call : Asked(v, "call_hangup", j) =>
    \/ Asked(v, "call_hangup", j)'
    \/ j = k /\ v \in S /\ (IsEnd(m, k) \/ m = Error("call_hangup", k))

\* what the server may tell of k: of all other calls nothing is told
TellsTruly(k, S, m) ==
  /\ m.call = k /\ Tells(S, m) /\ TakesUp /\ HangupsHeard(k, S, m)
  /\ UNCHANGED <<prompt, hidden, party>>
  /\ \A j \in Call \ {k} : calls'[j] = calls[j]
  /\ ~Unserved(k)'
  /\ Live(k)' => Live(k) \/ (Unserved(k) /\ m = Inviting(k) /\ S = Both(k))
  /\ Live(k) => Live(k)' \/ (IsEnd(m, k) /\ S = Both(k))
  /\ IsEnd(m, k) => ~Live(k)'
  /\ m = Inviting(k) => Unserved(k) /\ Live(k)'
  /\ m = Plain("call_ringing", k) => Live(k) /\ calls[k].status # "accepted"
  /\ m = Accepting(k) =>
       /\ Live(k) /\ calls'[k].status = "accepted" /\ S = Both(k)
       /\ \E v \in User : Asked(v, "call_accept", k)
       /\ \A v \in User : k \notin prompt[v] /\ ~Asked(v, "call_accept", k)'
  /\ \A kind \in {"call_invite", "call_accept", "call_hangup"} :
       m = Error(kind, k) => ~Live(k)' \/ k \in hidden
  /\ calls'[k].status \in {"invited", "ringing"} =>
       calls[k].status \in {"invited", "ringing"} \/ Unserved(k)
  /\ calls'[k].status = "accepted" => calls[k].status = "accepted" \/ m = Accepting(k)

LEMMA TellsFlow ==
  ASSUME TypeOK, PartiesInv, FlowInv, NEW k \in Call, NEW S \in SUBSET User,
         NEW m \in Event, TellsTruly(k, S, m)
  PROVE  FlowInv'
<1> USE Forms DEF Inviting, Accepting
<1>1. m.call = k /\ Tells(S, m) BY DEF TellsTruly
<1>2. \A v \in User : /\ Range(down[v]) \subseteq Range(down'[v])
                      /\ Range(down'[v]) \subseteq Range(down[v]) \cup {m}
      /\ torn \subseteq torn'
  BY <1>1 DEF Tells
<1>3. ASSUME NEW v \in User
      PROVE  /\ Range(up'[v]) \subseteq Range(up[v])
             /\ \A x, y : NoneAfter(up[v], x, y) => NoneAfter(up'[v], x, y)
  <2>1. up[v] \in Seq(Request) BY DEF TypeOK
  <2>2. CASE up[v] # <<>> /\ up'[v] = Tail(up[v])
    BY <2>1, <2>2, Headed, NoneAfterTail
  <2> QED BY <2>2 DEF TellsTruly, TakesUp
<1>4. ASSUME NEW j \in Call, j # k
      PROVE  /\ calls'[j] = calls[j] /\ (Live(j)' <=> Live(j))
             /\ \A v \in User : \A x \in Range(down'[v]) : x.call = j => x \in Range(down[v])
  BY <1>1, <1>2, <1>4 DEF TellsTruly, Live
<1>5. \A v \in User, j \in Call : \A kind : Told(v, kind, j) => Told(v, kind, j)'
  BY <1>2 DEF Told
<1>6. \A v \in User, j \in Call : EndTold(v, j) => EndTold(v, j)'
  BY <1>5 DEF EndTold
<1>7. \A v \in User, j \in Call : \A kind :
        Told(v, kind, j)' => Told(v, kind, j) \/ (j = k /\ m = Plain(kind, k))
  BY <1>1, <1>2 DEF Told
<1>8. \A v \in User, j \in Call : \A kind :
        Refused(v, kind, j)' => Refused(v, kind, j) \/ (j = k /\ m = Error(kind, k))
  BY <1>1, <1>2 DEF Refused
<1>9. \A v \in User : \A kind : Unserved(k) => ~Told(v, kind, k) /\ ~Refused(v, kind, k)
  BY DEF FlowInv, InviteFirst, Fresh, Told, Refused
\* the end of k reaches both its users
<1>10. IsEnd(m, k) /\ S = Both(k) =>
         \A v \in User : /\ v \in Both(k) => EndTold(v, k)' \/ <<v, k>> \in torn'
                         /\ \A kind : Told(v, kind, k) => v \in Both(k)
  <2> SUFFICES ASSUME IsEnd(m, k), S = Both(k), NEW v \in User
               PROVE  /\ v \in Both(k) => EndTold(v, k)' \/ <<v, k>> \in torn'
                      /\ \A kind : Told(v, kind, k) => v \in Both(k)
    OBVIOUS
  <2>1. v \in Both(k) => EndTold(v, k)' \/ <<v, k>> \in torn'
    BY <1>1 DEF Tells, IsEnd, EndTold, Told
  <2>2. \A kind : Told(v, kind, k) => v \in Both(k)
    BY DEF PartiesInv, DownNamed, Between, Told
  <2> QED BY <2>1, <2>2
<1>11. InviteOnce'
  <2> SUFFICES ASSUME NEW v \in User, NEW j \in Call
               PROVE  NoneAfter(down'[v], Inviting(j), Inviting(j))
    BY <1>3 DEF FlowInv, InviteOnce
  <2>1. NoneAfter(down[v], Inviting(j), Inviting(j)) BY DEF FlowInv, InviteOnce
  <2>2. m # Inviting(j) \/ Inviting(j) \notin Range(down[v])
    BY <1>1, <1>9 DEF TellsTruly, Told
  <2> QED BY <1>1, <2>1, <2>2, TellsNoneAfter
<1>12. InviteFirst'
  <2> SUFFICES ASSUME NEW j \in Call, Unserved(j)'
               PROVE  /\ ~Live(j)' /\ Fresh(j)'
                      /\ \A w \in User \ {Caller(j)} : \A x \in Range(up'[w]) : x.call # j
    BY DEF InviteFirst, TellsTruly, Caller
  <2>1. j # k /\ Unserved(j) BY <1>3 DEF TellsTruly, Unserved, Asked
  <2> QED BY <1>3, <1>4, <2>1 DEF FlowInv, InviteFirst, Fresh
<1>13. AcceptOnce'
  <2> SUFFICES ASSUME NEW v \in User, NEW j \in Call
               PROVE  /\ NoneAfter(up'[v], Accepting(j), Accepting(j))
                      /\ Asked(v, "call_accept", j)' \/ j \in prompt[v] =>
                           calls'[j].status # "accepted"
                      /\ j \in prompt[v] => ~Asked(v, "call_accept", j)'
    BY DEF AcceptOnce, TellsTruly
  <2>1. Asked(v, "call_accept", j)' => Asked(v, "call_accept", j) BY <1>3 DEF Asked
  <2>2. /\ NoneAfter(up'[v], Accepting(j), Accepting(j))
        /\ j \in prompt[v] => ~Asked(v, "call_accept", j)'
    BY <1>3, <2>1 DEF FlowInv, AcceptOnce
  <2>3. CASE j # k BY <1>4, <2>1, <2>2, <2>3 DEF FlowInv, AcceptOnce
  <2>4. CASE j = k BY <2>1, <2>2, <2>4 DEF FlowInv, AcceptOnce, TellsTruly
  <2> QED BY <2>3, <2>4
<1>14. EndsAreTrue'
  <2> SUFFICES ASSUME NEW v \in User, NEW j \in Call, EndTold(v, j)' PROVE ~Live(j)'
    BY DEF EndsAreTrue
  <2>1. EndTold(v, j) \/ (j = k /\ IsEnd(m, k)) BY <1>7 DEF EndTold, IsEnd
  <2>2. EndTold(v, j) => ~Live(j) BY DEF FlowInv, EndsAreTrue
  <2>3. Unserved(k) => ~EndTold(v, k) BY <1>9 DEF EndTold
  <2> QED BY <1>4, <2>1, <2>2, <2>3 DEF TellsTruly
<1>15. RefusalsAreTrue'
  <2> SUFFICES ASSUME NEW v \in User, NEW j \in Call,
                      NEW kind \in {"call_invite", "call_accept", "call_hangup"},
                      Refused(v, kind, j)'
               PROVE  ~Live(j)' \/ j \in hidden
    BY DEF RefusalsAreTrue, TellsTruly
  <2>1. Refused(v, kind, j) => ~Live(j) \/ j \in hidden BY DEF FlowInv, RefusalsAreTrue
  <2> QED BY <1>4, <1>8, <1>9, <2>1 DEF TellsTruly
<1>16. EndsAreLast'
  <2> SUFFICES ASSUME NEW v \in User, NEW j \in Call,
                      NEW kind \in {"call_reject", "call_hangup", "call_busy"},
                      NEW y \in {Inviting(j), Accepting(j)}
               PROVE  NoneAfter(down'[v], Plain(kind, j), y)
    BY DEF EndsAreLast
  <2>1. NoneAfter(down[v], Plain(kind, j), y) BY DEF FlowInv, EndsAreLast
  <2>2. Told(v, kind, j) => ~Live(j) BY DEF FlowInv, EndsAreTrue, EndTold
  <2>3. m # y \/ Plain(kind, j) \notin Range(down[v])
    BY <1>1, <1>9, <2>2 DEF TellsTruly, Told
  <2> QED BY <1>1, <2>1, <2>3, TellsNoneAfter
<1>17. NoLateRinging'
  <2> SUFFICES ASSUME NEW v \in User, NEW j \in Call
               PROVE  NoneAfter(down'[v], Accepting(j), Plain("call_ringing", j))
    BY DEF NoLateRinging
  <2>1. NoneAfter(down[v], Accepting(j), Plain("call_ringing", j))
    BY DEF FlowInv, NoLateRinging
  <2>2. Told(v, "call_accept", j) => ~(Live(j) /\ calls[j].status # "accepted")
    BY DEF FlowInv, AcceptsAreTrue, Live, ActiveStatuses
  <2>3. m # Plain("call_ringing", j) \/ Accepting(j) \notin Range(down[v])
    BY <1>1, <2>2 DEF TellsTruly, Told
  <2> QED BY <1>1, <2>1, <2>3, TellsNoneAfter
<1>18. AcceptsAreTrue'
  <2> SUFFICES ASSUME NEW v \in User, NEW j \in Call, Told(v, "call_accept", j)'
               PROVE  /\ calls'[j].status \notin {"invited", "ringing"}
                      /\ \/ calls'[j].status = "accepted"
                         \/ EndTold(v, j)' \/ <<v, j>> \in torn'
    BY DEF AcceptsAreTrue
  <2>1. Told(v, "call_accept", j) =>
          /\ calls[j].status \notin {"invited", "ringing"}
          /\ calls[j].status = "accepted" \/ EndTold(v, j) \/ <<v, j>> \in torn
    BY DEF FlowInv, AcceptsAreTrue
  <2>2. CASE j # k BY <1>2, <1>4, <1>6, <1>7, <2>1, <2>2
  <2>3. CASE j = k /\ m = Accepting(k) BY <2>3 DEF TellsTruly
  <2>4. CASE j = k /\ Told(v, "call_accept", k)
    <3>1. calls'[k].status \notin {"invited", "ringing"}
      BY <1>9, <2>1, <2>4 DEF TellsTruly
    <3>2. CASE calls[k].status = "accepted" /\ Live(k)'
      BY <3>1, <3>2, <2>4 DEF Live, ActiveStatuses
    <3>3. CASE calls[k].status = "accepted" /\ ~Live(k)'
      <4>1. IsEnd(m, k) /\ S = Both(k) BY <3>3 DEF TellsTruly, Live, ActiveStatuses
      <4> QED BY <1>10, <2>4, <3>1, <4>1
    <3> QED BY <1>2, <1>6, <2>1, <2>4, <3>1, <3>2, <3>3
  <2> QED BY <1>7, <2>2, <2>3, <2>4
<1>19. InvitesAreTrue'
  <2> SUFFICES ASSUME NEW v \in User, NEW j \in Call, Told(v, "call_invite", j)'
               PROVE  Live(j)' \/ EndTold(v, j)' \/ <<v, j>> \in torn'
    BY DEF InvitesAreTrue
  <2>1. Told(v, "call_invite", j) => Live(j) \/ EndTold(v, j) \/ <<v, j>> \in torn
    BY DEF FlowInv, InvitesAreTrue
  <2>2. CASE j # k BY <1>2, <1>4, <1>6, <1>7, <2>1, <2>2
  <2>3. CASE j = k /\ m = Inviting(k) BY <2>3 DEF TellsTruly
  <2>4. CASE j = k /\ Told(v, "call_invite", k)
    <3>1. CASE Live(k)
      BY <1>10, <2>4, <3>1 DEF TellsTruly
    <3> QED BY <1>2, <1>6, <2>1, <2>4, <3>1
  <2> QED BY <1>7, <2>2, <2>3, <2>4
<1> QED BY <1>11, <1>12, <1>13, <1>14, <1>15, <1>16, <1>17, <1>18, <1>19 DEF FlowInv

LEMMA EndsTruly ==
  ASSUME TypeOK, PartiesInv, NEW k \in Call, EndCall(k), TakesUp, Live(k), ~Unserved(k)',
         NEW m \in Event, IsEnd(m, k), Tells(Both(k), m),
         \A v \in User, j \in Call :
           Asked(v, "call_hangup", j) => Asked(v, "call_hangup", j)' \/ j = k,
         UNCHANGED <<prompt, hidden, party>>
  PROVE  TellsTruly(k, Both(k), m)
<1>1. calls'[k] = NoCall /\ \A j \in Call \ {k} : calls'[j] = calls[j]
  BY DEF EndCall, TypeOK, RegistryTypeOK
<1>2. calls'[k].status = "none" /\ ~Live(k)'
  BY <1>1 DEF NoCall, Live, ActiveStatuses
<1>3. /\ m.call = k /\ m # Inviting(k) /\ m # Accepting(k) /\ m # Plain("call_ringing", k)
      /\ \A kind : m # Error(kind, k)
  BY Forms DEF IsEnd, Inviting, Accepting
<1>4. HangupsHeard(k, Both(k), m)
  BY Forms DEF HangupsHeard, Asked, PartiesInv, UpNamed, Between
<1> QED BY <1>1, <1>2, <1>3, <1>4 DEF TellsTruly

\* the request that is served was the only invitation of its call
LEMMA ServedOnce ==
  ASSUME TypeOK, PartiesInv, FlowInv, NEW u \in User, NEW k \in Call, NEW kind \in Kinds,
         up[u] # <<>>, up' = [up EXCEPT ![u] = Tail(@)], Head(up[u]) = Plain(kind, k)
  PROVE  /\ TakesUp /\ ~Unserved(k)'
         /\ \A v \in User, j \in Call : \A a :
              Asked(v, a, j) => Asked(v, a, j)' \/ (v = u /\ a = kind /\ j = k)
         /\ kind = "call_accept" =>
              \A v \in User : ~Asked(v, "call_accept", k)' /\ k \notin prompt[v]
<1> USE Forms DEF Inviting, Accepting
<1>1. /\ up'[u] = Tail(up[u]) /\ \A v \in User \ {u} : up'[v] = up[v]
      /\ Plain(kind, k) \in Range(up[u])
      /\ Range(up[u]) = {Plain(kind, k)} \cup Range(up'[u])
  BY TakenUp
<1>2. up[u] \in Seq(Request) BY DEF TypeOK
<1>3. \A y : NoneAfter(up[u], Plain(kind, k), y) => y \notin Range(up'[u])
  BY <1>1, <1>2, NoneAfterTail
<1>4. Inviting(k) \notin Range(up'[u]) BY <1>3 DEF FlowInv, InviteOnce
<1>5. ASSUME NEW v \in User \ {u}, Inviting(k) \in Range(up[v]) PROVE FALSE
  <2>1. Unserved(k) BY <1>5 DEF Unserved, Asked
  <2>2. v = Caller(k) BY <1>5 DEF PartiesInv, UpNamed
  <2> QED BY <1>1, <2>1, <2>2 DEF FlowInv, InviteFirst
<1>6. ~Unserved(k)' BY <1>1, <1>4, <1>5 DEF Unserved, Asked
<1>7. ASSUME kind = "call_accept", NEW v \in User
      PROVE  ~Asked(v, "call_accept", k)' /\ k \notin prompt[v]
  <2>1. u = Callee(k) BY <1>1, <1>7 DEF PartiesInv, UpNamed
  <2>2. k \notin prompt[u] /\ Accepting(k) \notin Range(up'[u])
    BY <1>1, <1>3, <1>7 DEF FlowInv, AcceptOnce, Asked
  <2>3. CASE v = u BY <2>2, <2>3 DEF Asked
  <2>4. CASE v # u
    BY <1>1, <2>1, <2>4 DEF PartiesInv, UpNamed, PromptNamed, Asked
  <2> QED BY <2>3, <2>4
<1>8. \A v \in User, j \in Call : \A a :
        Asked(v, a, j) => Asked(v, a, j)' \/ (v = u /\ a = kind /\ j = k)
  <2> TAKE v \in User, j \in Call
  <2> TAKE a
  <2>1. CASE v # u BY <1>1, <2>1 DEF Asked
  <2>2. CASE v = u BY <1>1, <2>2 DEF Asked
  <2> QED BY <2>1, <2>2
<1> QED BY <1>1, <1>6, <1>7, <1>8 DEF TakesUp

LEMMA ServeTruly ==
  ASSUME TypeOK, PartiesInv, FlowInv, NEW u \in User, Serve(u)
  PROVE  \E k \in Call, S \in SUBSET User, m \in Event : TellsTruly(k, S, m)
<1>0. PICK k \in Call, kind \in Kinds :
        /\ Head(up[u]) = Plain(kind, k) /\ Plain(kind, k) \in Range(up[u])
        /\ Answers(u, kind, k)
  BY ServeAnswers
<1>1. /\ TakesUp /\ ~Unserved(k)' /\ UNCHANGED <<prompt, hidden, party>>
      /\ kind = "call_accept" =>
           \A v \in User : ~Asked(v, "call_accept", k)' /\ k \notin prompt[v]
  <2>1. up[u] # <<>> /\ up' = [up EXCEPT ![u] = Tail(@)] BY DEF Serve
  <2> QED BY <1>0, <2>1, ServedOnce DEF Serve, clientVars
<1>d. \A v \in User, j \in Call : \A a :
        Asked(v, a, j) => Asked(v, a, j)' \/ (v = u /\ a = kind /\ j = k)
  <2>1. up[u] # <<>> /\ up' = [up EXCEPT ![u] = Tail(@)] BY DEF Serve
  <2>2. /\ TakesUp /\ ~Unserved(k)'
        /\ \A v \in User, j \in Call : \A a :
              Asked(v, a, j) => Asked(v, a, j)' \/ (v = u /\ a = kind /\ j = k)
        /\ kind = "call_accept" =>
              \A v \in User : ~Asked(v, "call_accept", k)' /\ k \notin prompt[v]
    BY <1>0, <2>1, ServedOnce
  <2> QED BY <2>2
<1>e. \A S, m : kind # "call_hangup" => HangupsHeard(k, S, m)
  BY <1>d DEF HangupsHeard
<1>2. Started(k) /\ u \in Both(k) /\ Both(k) \in SUBSET User
  BY <1>0, Forms, BothUsers DEF PartiesInv, UpNamed, Between
<1>3. kind = "call_invite" => ~Live(k) /\ Unserved(k)
  BY <1>0 DEF FlowInv, InviteFirst, Unserved, Asked
<1>4. kind = "call_accept" => calls[k].status # "accepted"
  BY <1>0 DEF FlowInv, AcceptOnce, Asked
<1>a. calls \in [Call -> [status : ActiveStatuses \cup {"none"},
                          initiator : User \cup {None}, recipient : User \cup {None}]]
  BY DEF TypeOK, RegistryTypeOK
<1>b. /\ \A S \in SUBSET User : \A t \in Kinds \cup {"call_busy"} :
             Push(S, Plain(t, k)) => Tells(S, Plain(t, k))
      /\ \A S \in SUBSET User : Push(S, Error(kind, k)) => Tells(S, Error(kind, k))
      /\ \A t \in Kinds \cup {"call_busy"} : Plain(t, k) \in Event
      /\ Error(kind, k) \in Event
  BY PushEffect, EventType, ErrorType
<1>c. {u} \in SUBSET User /\ Kinds = {"call_invite", "call_ringing", "call_accept",
                                      "call_reject", "call_hangup"}
  BY DEF Kinds
<1>5. CASE /\ Refuses(Plain(kind, k)) /\ UNCHANGED registryVars
           /\ Push({u}, Error(kind, k))
  <2> DEFINE m == Error(kind, k)
  <2>1. m \in Event /\ Tells({u}, m) /\ m.call = k BY Forms, <1>5, <1>b
  <2>2. UNCHANGED calls /\ (Live(k)' <=> Live(k)) BY <1>5 DEF registryVars, Live
  <2>3. kind \in {"call_invite", "call_accept", "call_hangup"} => ~Live(k) \/ k \in hidden
    BY Forms, <1>4, <1>5 DEF Refuses
  <2>4. /\ m # Inviting(k) /\ m # Accepting(k) /\ m # Plain("call_ringing", k)
        /\ ~IsEnd(m, k)
    BY Forms DEF Inviting, Accepting, IsEnd
  <2>5. \A a : m = Error(a, k) => a = kind BY Forms
  <2>a. HangupsHeard(k, {u}, m) BY <1>d DEF HangupsHeard
  <2> HIDE DEF m
  <2>6. TellsTruly(k, {u}, m)
    BY <1>1, <2>1, <2>2, <2>3, <2>4, <2>5, <2>a DEF TellsTruly
  <2> QED BY <1>c, <2>1, <2>6
<1>6. CASE /\ kind = "call_invite" /\ CreateCall(k, u, Callee(k))
           /\ Push(Both(k), Plain(kind, k))
  <2> DEFINE m == Plain(kind, k)
  <2>1. m \in Event /\ Tells(Both(k), m) /\ m.call = k BY Forms, <1>2, <1>6, <1>b
  <2>2. /\ calls'[k].status = "invited" /\ Live(k)'
        /\ \A j \in Call \ {k} : calls'[j] = calls[j]
    BY <1>6, <1>a DEF CreateCall, Live, ActiveStatuses
  <2>3. /\ m # Accepting(k) /\ m # Plain("call_ringing", k) /\ ~IsEnd(m, k)
        /\ \A a : m # Error(a, k)
        /\ m = Inviting(k)
    BY Forms, <1>6 DEF Accepting, Inviting, IsEnd
  <2> HIDE DEF m
  <2>4. TellsTruly(k, Both(k), m)
    BY <1>1, <1>3, <1>e, <1>6, <2>1, <2>2, <2>3 DEF TellsTruly
  <2> QED BY <1>2, <2>1, <2>4
<1>7. CASE /\ kind = "call_invite" /\ UNCHANGED calls /\ Push({u}, Plain("call_busy", k))
  <2> DEFINE m == Plain("call_busy", k)
  <2>1. m \in Event /\ Tells({u}, m) /\ m.call = k BY Forms, <1>7, <1>b
  <2>2. ~Live(k)' BY <1>3, <1>7 DEF Live
  <2>3. /\ m # Inviting(k) /\ m # Accepting(k) /\ m # Plain("call_ringing", k)
        /\ \A a : m # Error(a, k)
    BY Forms DEF Inviting, Accepting
  <2> HIDE DEF m
  <2>4. TellsTruly(k, {u}, m)
    BY <1>1, <1>3, <1>e, <1>7, <2>1, <2>2, <2>3 DEF TellsTruly
  <2> QED BY <1>c, <2>1, <2>4
<1>8. CASE /\ kind = "call_ringing" /\ Live(k) /\ calls[k].status # "accepted"
           /\ MarkRinging(k)
           /\ \E S \in {{u}, Both(k)} : Push(S, Plain(kind, k))
  <2> DEFINE m == Plain(kind, k)
  <2>1. PICK S \in SUBSET User : Push(S, m) BY <1>2, <1>8
  <2>2. m \in Event /\ Tells(S, m) /\ m.call = k BY Forms, <2>1, <1>b
  <2>3. /\ calls'[k].status = "ringing" /\ Live(k)' /\ calls[k].status \in {"invited", "ringing"}
        /\ \A j \in Call \ {k} : calls'[j] = calls[j]
    BY <1>8, <1>a DEF MarkRinging, Live, ActiveStatuses
  <2>4. /\ m # Inviting(k) /\ m # Accepting(k) /\ ~IsEnd(m, k) /\ \A a : m # Error(a, k)
    BY Forms, <1>8 DEF Inviting, Accepting, IsEnd
  <2> HIDE DEF m
  <2>5. TellsTruly(k, S, m)
    BY <1>1, <1>e, <1>8, <2>2, <2>3, <2>4 DEF TellsTruly
  <2> QED BY <2>2, <2>5
<1>9. CASE /\ kind = "call_accept" /\ Live(k) /\ calls[k].status # "accepted"
           /\ MarkAccepted(k) /\ Push(Both(k), Plain(kind, k))
  <2> DEFINE m == Plain(kind, k)
  <2>1. m \in Event /\ Tells(Both(k), m) /\ m.call = k BY Forms, <1>2, <1>9, <1>b
  <2>a. Asked(u, "call_accept", k) BY <1>0, <1>9 DEF Asked
  <2>2. /\ calls'[k].status = "accepted" /\ Live(k)'
        /\ \A j \in Call \ {k} : calls'[j] = calls[j]
    BY <1>9, <1>a DEF MarkAccepted, Live, ActiveStatuses
  <2>3. /\ m # Inviting(k) /\ m # Plain("call_ringing", k) /\ ~IsEnd(m, k)
        /\ \A a : m # Error(a, k)
    BY Forms, <1>9 DEF Inviting, IsEnd
  <2> HIDE DEF m
  <2>4. TellsTruly(k, Both(k), m)
    <3>1. \E v \in User : Asked(v, "call_accept", k) BY <2>a
    <3>2. \A v \in User : k \notin prompt[v] /\ ~Asked(v, "call_accept", k)' BY <1>1, <1>9
    <3>3. m.call = k /\ Tells(Both(k), m) /\ TakesUp /\ ~Unserved(k)'
          /\ UNCHANGED <<prompt, hidden, party>> /\ HangupsHeard(k, Both(k), m)
      BY <1>1, <1>e, <1>9, <2>1
    <3>4. /\ Live(k) /\ Live(k)' /\ calls'[k].status = "accepted"
          /\ \A j \in Call \ {k} : calls'[j] = calls[j]
          /\ calls'[k].status \notin {"invited", "ringing"}
          /\ calls'[k].status = "accepted" => calls[k].status = "accepted" \/ m = Accepting(k)
      BY <1>9, <2>2 DEF Accepting, m
    <3> QED BY <2>3, <3>1, <3>2, <3>3, <3>4 DEF TellsTruly
  <2> QED BY <1>2, <2>1, <2>4
<1>10. CASE /\ kind \in {"call_reject", "call_hangup"} /\ Live(k) /\ EndCall(k)
            /\ Push(Both(k), Plain(kind, k))
  <2>1. Plain(kind, k) \in Event /\ Tells(Both(k), Plain(kind, k)) BY <1>2, <1>10, <1>b
  <2>2. IsEnd(Plain(kind, k), k) BY <1>10 DEF IsEnd
  <2>3. TellsTruly(k, Both(k), Plain(kind, k))
    BY <1>1, <1>d, <1>10, <2>1, <2>2, EndsTruly
  <2> QED BY <1>2, <2>1, <2>3
<1> QED BY <1>0, <1>5, <1>6, <1>7, <1>8, <1>9, <1>10 DEF Answers

LEMMA ServeFlow ==
  ASSUME TypeOK, PartiesInv, FlowInv, NEW u \in User, Serve(u)
  PROVE  FlowInv'
BY ServeTruly, TellsFlow

LEMMA LeaveTruly ==
  ASSUME TypeOK, PartiesInv, FlowInv, NEW u \in User, Leave(u)
  PROVE  \/ UNCHANGED <<calls, down, torn>>
         \/ \E k \in Call, S \in SUBSET User, m \in Event : TellsTruly(k, S, m)
<1>1. UNCHANGED <<up, hidden, party, prompt>> BY DEF Leave, clientVars
<1>2. ASSUME NEW k \in Call, Ends(k)
      PROVE  \E S \in SUBSET User, m \in Event : TellsTruly(k, S, m)
  <2>1. PICK kind \in {"call_reject", "call_hangup"} :
          Plain(kind, k) \in Event /\ Tells(Both(k), Plain(kind, k))
    BY <1>2, EndsTells
  <2>2. IsEnd(Plain(kind, k), k) BY DEF IsEnd
  <2>3. /\ ~Unserved(k)' /\ TakesUp
        /\ \A v \in User, j \in Call : Asked(v, "call_hangup", j) => Asked(v, "call_hangup", j)'
    BY <1>1, <1>2 DEF FlowInv, InviteFirst, Ends, Unserved, Asked, TakesUp
  <2>4. TellsTruly(k, Both(k), Plain(kind, k))
    BY <1>1, <1>2, <2>1, <2>2, <2>3, EndsTruly DEF Ends
  <2>5. Both(k) \in SUBSET User
    BY <1>2, BothUsers DEF Ends, PartiesInv, LiveNamed
  <2> QED BY <2>1, <2>4, <2>5
<1> QED BY <1>2, LeaveEnds

LEMMA LeaveFlow ==
  ASSUME TypeOK, PartiesInv, FlowInv, NEW u \in User, Leave(u)
  PROVE  FlowInv'
<1>1. UNCHANGED <<up, hidden, party, prompt>> BY DEF Leave, clientVars
<1>2. CASE UNCHANGED <<calls, down, torn>> BY <1>1, <1>2, FlowShrinks
<1> QED BY <1>2, LeaveTruly, TellsFlow

LEMMA QuietFlow ==
  ASSUME TypeOK, FlowInv,
         \/ \E u \in User : InviteSent(u) \/ InviteFails(u) \/ LetGo(u)
         \/ \E u \in User : Drop(u) \/ Reconnect(u)
         \/ \E k \in Call : Hide(k)
         \/ UNCHANGED vars
  PROVE  FlowInv'
<1> USE DEF registryVars, clientVars, netVars, historyVars
<1>1. UNCHANGED <<calls, party, prompt>> /\ hidden \subseteq hidden'
  BY DEF InviteSent, InviteFails, LetGo, Drop, Reconnect, Hide, vars
<1>2. torn \subseteq torn'
  BY DropEffect DEF InviteSent, InviteFails, LetGo, Reconnect, Hide, vars
<1>3. \A v \in User : /\ up'[v] = up[v] \/ up'[v] = <<>>
                      /\ down'[v] = down[v] \/ down'[v] = <<>>
  <2>1. ASSUME NEW u \in User, Drop(u)
        PROVE  \A v \in User : /\ up'[v] = up[v] \/ up'[v] = <<>>
                               /\ down'[v] = down[v] \/ down'[v] = <<>>
    BY <2>1, DropEffect
  <2> QED BY <2>1 DEF InviteSent, InviteFails, LetGo, Reconnect, Hide, vars
<1> QED BY <1>1, <1>2, <1>3, FlowShrinks

LEMMA NextFlow ==
  ASSUME TypeOK, PartiesInv, FlowInv, ClientInv, [Next]_vars
  PROVE  FlowInv'
<1>1. CASE Next
  BY <1>1, StartFlow, AsksFlow, ReceiveFlow, ServeFlow, LeaveFlow, QuietFlow
  DEF Next, UserStep, ClientStep, AsksSomething
<1>2. CASE UNCHANGED vars BY <1>2, QuietFlow
<1> QED BY <1>1, <1>2

-----------------------------------------------------------------------------
(* What an event does to its client.                                       *)

Now(k, d, s) == [id |-> k, dir |-> d, status |-> s]

Keeps(u) ==
  /\ active'[u] = active[u] /\ timer'[u] = timer[u]
  /\ accepting'[u] = accepting[u] /\ ending'[u] = ending[u]

\* nothing comes of it: no end or answer of the call that is shown, and no
\* refusal of a hangup this client awaits
Passes(u, m) ==
  /\ Keeps(u) /\ prompt'[u] = prompt[u]
  /\ \A k \in Call :
       /\ m = Inviting(k) => u = Caller(k) \/ <<u, k>> \in strayed'
       /\ active[u].id = k =>
            /\ ~IsEnd(m, k)
            /\ m = Accepting(k) => active[u].status = "accepted"
            /\ <<k, "call_hangup">> \in actions[u] =>
                 <<k, "call_hangup">> \in actions'[u] /\ m # Error("call_hangup", k)

Prompted(u, m, k) ==
  /\ m = Inviting(k) /\ u # Caller(k) /\ active[u] = Idle
  /\ active'[u] = Now(k, "in", "invited")
  /\ timer'[u] = timer[u] /\ accepting'[u] = accepting[u] /\ ending'[u] = ending[u]
  /\ actions'[u] = actions[u]

Alerted(u, m, k) ==
  /\ m = Plain("call_ringing", k) /\ active[u].id = k
  /\ active'[u] = Now(k, active[u].dir, "ringing")
  /\ timer'[u] = timer[u] /\ accepting'[u] = accepting[u] /\ ending'[u] = ending[u]
  /\ actions'[u] = actions[u]

Answered(u, m, k) ==
  /\ m = Accepting(k) /\ active[u].id = k /\ active[u].status # "accepted"
  /\ active[u].dir = "out" \/ k \in accepting[u]
  /\ active'[u] = Now(k, active[u].dir, "accepted")
  /\ timer'[u] = None /\ ending'[u] = ending[u] /\ actions'[u] = actions[u]

Forgotten(u, m, k) ==
  /\ m = Accepting(k) /\ active[u].id = k /\ active[u].status # "accepted"
  /\ active[u].dir # "out" /\ k \notin accepting[u]
  /\ active'[u] = Idle /\ timer'[u] = None /\ ending'[u] = ending[u]

Finished(u, m, k) ==
  /\ active[u].id = k /\ ending'[u] = k /\ timer'[u] = None
  /\ \/ IsEnd(m, k)
     \/ \E kind \in {"call_invite", "call_accept", "call_hangup"} : m = Error(kind, k)
  /\ \E s \in Terminal : active'[u] = Now(k, active[u].dir, s)

Others(u) ==
  /\ \A v \in User \ {u} : Keeps(v) /\ prompt'[v] = prompt[v] /\ actions'[v] = actions[v]
  /\ strayed \subseteq strayed'

LEMMA FinishEffect ==
  ASSUME TypeOK, NEW u \in User, NEW k \in Call, NEW s \in Terminal,
         active[u].id = k, Finish(u, k, s)
  PROVE  /\ active'[u] = Now(k, active[u].dir, s) /\ ending'[u] = k /\ timer'[u] = None
         /\ \A v \in User \ {u} : Keeps(v) /\ prompt'[v] = prompt[v]
         /\ strayed' = strayed
<1>1. active[u] # Idle BY Showing
<1>2. active' = [active EXCEPT ![u].status = s] BY DEF Finish
<1>3. active'[u] = Now(k, active[u].dir, s) /\ \A v \in User \ {u} : active'[v] = active[v]
  BY <1>1, <1>2, StatusSet DEF Now
<1>4. /\ timer' = [timer EXCEPT ![u] = None] /\ ending' = [ending EXCEPT ![u] = k]
      /\ prompt' = [prompt EXCEPT ![u] = @ \ {k}] /\ UNCHANGED <<accepting, strayed>>
  BY DEF Finish
<1>5. /\ ending'[u] = k /\ timer'[u] = None
      /\ \A v \in User \ {u} : /\ timer'[v] = timer[v] /\ ending'[v] = ending[v]
                               /\ prompt'[v] = prompt[v] /\ accepting'[v] = accepting[v]
  BY <1>4 DEF TypeOK
<1> QED BY <1>3, <1>4, <1>5 DEF Keeps

LEMMA HandlesEvent ==
  ASSUME TypeOK, PartiesInv, ClientInv, NEW u \in User, NEW m \in Event,
         ending[u] = None, Takes(u, m)
  PROVE  /\ Others(u)
         /\ \/ Passes(u, m)
            \/ \E k \in Call : \/ Prompted(u, m, k) \/ Alerted(u, m, k)
                               \/ Answered(u, m, k) \/ Forgotten(u, m, k)
                               \/ Finished(u, m, k)
<1> DEFINE Goal ==
      /\ Others(u)
      /\ \/ Passes(u, m)
         \/ \E k \in Call : \/ Prompted(u, m, k) \/ Alerted(u, m, k)
                            \/ Answered(u, m, k) \/ Forgotten(u, m, k)
                            \/ Finished(u, m, k)
<1>1. ASSUME PassOver,
             \A k \in Call :
               /\ m = Inviting(k) => u = Caller(k) \/ <<u, k>> \in strayed'
               /\ active[u].id = k => ~IsEnd(m, k) /\ m # Error("call_hangup", k)
               /\ m = Accepting(k) /\ active[u].id = k => active[u].status = "accepted"
      PROVE  Goal
  BY <1>1 DEF PassOver, Others, Passes, Keeps
<1>2. ASSUME NEW k \in Call, m = Plain("call_invite", k), TakeInvite(u, k) PROVE Goal
  <2>1. ~(active[u].id = k /\ active[u].status \in Terminal)
    <3>1. active[u].status \in Terminal => ending[u] = active[u].id
      BY DEF ClientInv, TerminalEnds
    <3> QED BY <3>1, NoneIsNoCall
  <2>2. CASE active[u] = Idle /\ party[k][1] # u
    <3>1. /\ active' = [active EXCEPT ![u] = Now(k, "in", "invited")]
          /\ \/ prompt' = [prompt EXCEPT ![u] = @ \cup {k}]
             \/ UNCHANGED prompt
          /\ UNCHANGED <<timer, accepting, actions, ending, strayed>>
      BY <1>2, <2>2 DEF TakeInvite, Now
    <3>2. active'[u] = Now(k, "in", "invited") /\ \A v \in User \ {u} :
            active'[v] = active[v] /\ prompt'[v] = prompt[v]
      BY <3>1 DEF TypeOK
    <3>3. Prompted(u, m, k)
      BY <1>2, <2>2, <3>1, <3>2 DEF Prompted, Inviting, Caller
    <3>4. Others(u) BY <3>1, <3>2 DEF Others, Keeps
    <3> QED BY <3>3, <3>4
  <2>3. CASE ~(active[u] = Idle /\ party[k][1] # u)
    <3>1. /\ strayed' = IF party[k][1] # u THEN strayed \cup {<<u, k>>} ELSE strayed
          /\ UNCHANGED <<active, timer, accepting, actions, ending, prompt>>
      BY <1>2, <2>1, <2>3, Showing DEF TakeInvite
    <3>2. \A j \in Call : m = Inviting(j) => j = k BY <1>2, Forms DEF Inviting
    <3>3. \A j \in Call : ~IsEnd(m, j) /\ m # Accepting(j) /\ m # Error("call_hangup", j)
      BY <1>2, Forms DEF IsEnd, Accepting
    <3> QED BY <3>1, <3>2, <3>3 DEF Others, Passes, Keeps, Caller
  <2> QED BY <2>2, <2>3
<1>3. ASSUME NEW k \in Call, m = Plain("call_ringing", k), TakeRinging(u, k) PROVE Goal
  <2>1. \A j \in Call : /\ ~IsEnd(m, j) /\ m # Accepting(j) /\ m # Inviting(j)
                        /\ m # Error("call_hangup", j)
    BY <1>3, Forms DEF IsEnd, Accepting, Inviting
  <2>2. CASE active[u].id = k
    <3>1. active[u] # Idle BY <2>2, Showing
    <3>2. /\ active' = [active EXCEPT ![u].status = "ringing"]
          /\ UNCHANGED <<timer, accepting, actions, ending, prompt, strayed>>
      BY <1>3, <2>2 DEF TakeRinging
    <3>3. active'[u] = Now(k, active[u].dir, "ringing")
          /\ \A v \in User \ {u} : active'[v] = active[v]
      BY <2>2, <3>1, <3>2, StatusSet DEF Now, Shown
    <3> QED BY <1>3, <2>2, <3>2, <3>3 DEF Others, Alerted, Keeps
  <2>3. CASE active[u].id # k BY <1>1, <1>3, <2>1, <2>3 DEF TakeRinging
  <2> QED BY <2>2, <2>3
<1>4. ASSUME NEW k \in Call, m = Plain("call_accept", k), TakeAccept(u, k) PROVE Goal
  <2>1. \A j \in Call : /\ ~IsEnd(m, j) /\ m # Inviting(j) /\ m # Error("call_hangup", j)
                        /\ m = Accepting(j) => j = k
    BY <1>4, Forms DEF IsEnd, Accepting, Inviting
  <2>2. CASE active[u].id = k /\ active[u].status # "accepted"
    <3>1. active[u] # Idle BY <2>2, Showing
    <3>2. /\ timer' = [timer EXCEPT ![u] = None] /\ prompt' = [prompt EXCEPT ![u] = @ \ {k}]
          /\ accepting' = [accepting EXCEPT ![u] = @ \ {k}]
          /\ UNCHANGED <<ending, strayed>>
      BY <1>4, <2>2 DEF TakeAccept
    <3>3. timer'[u] = None /\ \A v \in User \ {u} :
            timer'[v] = timer[v] /\ prompt'[v] = prompt[v] /\ accepting'[v] = accepting[v]
      BY <3>2 DEF TypeOK
    <3>4. CASE active[u].dir = "out" \/ k \in accepting[u]
      <4>1. active' = [active EXCEPT ![u].status = "accepted"] /\ UNCHANGED actions
        BY <1>4, <2>2, <3>4 DEF TakeAccept
      <4>2. active'[u] = Now(k, active[u].dir, "accepted")
            /\ \A v \in User \ {u} : active'[v] = active[v]
        BY <2>2, <3>1, <4>1, StatusSet DEF Now, Shown
      <4>3. Answered(u, m, k)
        BY <1>4, <2>2, <3>2, <3>3, <3>4, <4>1, <4>2 DEF Answered, Accepting
      <4> QED BY <3>2, <3>3, <4>1, <4>2, <4>3 DEF Others, Keeps
    <3>5. CASE ~(active[u].dir = "out" \/ k \in accepting[u])
      <4>1. active' = [active EXCEPT ![u] = Idle] /\ actions' = Forget(u, k)
        BY <1>4, <2>2, <3>5 DEF TakeAccept
      <4>2. active'[u] = Idle /\ \A v \in User \ {u} : /\ active'[v] = active[v]
                                                       /\ actions'[v] = actions[v]
        BY <4>1 DEF TypeOK, Forget
      <4>3. Forgotten(u, m, k)
        BY <1>4, <2>2, <3>2, <3>3, <3>5, <4>2 DEF Forgotten, Accepting
      <4> QED BY <3>2, <3>3, <4>2, <4>3 DEF Others, Keeps
    <3> QED BY <3>4, <3>5
  <2>3. CASE ~(active[u].id = k /\ active[u].status # "accepted")
    BY <1>1, <1>4, <2>1, <2>3 DEF TakeAccept
  <2> QED BY <2>2, <2>3
<1>5. ASSUME NEW k \in Call, NEW kind \in {"call_reject", "call_hangup", "call_busy"},
             m = Plain(kind, k), NEW s \in Terminal, TakeEnd(u, k, s)
      PROVE  Goal
  <2>1. /\ \A j \in Call : IsEnd(m, j) => j = k
        /\ \A j \in Call : m # Error("call_hangup", j) /\ m # Accepting(j) /\ m # Inviting(j)
    BY <1>5, Forms DEF IsEnd, Accepting, Inviting
  <2>2. CASE active[u].id = k
    <3>1. Finish(u, k, s) /\ UNCHANGED actions BY <1>5, <2>2 DEF TakeEnd
    <3>2. IsEnd(m, k) BY <1>5 DEF IsEnd
    <3> QED BY <2>2, <3>1, <3>2, FinishEffect DEF Finished, Others
  <2>3. CASE active[u].id # k BY <1>1, <1>5, <2>1, <2>3 DEF TakeEnd
  <2> QED BY <2>2, <2>3
<1>6. ASSUME NEW k \in Call, NEW kind \in Kinds, m = Error(kind, k), TakeError(u, k, kind)
      PROVE  Goal
  <2>1. \A j \in Call : /\ ~IsEnd(m, j) /\ m # Accepting(j) /\ m # Inviting(j)
                        /\ \A a : m = Error(a, j) => a = kind /\ j = k
    BY <1>6, Forms DEF IsEnd, Accepting, Inviting
  <2>2. CASE active[u] = Idle
    <3>1. PassOver BY <1>6, <2>2 DEF TakeError
    <3>2. \A j \in Call : active[u].id # j BY <2>2, Showing
    <3> QED BY <1>1, <2>1, <3>1, <3>2
  <2>3. CASE active[u] # Idle
    <3>1. actions' = [actions EXCEPT ![u] = @ \ {<<k, kind>>}]
      BY <1>6, <2>3 DEF TakeError
    <3>2. /\ actions'[u] = actions[u] \ {<<k, kind>>}
          /\ \A v \in User \ {u} : actions'[v] = actions[v]
      BY <3>1 DEF TypeOK
    <3>3. \/ /\ active[u].id = k /\ kind \in {"call_invite", "call_accept", "call_hangup"}
             /\ \E s \in {"ended", "failed"} : Finish(u, k, s)
          \/ /\ \/ <<k, kind>> \notin actions[u] \/ active[u].id # k
                \/ kind \in {"call_reject", "call_ringing"}
             /\ UNCHANGED <<active, timer, accepting, ending, prompt, strayed>>
      BY <1>6, <2>3 DEF TakeError
    <3>4. CASE /\ active[u].id = k /\ kind \in {"call_invite", "call_accept", "call_hangup"}
               /\ \E s \in {"ended", "failed"} : Finish(u, k, s)
      <4>1. PICK s \in Terminal : Finish(u, k, s) BY <3>4 DEF Terminal
      <4> QED BY <1>6, <3>2, <3>4, <4>1, FinishEffect DEF Finished, Others
    <3>5. CASE /\ \/ <<k, kind>> \notin actions[u] \/ active[u].id # k
                  \/ kind \in {"call_reject", "call_ringing"}
               /\ UNCHANGED <<active, timer, accepting, ending, prompt, strayed>>
      <4>1. \A j \in Call : active[u].id = j /\ <<j, "call_hangup">> \in actions[u] =>
              <<j, "call_hangup">> \in actions'[u] /\ m # Error("call_hangup", j)
        BY <2>1, <3>2, <3>5
      <4>2. Passes(u, m) BY <2>1, <3>5, <4>1 DEF Passes, Keeps
      <4> QED BY <3>2, <3>5, <4>2 DEF Others, Keeps
    <3> QED BY <3>3, <3>4, <3>5
  <2> QED BY <2>2, <2>3
<1> QED BY <1>2, <1>3, <1>4, <1>5, <1>6 DEF Takes, Terminal

-----------------------------------------------------------------------------
(* ClientInv, step by step.                                                *)

LEMMA InitClient == Init => ClientInv
BY NothingIn, NoneIsNoCall
DEF Init, ClientInv, UntakenIsFresh, EndingIsTrue, TerminalEnds, TimedIsUnanswered,
    AcceptedIsTrue, AcceptIsAwaited, Untaken, Unserved, Asked, Told, Idle, Terminal

LEMMA UntakenShrinks ==
  ASSUME UNCHANGED party,
         \A v \in User : /\ Range(up'[v]) \subseteq Range(up[v])
                         /\ Range(down'[v]) \subseteq Range(down[v])
  PROVE  \A k : /\ Unserved(k)' => Unserved(k)
                /\ Untaken(k)' => Untaken(k)
BY DEF Untaken, Unserved, Asked, Told, Caller

\* the client does nothing, and nothing new is on the way
LEMMA QuietClient ==
  ASSUME ClientInv, UNCHANGED <<calls, active, timer, ending, prompt, party>>,
         UNCHANGED accepting, hidden \subseteq hidden', torn \subseteq torn',
         \A v \in User : /\ Range(up'[v]) \subseteq Range(up[v])
                         /\ Range(down'[v]) \subseteq Range(down[v])
  PROVE  ClientInv'
<1>1. \A k : (Unserved(k)' => Unserved(k)) /\ (Untaken(k)' => Untaken(k))
  BY UntakenShrinks
<1>2. \A v \in User : \A kind, k : /\ Asked(v, kind, k)' => Asked(v, kind, k)
                                   /\ Told(v, kind, k)' => Told(v, kind, k)
  BY DEF Asked, Told
<1> USE DEF ClientInv
<1>3. UntakenIsFresh' BY <1>1, <1>2 DEF UntakenIsFresh
<1>4. EndingIsTrue' BY <1>1 DEF EndingIsTrue, Live
<1>5. TerminalEnds' /\ TimedIsUnanswered' BY DEF TerminalEnds, TimedIsUnanswered
<1>6. AcceptedIsTrue' BY <1>1, <1>2 DEF AcceptedIsTrue
<1>7. AcceptIsAwaited' BY <1>2 DEF AcceptIsAwaited
<1> QED BY <1>3, <1>4, <1>5, <1>6, <1>7

LEMMA StillClient ==
  ASSUME TypeOK, ClientInv,
         \/ \E u \in User : InviteFails(u) \/ Drop(u) \/ Reconnect(u)
         \/ \E k \in Call : Hide(k)
         \/ UNCHANGED vars
  PROVE  ClientInv'
<1> USE DEF registryVars, clientVars, netVars, historyVars
<1>1. UNCHANGED <<calls, active, timer, ending, prompt, party>> /\ UNCHANGED accepting
  BY DEF InviteFails, Drop, Reconnect, Hide, vars
<1>2. hidden \subseteq hidden' /\ torn \subseteq torn'
  BY DropEffect DEF InviteFails, Drop, Reconnect, Hide, vars
<1>3. \A v \in User : /\ Range(up'[v]) \subseteq Range(up[v])
                      /\ Range(down'[v]) \subseteq Range(down[v])
  <2>1. ASSUME NEW u \in User, Drop(u)
        PROVE  \A v \in User : /\ Range(up'[v]) \subseteq Range(up[v])
                               /\ Range(down'[v]) \subseteq Range(down[v])
    BY <2>1, DropEffect, NothingIn
  <2> QED BY <2>1 DEF InviteFails, Reconnect, Hide, vars
<1> QED BY <1>1, <1>2, <1>3, QuietClient

LEMMA StartClient ==
  ASSUME TypeOK, PartiesInv, ClientInv,
         NEW u \in User, NEW v \in User, NEW k \in Call, StartCall(u, v, k)
  PROVE  ClientInv'
<1> DEFINE x == Inviting(k)
<1>1. /\ Grows(u, x) /\ ~Started(k)
      /\ \A j \in Call \ {k} : Caller(j)' = Caller(j)
      /\ UNCHANGED <<calls, active, timer, prompt, ending, down, hidden, torn, accepting>>
  BY StartNames DEF Inviting
<1>2. x \in Request BY RequestType DEF Kinds, Inviting
<1>3. \A w \in User : /\ Range(up[w]) \subseteq Range(up'[w])
                      /\ Range(up'[w]) \subseteq Range(up[w]) \cup {x}
  BY <1>1, <1>2, GrowsRange
<1>4. /\ \A j : (Inviting(j) = x => j = k) /\ Accepting(j) # x
      /\ \A a, j : Plain(a, j).call = j
  BY Forms DEF Inviting, Accepting
<1>5. /\ \A w \in User : \A m \in Range(up[w]) : m.call # k
      /\ \A w \in User : \A m \in Range(down[w]) : m.call # k
      /\ \A w \in User : active[w].id # k /\ ending[w] # k /\ k \notin prompt[w]
      /\ ~Live(k)
  BY <1>1, Showing, NoneIsNoCall
  DEF PartiesInv, UpNamed, DownNamed, LiveNamed, ActiveNamed, EndingNamed, PromptNamed,
      Between
<1>6. \A w \in User, j \in Call :
        /\ Asked(w, "call_accept", j)' => Asked(w, "call_accept", j)
        /\ \A a : Told(w, a, j)' <=> Told(w, a, j)
  BY <1>1, <1>3, <1>4 DEF Asked, Told, Accepting
<1>7. \A j \in Call \ {k} : /\ Unserved(j)' => Unserved(j)
                            /\ Untaken(j)' => Untaken(j)
  <2>1. \A w \in User, j \in Call \ {k} :
          Asked(w, "call_invite", j)' => Asked(w, "call_invite", j)
    BY <1>3, <1>4 DEF Asked, Inviting
  <2> QED BY <1>1, <1>6, <2>1 DEF Unserved, Untaken
<1>8. UntakenIsFresh'
  <2> SUFFICES ASSUME NEW j \in Call, Untaken(j)'
               PROVE  /\ calls[j].status # "accepted"
                      /\ \A w \in User : /\ active[w].id = j => active[w].dir = "out"
                                         /\ j \notin prompt[w]
                                         /\ ~Asked(w, "call_accept", j)
                                         /\ ~Told(w, "call_accept", j)
    BY <1>1, <1>6 DEF UntakenIsFresh
  <2>1. CASE j # k BY <1>7, <2>1 DEF ClientInv, UntakenIsFresh
  <2>2. CASE j = k
    BY <1>4, <1>5, <2>2 DEF Asked, Told, Live, ActiveStatuses
  <2> QED BY <2>1, <2>2
<1>9. EndingIsTrue'
  <2> SUFFICES ASSUME NEW w \in User, NEW e \in Call, ending[w] = e
               PROVE  (~Live(e) /\ ~Unserved(e)') \/ e \in hidden
    BY <1>1 DEF EndingIsTrue, Live, TypeOK
  <2>1. e # k /\ e # None BY <1>5, NoneIsNoCall
  <2> QED BY <1>7, <2>1 DEF ClientInv, EndingIsTrue
<1>10. TerminalEnds' /\ TimedIsUnanswered'
  BY <1>1 DEF ClientInv, TerminalEnds, TimedIsUnanswered
<1>11. AcceptedIsTrue'
  <2> SUFFICES ASSUME NEW w \in User, NEW e \in Call, active[w].id = e,
                      active[w].status = "accepted"
               PROVE  /\ calls[e].status \notin {"invited", "ringing"}
                      /\ ~Told(w, "call_ringing", e)' /\ ~Unserved(e)'
    BY <1>1, Showing DEF AcceptedIsTrue
  <2>1. e # k BY <1>5
  <2> QED BY <1>6, <1>7, <2>1 DEF ClientInv, AcceptedIsTrue
<1>12. AcceptIsAwaited' BY <1>1, <1>6 DEF ClientInv, AcceptIsAwaited
<1> QED BY <1>8, <1>9, <1>10, <1>11, <1>12 DEF ClientInv

LEMMA SentClient ==
  ASSUME TypeOK, PartiesInv, ClientInv, NEW u \in User, InviteSent(u)
  PROVE  ClientInv'
<1>1. PICK k \in Range(starting[u]) :
           /\ k \in Call
           /\ Range(starting[u]) = {k} \cup Range(starting'[u])
           /\ \A v \in User \ {u} : starting'[v] = starting[v] /\ active'[v] = active[v]
                                    /\ timer'[v] = timer[v]
           /\ active'[u] = [id |-> k, dir |-> "out", status |-> "inviting"]
           /\ timer'[u] = k
  BY SentEffect
<1>2. UNCHANGED <<calls, up, down, prompt, ending, party, hidden, torn, accepting>>
  BY DEF InviteSent, registryVars, netVars
<1>3. active'[u].dir = "out" /\ active'[u].status = "inviting" /\ active'[u].id = k
  BY <1>1
<1>4. /\ \A j : (Unserved(j)' <=> Unserved(j)) /\ (Untaken(j)' <=> Untaken(j))
      /\ \A w, a, j : /\ Asked(w, a, j)' <=> Asked(w, a, j)
                      /\ Told(w, a, j)' <=> Told(w, a, j)
  BY <1>2 DEF Unserved, Untaken, Asked, Told, Caller
<1> USE DEF ClientInv
<1>5. UntakenIsFresh' BY <1>1, <1>2, <1>3, <1>4 DEF UntakenIsFresh
<1>6. EndingIsTrue' BY <1>2, <1>4 DEF EndingIsTrue, Live
<1>7. TerminalEnds' BY <1>1, <1>2, <1>3 DEF TerminalEnds, Terminal
<1>8. TimedIsUnanswered' BY <1>1, <1>2, <1>3 DEF TimedIsUnanswered
<1>9. AcceptedIsTrue' BY <1>1, <1>2, <1>3, <1>4 DEF AcceptedIsTrue
<1>10. AcceptIsAwaited' BY <1>1, <1>2, <1>3, <1>4 DEF AcceptIsAwaited
<1> QED BY <1>5, <1>6, <1>7, <1>8, <1>9, <1>10

LEMMA LetGoClient ==
  ASSUME TypeOK, ClientInv, NEW u \in User, LetGo(u)
  PROVE  ClientInv'
<1>1. UNCHANGED <<calls, up, down, timer, prompt, party, hidden, torn>>
  BY DEF LetGo, registryVars, netVars
<1>2. /\ active'[u] = Idle /\ ending'[u] = None
      /\ \A v \in User \ {u} : /\ active'[v] = active[v] /\ ending'[v] = ending[v]
                               /\ accepting'[v] = accepting[v]
  BY DEF LetGo, TypeOK
<1>3. active'[u].id = None /\ active'[u].status = "none" BY <1>2 DEF Idle
<1>4. /\ \A j : (Unserved(j)' <=> Unserved(j)) /\ (Untaken(j)' <=> Untaken(j))
      /\ \A w, a, j : /\ Asked(w, a, j)' <=> Asked(w, a, j)
                      /\ Told(w, a, j)' <=> Told(w, a, j)
  BY <1>1 DEF Unserved, Untaken, Asked, Told, Caller
<1> USE DEF ClientInv
<1>5. UntakenIsFresh' BY <1>1, <1>2, <1>3, <1>4, NoneIsNoCall DEF UntakenIsFresh
<1>6. EndingIsTrue' BY <1>1, <1>2, <1>4 DEF EndingIsTrue, Live
<1>7. TerminalEnds' BY <1>2, <1>3 DEF TerminalEnds, Terminal
<1>8. TimedIsUnanswered' BY <1>1, <1>2, <1>3 DEF TimedIsUnanswered
<1>9. AcceptedIsTrue' BY <1>1, <1>2, <1>3, <1>4 DEF AcceptedIsTrue
<1>10. AcceptIsAwaited' BY <1>1, <1>2, <1>3, <1>4, NoneIsNoCall DEF AcceptIsAwaited
<1> QED BY <1>5, <1>6, <1>7, <1>8, <1>9, <1>10

LEMMA AsksClient ==
  ASSUME TypeOK, PartiesInv, ClientInv, NEW u \in User, AsksSomething(u)
  PROVE  ClientInv'
<1> USE DEF ClientInv
<1>1. Calm(u) BY AsksForms
<1>2. /\ UNCHANGED <<calls, active, ending, down, hidden, party>>
      /\ \A v \in User : prompt'[v] \subseteq prompt[v]
      /\ \A v \in User : timer'[v] \in {timer[v], None}
  BY <1>1 DEF Calm
<1>3. CASE AskNothing /\ UNCHANGED accepting
  <2>1. UNCHANGED <<up, torn>> BY <1>3 DEF AskNothing
  <2>2. /\ \A j : (Unserved(j)' <=> Unserved(j)) /\ (Untaken(j)' <=> Untaken(j))
        /\ \A w, a, j : /\ Asked(w, a, j)' <=> Asked(w, a, j)
                        /\ Told(w, a, j)' <=> Told(w, a, j)
    BY <1>2, <2>1 DEF Unserved, Untaken, Asked, Told, Caller
  <2>3. UntakenIsFresh' BY <1>2, <2>2 DEF UntakenIsFresh
  <2>4. EndingIsTrue' BY <1>2, <2>2 DEF EndingIsTrue, Live
  <2>5. TerminalEnds' BY <1>2 DEF TerminalEnds
  <2>6. TimedIsUnanswered' BY <1>2, Showing DEF TimedIsUnanswered
  <2>7. AcceptedIsTrue' BY <1>2, <2>2 DEF AcceptedIsTrue
  <2>8. AcceptIsAwaited' BY <1>2, <1>3, <2>1, <2>2 DEF AcceptIsAwaited
  <2> QED BY <2>3, <2>4, <2>5, <2>6, <2>7, <2>8
<1>4. ASSUME NEW k \in Call, NEW kind \in Kinds, AsksFor(u, kind, k)
      PROVE  ClientInv'
  <2> DEFINE x == Plain(kind, k)
  <2>1. Grows(u, x) /\ torn \subseteq torn' BY <1>4, AskEffect DEF AsksFor
  <2>2. x \in Request BY RequestType
  <2>3. \A w \in User : /\ Range(up'[w]) \subseteq Range(up[w]) \cup {x}
                        /\ w # u => Range(up'[w]) = Range(up[w])
    BY <2>1, <2>2, GrowsRange
  <2>4. /\ \A j : Inviting(j) # x
        /\ \A j : Accepting(j) = x => j = k /\ kind = "call_accept"
    BY <1>4, Forms DEF Inviting, Accepting, AsksFor
  <2>5. \A w \in User, j \in Call :
          /\ Asked(w, "call_accept", j)' =>
               Asked(w, "call_accept", j) \/ (w = u /\ j = k /\ kind = "call_accept")
          /\ \A a : Told(w, a, j)' <=> Told(w, a, j)
    BY <1>2, <2>3, <2>4 DEF Asked, Told, Accepting
  <2>6. \A j : (Unserved(j)' => Unserved(j)) /\ (Untaken(j)' => Untaken(j))
    BY <1>2, <2>3, <2>4 DEF Unserved, Untaken, Asked, Told, Inviting, Caller
  <2>7. kind = "call_accept" => k \in prompt[u] BY <1>4 DEF AsksFor
  <2>8. UntakenIsFresh' BY <1>2, <2>5, <2>6, <2>7 DEF UntakenIsFresh
  <2>9. EndingIsTrue' BY <1>2, <2>6 DEF EndingIsTrue, Live
  <2>10. TerminalEnds' BY <1>2 DEF TerminalEnds
  <2>11. TimedIsUnanswered' BY <1>2, Showing DEF TimedIsUnanswered
  <2>12. AcceptedIsTrue'
    <3> SUFFICES ASSUME NEW w \in User, NEW e \in Call, active[w].id = e,
                        active[w].status = "accepted"
                 PROVE  /\ calls[e].status \notin {"invited", "ringing"}
                        /\ ~Told(w, "call_ringing", e) /\ ~Unserved(e)'
      BY <1>2, <2>5, Showing DEF AcceptedIsTrue
    <3> QED BY <2>6 DEF AcceptedIsTrue
  <2>13. AcceptIsAwaited'
    <3> SUFFICES ASSUME NEW w \in User, NEW j \in Call, active[w].id = j, active[w].dir = "in",
                        Asked(w, "call_accept", j)' \/ Told(w, "call_accept", j)
                 PROVE  \/ j \in accepting'[w]
                        \/ active[w].status \in Terminal \cup {"accepted"}
                        \/ <<w, j>> \in torn'
      BY <1>2, <2>5 DEF AcceptIsAwaited
    <3>1. j \in accepting[w] => j \in accepting'[w] \/ <<w, j>> \in torn'
      BY <1>4 DEF AsksFor
    <3>2. CASE Asked(w, "call_accept", j) \/ Told(w, "call_accept", j)
      BY <2>1, <3>1, <3>2 DEF AcceptIsAwaited
    <3>3. CASE w = u /\ j = k /\ kind = "call_accept" BY <1>4, <3>3 DEF AsksFor
    <3> QED BY <2>5, <3>2, <3>3
  <2> QED BY <2>8, <2>9, <2>10, <2>11, <2>12, <2>13
<1> QED BY <1>3, <1>4, AsksForms

LEMMA ServerClient ==
  ASSUME TypeOK, PartiesInv, FlowInv, ClientInv, NEW k \in Call, NEW S \in SUBSET User,
         NEW m \in Event, TellsTruly(k, S, m), UNCHANGED clientVars
  PROVE  ClientInv'
<1> USE DEF ClientInv
<1>1. UNCHANGED <<active, timer, accepting, ending, prompt, hidden, party>>
      /\ m.call = k /\ Tells(S, m) /\ torn \subseteq torn'
  BY DEF TellsTruly, clientVars, Tells
<1>2. ASSUME NEW v \in User
      PROVE  Range(up'[v]) \subseteq Range(up[v])
  <2>1. up[v] \in Seq(Request) BY DEF TypeOK
  <2>2. CASE up[v] # <<>> /\ up'[v] = Tail(up[v]) BY <2>1, <2>2, Headed
  <2> QED BY <2>2 DEF TellsTruly, TakesUp
<1>3. \A v \in User, j \in Call :
        /\ \A a : Asked(v, a, j)' => Asked(v, a, j)
        /\ \A a : Told(v, a, j)' => Told(v, a, j) \/ (j = k /\ m = Plain(a, k))
  <2> TAKE v \in User, j \in Call
  <2>1. \A a : Plain(a, j) = m => j = k /\ m = Plain(a, k) BY <1>1, Forms
  <2>2. Range(down'[v]) \subseteq Range(down[v]) \cup {m} BY <1>1 DEF Tells
  <2> QED BY <1>2, <2>1, <2>2 DEF Asked, Told
<1>4. \A j \in Call : j # k => calls'[j] = calls[j] /\ (Live(j)' <=> Live(j))
  BY DEF TellsTruly, Live
<1>5. \A j \in Call : /\ Unserved(j)' => Unserved(j)
                      /\ Untaken(j)' => Untaken(j)
  <2>1. \A j \in Call : Unserved(j)' => Unserved(j) BY <1>3 DEF Unserved
  <2>2. ASSUME NEW j \in Call, NEW v \in User, Told(v, "call_invite", j)', v # Caller(j)
        PROVE  Untaken(j)
    <3>1. Told(v, "call_invite", j) \/ (j = k /\ m = Inviting(k))
      BY <1>3, <2>2 DEF Inviting
    <3>2. m = Inviting(k) => Unserved(k) BY DEF TellsTruly
    <3> QED BY <2>2, <3>1, <3>2 DEF Untaken
  <2> QED BY <1>1, <2>1, <2>2 DEF Untaken, Caller
\* an answer that is passed on was asked for
<1>6. m = Accepting(k) => \E v \in User : Asked(v, "call_accept", k)
  BY DEF TellsTruly
<1>7. UntakenIsFresh'
  <2> SUFFICES ASSUME NEW j \in Call, Untaken(j)
               PROVE  /\ calls'[j].status # "accepted"
                      /\ \A v \in User : ~Asked(v, "call_accept", j)' /\ ~Told(v, "call_accept", j)'
    BY <1>1, <1>5 DEF UntakenIsFresh
  <2>1. /\ calls[j].status # "accepted"
        /\ \A v \in User : ~Asked(v, "call_accept", j) /\ ~Told(v, "call_accept", j)
    BY DEF UntakenIsFresh
  <2>2. j = k => m # Accepting(k) BY <1>6, <2>1
  <2>3. calls'[j].status # "accepted" BY <1>4, <2>1, <2>2 DEF TellsTruly
  <2> QED BY <1>3, <2>1, <2>2, <2>3 DEF Accepting
<1>8. EndingIsTrue'
  <2> SUFFICES ASSUME NEW w \in User, NEW e \in Call, ending[w] = e
               PROVE  (~Live(e)' /\ ~Unserved(e)') \/ e \in hidden
    BY <1>1 DEF EndingIsTrue, TypeOK
  <2>1. (~Live(e) /\ ~Unserved(e)) \/ e \in hidden
    BY NoneIsNoCall DEF EndingIsTrue
  <2> QED BY <1>4, <1>5, <2>1 DEF TellsTruly
<1>9. TerminalEnds' /\ TimedIsUnanswered'
  BY <1>1 DEF TerminalEnds, TimedIsUnanswered
<1>10. AcceptedIsTrue'
  <2> SUFFICES ASSUME NEW w \in User, NEW e \in Call, active[w].id = e,
                      active[w].status = "accepted"
               PROVE  /\ calls'[e].status \notin {"invited", "ringing"}
                      /\ ~Told(w, "call_ringing", e)' /\ ~Unserved(e)'
    BY <1>1, Showing DEF AcceptedIsTrue
  <2>1. /\ calls[e].status \notin {"invited", "ringing"}
        /\ ~Told(w, "call_ringing", e) /\ ~Unserved(e)
    BY DEF AcceptedIsTrue
  <2>2. calls'[e].status \notin {"invited", "ringing"} BY <1>4, <2>1 DEF TellsTruly
  <2>3. e = k => m # Plain("call_ringing", k)
    BY <2>1 DEF TellsTruly, Live, ActiveStatuses
  <2> QED BY <1>3, <1>5, <2>1, <2>2, <2>3
<1>11. AcceptIsAwaited'
  <2> SUFFICES ASSUME NEW w \in User, NEW j \in Call, active[w].id = j, active[w].dir = "in",
                      Asked(w, "call_accept", j)' \/ Told(w, "call_accept", j)'
               PROVE  \/ j \in accepting[w]
                      \/ active[w].status \in Terminal \cup {"accepted"}
                      \/ <<w, j>> \in torn
    BY <1>1 DEF AcceptIsAwaited
  <2>1. CASE Asked(w, "call_accept", j) \/ Told(w, "call_accept", j)
    BY <2>1 DEF AcceptIsAwaited
  <2>2. CASE j = k /\ m = Accepting(k)
    <3>1. PICK v \in User : Asked(v, "call_accept", k) BY <1>6, <2>2
    <3>2. v = Callee(k) BY <3>1, Forms DEF Asked, PartiesInv, UpNamed
    <3>3. active[w] # Idle BY Showing
    <3>4. w \in Both(k) /\ w # Caller(k)
      BY <2>2, <3>3 DEF PartiesInv, ActiveNamed, Between
    <3>5. w = v BY <3>2, <3>4 DEF Both, Caller, Callee
    <3> QED BY <2>2, <3>1, <3>5 DEF AcceptIsAwaited
  <2> QED BY <1>3, <2>1, <2>2 DEF Accepting
<1> QED BY <1>7, <1>8, <1>9, <1>10, <1>11

\* the first event of a client is handled: what is known of it
LEMMA ReceiveEffect ==
  ASSUME TypeOK, PartiesInv, FlowInv, ClientInv, NEW u \in User, Receive(u)
  PROVE  \E m \in Event :
           /\ m \in Range(down[u]) /\ Range(down[u]) = {m} \cup Range(down'[u])
           /\ \A v \in User \ {u} : down'[v] = down[v]
           /\ \A v \in User : Range(down'[v]) \subseteq Range(down[v])
           /\ \A x, y : NoneAfter(down[u], x, y) /\ m = x => y \notin Range(down'[u])
           /\ UNCHANGED <<calls, starting, up, hidden, party, torn>>
           /\ ending[u] = None /\ Others(u)
           /\ \A v \in User, j \in Call : j \in prompt'[v] =>
                j \in prompt[v] \/ (v = u /\ m = Inviting(j) /\ u # Caller(j))
           /\ \/ Passes(u, m)
              \/ \E k \in Call : \/ Prompted(u, m, k) \/ Alerted(u, m, k)
                                 \/ Answered(u, m, k) \/ Forgotten(u, m, k)
                                 \/ Finished(u, m, k)
<1> DEFINE m == Head(down[u])
<1>1. /\ down[u] # <<>> /\ ending[u] = None
      /\ UNCHANGED <<calls, starting, up, hidden, party, torn>>
  BY DEF Receive, registryVars
<1>2. /\ m \in Event /\ m \in Range(down[u]) /\ Takes(u, m)
      /\ down'[u] = Tail(down[u]) /\ \A v \in User \ {u} : down'[v] = down[v]
      /\ Range(down[u]) = {m} \cup Range(down'[u])
      /\ \A v \in User : Range(down'[v]) \subseteq Range(down[v])
  BY TakenDown, ReceiveTakes DEF Receive
<1>3. down[u] \in Seq(Event) BY DEF TypeOK
<1>4. ASSUME NEW x, NEW y, NoneAfter(down[u], x, y), m = x PROVE y \notin Range(down'[u])
  BY <1>1, <1>2, <1>3, <1>4, NoneAfterTail
<1> HIDE DEF m
<1>5. \A v \in User, j \in Call : j \in prompt'[v] =>
        j \in prompt[v] \/ (v = u /\ m = Inviting(j) /\ u # Caller(j))
  BY <1>2, TakesPrompt
<1>6. /\ Others(u)
      /\ \/ Passes(u, m)
         \/ \E k \in Call : \/ Prompted(u, m, k) \/ Alerted(u, m, k)
                            \/ Answered(u, m, k) \/ Forgotten(u, m, k)
                            \/ Finished(u, m, k)
  BY <1>1, <1>2, HandlesEvent
<1> QED BY <1>1, <1>2, <1>4, <1>5, <1>6

LEMMA ReceiveClient ==
  ASSUME TypeOK, PartiesInv, FlowInv, ClientInv, NEW u \in User, Receive(u)
  PROVE  ClientInv'
<1>1. PICK m \in Event :
           /\ m \in Range(down[u]) /\ Range(down[u]) = {m} \cup Range(down'[u])
           /\ \A v \in User \ {u} : down'[v] = down[v]
           /\ \A v \in User : Range(down'[v]) \subseteq Range(down[v])
           /\ \A x, y : NoneAfter(down[u], x, y) /\ m = x => y \notin Range(down'[u])
           /\ UNCHANGED <<calls, starting, up, hidden, party, torn>>
           /\ ending[u] = None /\ Others(u)
           /\ \A v \in User, j \in Call : j \in prompt'[v] =>
                j \in prompt[v] \/ (v = u /\ m = Inviting(j) /\ u # Caller(j))
           /\ \/ Passes(u, m)
              \/ \E k \in Call : \/ Prompted(u, m, k) \/ Alerted(u, m, k)
                                 \/ Answered(u, m, k) \/ Forgotten(u, m, k)
                                 \/ Finished(u, m, k)
  BY ReceiveEffect
<1>2. \A k \in Call : m.call = k => ~Unserved(k)
  BY <1>1 DEF FlowInv, InviteFirst, Fresh
<1>3. \A v \in User, j \in Call :
        /\ \A a : Asked(v, a, j)' <=> Asked(v, a, j)
        /\ \A a : Told(v, a, j)' => Told(v, a, j)
  BY <1>1 DEF Asked, Told
<1>4. \A j \in Call : /\ Unserved(j)' <=> Unserved(j)
                      /\ Untaken(j)' => Untaken(j)
  BY <1>1, <1>3 DEF Unserved, Untaken, Caller
<1>5. \A v \in User \ {u} : Keeps(v) /\ prompt'[v] = prompt[v]
  BY <1>1 DEF Others
<1>6. ASSUME NEW k \in Call, m = Inviting(k), u # Caller(k) PROVE ~Untaken(k)' /\ Untaken(k)
  <2>1. m.call = k BY <1>6, Forms DEF Inviting
  <2>2. ASSUME NEW v \in User, Told(v, "call_invite", k)', v # Caller(k) PROVE FALSE
    <3>1. Between(v, k) /\ Between(u, k)
      BY <1>1, <1>3, <2>1, <2>2, Forms DEF PartiesInv, DownNamed, Told
    <3>2. v = u BY <1>6, <2>2, <3>1 DEF Between, Both, Caller
    <3>3. NoneAfter(down[u], Inviting(k), Inviting(k)) BY DEF FlowInv, InviteOnce
    <3> QED BY <1>1, <1>6, <2>2, <3>2, <3>3 DEF Told, Inviting
  <2>3. Untaken(k) BY <1>1, <1>6 DEF Untaken, Told, Inviting
  <2>4. ~Unserved(k)' BY <1>2, <1>4, <2>1
  <2> QED BY <1>1, <2>2, <2>3, <2>4 DEF Untaken, Caller
<1>a. \A k \in Call : Plain("call_accept", k) = Accepting(k) /\ Plain("call_invite", k) = Inviting(k)
  BY DEF Accepting, Inviting
<1>b. active[u].id \in Call => active[u] # Idle /\ active[u].id # None
  BY Showing, NoneIsNoCall
<1>c. \A k, d, s : Now(k, d, s).id = k /\ Now(k, d, s).dir = d /\ Now(k, d, s).status = s
  BY DEF Now
<1>d. Idle.id = None /\ Idle.status = "none" BY DEF Idle
<1>e. None \notin Call BY NoneIsNoCall
<1> USE DEF ClientInv
<1>7. UntakenIsFresh'
  <2> SUFFICES ASSUME NEW j \in Call, Untaken(j)'
               PROVE  \A v \in User : /\ active'[v].id = j => active'[v].dir = "out"
                                      /\ j \notin prompt'[v]
    BY <1>1, <1>3, <1>4 DEF UntakenIsFresh
  <2>1. \A v \in User : /\ active[v].id = j => active[v].dir = "out"
                        /\ j \notin prompt[v]
    BY <1>4 DEF UntakenIsFresh
  <2>2. \A v \in User : j \notin prompt'[v] BY <1>1, <1>6, <2>1
  <2>3. active'[u].id = j => active'[u].dir = "out"
    <3>1. CASE Passes(u, m) BY <2>1, <3>1 DEF Passes, Keeps
    <3>2. ASSUME NEW k \in Call, Prompted(u, m, k)
          PROVE  active'[u].id = j => active'[u].dir = "out"
      BY <1>6, <1>c, <3>2 DEF Prompted
    <3>3. ASSUME NEW k \in Call,
                 Alerted(u, m, k) \/ Answered(u, m, k) \/ Finished(u, m, k)
          PROVE  active'[u].id = j => active'[u].dir = "out"
      BY <1>c, <2>1, <3>3 DEF Alerted, Answered, Finished
    <3>4. ASSUME NEW k \in Call, Forgotten(u, m, k) PROVE active'[u].id # j
      BY <1>d, <1>e, <3>4 DEF Forgotten
    <3> QED BY <1>1, <3>1, <3>2, <3>3, <3>4
  <2> QED BY <1>5, <2>1, <2>2, <2>3 DEF Keeps
<1>8. EndingIsTrue'
  <2> SUFFICES ASSUME NEW w \in User, NEW e \in Call, ending'[w] = e
               PROVE  (~Live(e) /\ ~Unserved(e)) \/ e \in hidden
    <3>1. ending' \in [User -> Call \cup {None}] BY ReceiveTypes DEF TypeOK
    <3> QED BY <1>1, <1>4, <3>1 DEF EndingIsTrue, Live
  <2>1. ending[w] = e => (~Live(e) /\ ~Unserved(e)) \/ e \in hidden
    BY <1>e DEF EndingIsTrue
  <2>2. CASE w # u BY <1>5, <2>1, <2>2 DEF Keeps
  <2>3. ASSUME w = u, Finished(u, m, e) PROVE (~Live(e) /\ ~Unserved(e)) \/ e \in hidden
    <3>1. m.call = e BY <2>3, Forms DEF Finished, IsEnd
    <3>2. EndTold(u, e) \/ \E kind \in {"call_invite", "call_accept", "call_hangup"} :
            Refused(u, kind, e)
      BY <1>1, <2>3 DEF Finished, IsEnd, EndTold, Told, Refused
    <3> QED BY <1>2, <3>1, <3>2 DEF FlowInv, EndsAreTrue, RefusalsAreTrue
  <2>4. CASE w = u /\ ending'[u] = ending[u] BY <2>1, <2>4
  <2>5. ending'[u] = ending[u] \/ Finished(u, m, ending'[u])
    BY <1>1 DEF Passes, Keeps, Prompted, Alerted, Answered, Forgotten, Finished
  <2> QED BY <2>2, <2>3, <2>4, <2>5
<1>9. TerminalEnds'
  <2>1. \A v \in User \ {u} : active'[v].status \in Terminal => ending'[v] = active'[v].id
    BY <1>5 DEF Keeps, TerminalEnds
  <2>2. CASE Passes(u, m) BY <2>1, <2>2 DEF Passes, Keeps, TerminalEnds
  <2>3. ASSUME NEW k \in Call, Prompted(u, m, k) \/ Alerted(u, m, k) \/ Answered(u, m, k)
        PROVE  active'[u].status \notin Terminal
    BY <1>c, <2>3 DEF Prompted, Alerted, Answered, Terminal
  <2>4. ASSUME NEW k \in Call, Forgotten(u, m, k) PROVE active'[u].status \notin Terminal
    BY <1>d, <2>4 DEF Forgotten, Terminal
  <2>5. ASSUME NEW k \in Call, Finished(u, m, k) PROVE ending'[u] = active'[u].id
    BY <1>c, <2>5 DEF Finished
  <2> QED BY <1>1, <2>1, <2>2, <2>3, <2>4, <2>5 DEF TerminalEnds
<1>10. TimedIsUnanswered'
  <2>1. \A v \in User \ {u} : active'[v] # Idle /\ timer'[v] = active'[v].id =>
          active'[v].status \in {"inviting", "ringing"}
    BY <1>5 DEF Keeps, TimedIsUnanswered
  <2>2. CASE Passes(u, m) BY <2>1, <2>2 DEF Passes, Keeps, TimedIsUnanswered
  <2>3. ASSUME NEW k \in Call, Prompted(u, m, k) PROVE timer'[u] # active'[u].id
    BY <1>c, <1>e, <2>3 DEF Prompted, PartiesInv, TimerNamed
  <2>4. ASSUME NEW k \in Call, Alerted(u, m, k) PROVE active'[u].status = "ringing"
    BY <1>c, <2>4 DEF Alerted
  <2>5. ASSUME NEW k \in Call, Answered(u, m, k) \/ Finished(u, m, k)
        PROVE  timer'[u] # active'[u].id
    BY <1>c, <1>e, <2>5 DEF Answered, Finished
  <2>6. ASSUME NEW k \in Call, Forgotten(u, m, k) PROVE active'[u] = Idle
    BY <2>6 DEF Forgotten
  <2> QED BY <1>1, <2>1, <2>2, <2>3, <2>4, <2>5, <2>6 DEF TimedIsUnanswered
<1>11. AcceptedIsTrue'
  <2> SUFFICES ASSUME NEW w \in User, NEW e \in Call, active'[w].id = e,
                      active'[w].status = "accepted"
               PROVE  /\ calls[e].status \notin {"invited", "ringing"}
                      /\ ~Told(w, "call_ringing", e)' /\ ~Unserved(e)
    <3>1. TypeOK' BY ReceiveTypes
    <3>2. \A w \in User : active'[w].status = "accepted" => active'[w].id \in Call
      BY <1>d, <3>1, Showing DEF TypeOK
    <3> QED BY <1>1, <1>4, <3>2 DEF AcceptedIsTrue
  <2>1. active[w].id = e /\ active[w].status = "accepted" =>
          /\ calls[e].status \notin {"invited", "ringing"}
          /\ ~Told(w, "call_ringing", e)' /\ ~Unserved(e)
    BY <1>3 DEF AcceptedIsTrue
  <2>2. CASE w # u BY <1>5, <2>1, <2>2 DEF Keeps
  <2>3. CASE w = u /\ Passes(u, m) BY <2>1, <2>3 DEF Passes, Keeps
  <2>4. ASSUME w = u, NEW k \in Call, Answered(u, m, k)
        PROVE  /\ calls[e].status \notin {"invited", "ringing"}
               /\ ~Told(w, "call_ringing", e)' /\ ~Unserved(e)
    <3>1. e = k /\ m = Accepting(k) /\ m.call = k
      BY <1>a, <1>c, <2>4, Forms DEF Answered
    <3>2. Told(u, "call_accept", k) BY <1>1, <1>a, <3>1 DEF Told
    <3>3. NoneAfter(down[u], Accepting(k), Plain("call_ringing", k))
      BY DEF FlowInv, NoLateRinging
    <3>4. ~Told(u, "call_ringing", k)' BY <1>1, <3>1, <3>3 DEF Told
    <3> QED BY <1>2, <2>4, <3>1, <3>2, <3>4 DEF FlowInv, AcceptsAreTrue
  <2>5. ASSUME w = u, NEW k \in Call,
               \/ Prompted(u, m, k) \/ Alerted(u, m, k)
               \/ Forgotten(u, m, k) \/ Finished(u, m, k)
        PROVE  FALSE
    BY <1>c, <1>d, <2>5 DEF Prompted, Alerted, Forgotten, Finished, Terminal
  <2> QED BY <1>1, <2>2, <2>3, <2>4, <2>5
<1>12. AcceptIsAwaited'
  <2> DEFINE Known(v, j) == \/ j \in accepting'[v]
                            \/ active'[v].status \in Terminal \cup {"accepted"}
                            \/ <<v, j>> \in torn
  <2> SUFFICES ASSUME NEW v \in User, NEW j \in Call, active'[v].id = j, active'[v].dir = "in",
                      Asked(v, "call_accept", j) \/ Told(v, "call_accept", j)
               PROVE  Known(v, j)
    BY <1>1, <1>3 DEF AcceptIsAwaited
  <2>1. active[v].id = j /\ active[v].dir = "in" =>
          \/ j \in accepting[v]
          \/ active[v].status \in Terminal \cup {"accepted"} \/ <<v, j>> \in torn
    BY DEF AcceptIsAwaited
  <2>2. CASE v # u BY <1>5, <2>1, <2>2 DEF Keeps
  <2>3. CASE v = u /\ Passes(u, m) BY <2>1, <2>3 DEF Passes, Keeps
  <2>4. ASSUME v = u, NEW k \in Call, Prompted(u, m, k) PROVE FALSE
    <3>1. j = k BY <1>c, <2>4 DEF Prompted
    <3> QED BY <1>6, <2>4, <3>1 DEF Prompted, UntakenIsFresh
  <2>5. ASSUME v = u, NEW k \in Call, Alerted(u, m, k) PROVE Known(v, j)
    <3>1. j = k /\ active[u].id = k /\ active[u].dir = "in" BY <1>c, <2>5 DEF Alerted
    <3>2. Told(u, "call_ringing", k) BY <1>1, <2>5 DEF Alerted, Told
    <3>3. active[u].status # "accepted" BY <3>1, <3>2 DEF AcceptedIsTrue
    <3>4. active[u].status \notin Terminal BY <1>1, <1>e, <3>1 DEF TerminalEnds
    <3> QED BY <2>1, <2>5, <3>1, <3>3, <3>4 DEF Alerted
  <2>6. ASSUME v = u, NEW k \in Call, Answered(u, m, k) \/ Finished(u, m, k)
        PROVE  Known(v, j)
    BY <1>c, <2>6 DEF Answered, Finished
  <2>7. ASSUME v = u, NEW k \in Call, Forgotten(u, m, k) PROVE FALSE
    BY <1>d, <1>e, <2>7 DEF Forgotten
  <2> QED BY <1>1, <2>2, <2>3, <2>4, <2>5, <2>6, <2>7
<1> QED BY <1>7, <1>8, <1>9, <1>10, <1>11, <1>12

LEMMA NextClient ==
  ASSUME TypeOK, PartiesInv, FlowInv, ClientInv, [Next]_vars
  PROVE  ClientInv'
<1>1. ASSUME NEW u \in User, Serve(u) PROVE ClientInv'
  BY <1>1, ServeTruly, ServerClient DEF Serve
<1>2. ASSUME NEW u \in User, Leave(u) PROVE ClientInv'
  <2>1. UNCHANGED <<up, hidden, party>> /\ UNCHANGED clientVars BY <1>2 DEF Leave
  <2>2. CASE UNCHANGED <<calls, down, torn>>
    BY <2>1, <2>2, QuietClient DEF clientVars
  <2> QED BY <1>2, <2>1, <2>2, LeaveTruly, ServerClient
<1>3. CASE Next
  BY <1>1, <1>2, <1>3, StartClient, SentClient, AsksClient, ReceiveClient, LetGoClient,
     StillClient
  DEF Next, UserStep, ClientStep, AsksSomething
<1>4. CASE UNCHANGED vars BY <1>4, StillClient
<1> QED BY <1>3, <1>4

-----------------------------------------------------------------------------
(* ShownInv, step by step.                                                 *)

LEMMA InitShown == Init => ShownInv
BY NoneIsNoCall DEF Init, ShownInv, Idle

LEMMA StaysJustified ==
  ASSUME NEW v \in User, NEW k \in Call, Justified(v, k),
         calls'[k] = calls[k], torn \subseteq torn', hidden \subseteq hidden',
         active'[v] = active[v], timer'[v] = timer[v] \/ timer[v] # k,
         ending'[v] = ending[v],
         <<k, "call_hangup">> \in actions[v] => <<k, "call_hangup">> \in actions'[v],
         Asked(v, "call_hangup", k) => Asked(v, "call_hangup", k)',
         Refused(v, "call_hangup", k) => Refused(v, "call_hangup", k)',
         EndTold(v, k) => EndTold(v, k)',
         Told(v, "call_accept", k) => Told(v, "call_accept", k)'
  PROVE  Justified(v, k)'
<1>1. Live(k) <=> Live(k)' BY DEF Live
<1>2. HangupDue(v, k) => HangupDue(v, k)' BY DEF HangupDue
<1>3. Agrees(v, k) => Agrees(v, k)' BY DEF Agrees
<1> QED BY <1>1, <1>2, <1>3 DEF Justified

\* the steps of a client that leave its call and what it was told alone
LEMMA QuietShown ==
  ASSUME TypeOK, PartiesInv, ClientInv, ShownInv, NEW u \in User,
         \/ \E v \in User, k \in Call : StartCall(u, v, k)
         \/ InviteFails(u) \/ AsksSomething(u)
  PROVE  ShownInv'
<1> DEFINE Same == /\ UNCHANGED <<calls, hidden, active, ending, down>>
                   /\ torn \subseteq torn'
                   /\ \A v \in User, k \in Call :
                        /\ <<k, "call_hangup">> \in actions[v] =>
                             <<k, "call_hangup">> \in actions'[v]
                        /\ Asked(v, "call_hangup", k) => Asked(v, "call_hangup", k)'
<1>1. ASSUME Same, NEW v \in User, NEW k \in Call, active[v].id = k,
             timer'[v] = timer[v] \/ timer[v] # k
      PROVE  Justified(v, k)'
  <2>1. Justified(v, k) BY <1>1 DEF ShownInv
  <2>2. /\ Refused(v, "call_hangup", k) => Refused(v, "call_hangup", k)'
        /\ EndTold(v, k) => EndTold(v, k)'
        /\ Told(v, "call_accept", k) => Told(v, "call_accept", k)'
    BY <1>1 DEF Refused, EndTold, Told
  <2> QED BY <1>1, <2>1, <2>2, StaysJustified
<1>2. ASSUME NEW v \in User, NEW k \in Call, StartCall(u, v, k) PROVE Same /\ UNCHANGED timer
  <2>1. /\ Grows(u, Plain("call_invite", k))
        /\ UNCHANGED <<calls, active, timer, ending, down, hidden, torn>>
    BY <1>2, StartNames
  <2>2. Plain("call_invite", k) \in Request BY RequestType DEF Kinds
  <2>3. \A w \in User : Range(up[w]) \subseteq Range(up'[w])
    BY <2>1, <2>2, GrowsRange
  <2>4. \A w \in User : actions[w] \subseteq actions'[w]
    BY <1>2 DEF StartCall, TypeOK
  <2> QED BY <2>1, <2>3, <2>4 DEF Asked
<1>3. ASSUME InviteFails(u) PROVE Same /\ UNCHANGED timer
  <2>1. /\ UNCHANGED <<calls, active, timer, ending, up, down, hidden>>
        /\ torn \subseteq torn'
    BY <1>3 DEF InviteFails, registryVars, netVars
  <2>2. \A w \in User, k \in Call :
          <<k, "call_hangup">> \in actions[w] => <<k, "call_hangup">> \in actions'[w]
    BY <1>3 DEF InviteFails, TypeOK
  <2> QED BY <2>1, <2>2 DEF Asked
<1>4. ASSUME AsksSomething(u) PROVE Same
  <2>1. UNCHANGED <<calls, active, ending, down, hidden>> BY <1>4, AsksForms DEF Calm
  <2>2. CASE AskNothing BY <2>1, <2>2 DEF AskNothing, Asked
  <2>3. ASSUME NEW j \in Call, NEW kind \in Kinds, AsksFor(u, kind, j) PROVE Same
    <3>1. /\ Grows(u, Plain(kind, j)) /\ torn \subseteq torn'
          /\ \A w \in User : actions[w] \subseteq actions'[w]
      BY <2>3, AskEffect DEF AsksFor
    <3>2. \A w \in User : Range(up[w]) \subseteq Range(up'[w])
      BY <3>1, RequestType, GrowsRange
    <3> QED BY <2>1, <3>1, <3>2 DEF Asked
  <2> QED BY <1>4, <2>2, <2>3, AsksForms
\* when the timer has run off, its call has been hung up
<1>5. ASSUME AsksSomething(u), NEW v \in User, NEW k \in Call, active[v].id = k,
             timer[v] = k, timer'[v] # timer[v]
      PROVE  Justified(v, k)'
  <2>1. v = u BY <1>5, AsksForms DEF Calm
  <2>2. Unanswered(u, timer[u])
    <3>1. active[u] # Idle /\ Started(k) /\ u = Caller(k)
      BY <1>5, <2>1, Showing, NoneIsNoCall DEF PartiesInv, TimerNamed
    <3>2. active[u].dir = "out" BY <1>5, <2>1, <3>1 DEF PartiesInv, ActiveNamed
    <3>3. active[u].status \in {"inviting", "ringing"}
      BY <1>5, <2>1, <3>1 DEF ClientInv, TimedIsUnanswered
    <3> QED BY <1>5, <2>1, <3>2, <3>3 DEF Unanswered
  <2>3. PICK j \in Call, kind \in Kinds : AsksFor(u, kind, j)
    BY <1>5, <2>1, <2>2, AsksForms
  <2>4. kind = "call_hangup" /\ j = k BY <1>5, <2>1, <2>3 DEF AsksFor
  <2>5. \/ <<u, k>> \in torn'
        \/ Asked(u, "call_hangup", k)' /\ <<k, "call_hangup">> \in actions'[u]
    BY <2>3, <2>4, AskEffect DEF AsksFor
  <2> QED BY <2>1, <2>5 DEF Justified, HangupDue
<1>6. ASSUME Same, \A v \in User, k \in Call : active[v].id = k => Justified(v, k)'
      PROVE  ShownInv'
  BY <1>6 DEF ShownInv
<1> QED BY <1>1, <1>2, <1>3, <1>4, <1>5, <1>6

LEMMA SentShown ==
  ASSUME TypeOK, ShownInv, NEW u \in User, InviteSent(u)
  PROVE  ShownInv'
<1>1. PICK k \in Range(starting[u]) :
           /\ k \in Call
           /\ Range(starting[u]) = {k} \cup Range(starting'[u])
           /\ \A v \in User \ {u} : starting'[v] = starting[v] /\ active'[v] = active[v]
                                    /\ timer'[v] = timer[v]
           /\ active'[u] = [id |-> k, dir |-> "out", status |-> "inviting"]
           /\ timer'[u] = k
  BY SentEffect
<1>2. UNCHANGED <<calls, up, down, ending, hidden, torn, actions>>
  BY DEF InviteSent, registryVars, netVars
<1>3. SUFFICES ASSUME NEW v \in User, NEW j \in Call, active'[v].id = j
               PROVE  Justified(v, j)'
  BY DEF ShownInv
<1>4. CASE v = u BY <1>1, <1>3, <1>4 DEF Justified
<1>5. CASE v # u
  BY <1>1, <1>2, <1>3, <1>5, StaysJustified DEF ShownInv, Asked, Refused, EndTold, Told
<1> QED BY <1>4, <1>5

LEMMA LetGoShown ==
  ASSUME TypeOK, ShownInv, NEW u \in User, LetGo(u)
  PROVE  ShownInv'
<1>1. UNCHANGED <<calls, up, down, timer, hidden, torn>>
  BY DEF LetGo, registryVars, netVars
<1>2. /\ active'[u] = Idle
      /\ \A v \in User \ {u} : /\ active'[v] = active[v] /\ ending'[v] = ending[v]
                               /\ actions'[v] = actions[v]
  BY DEF LetGo, TypeOK, Forget
<1>3. SUFFICES ASSUME NEW v \in User, NEW j \in Call, active'[v].id = j
               PROVE  Justified(v, j)'
  BY DEF ShownInv
<1>4. v # u BY <1>2, <1>3, NoneIsNoCall DEF Idle
<1> QED BY <1>1, <1>2, <1>3, <1>4, StaysJustified DEF ShownInv, Asked, Refused, EndTold, Told

\* what a broken connection takes with it counts as torn
LEMMA NetShown ==
  ASSUME TypeOK, ShownInv,
         \/ \E u \in User : Drop(u) \/ Reconnect(u)
         \/ \E k \in Call : Hide(k)
         \/ UNCHANGED vars
  PROVE  ShownInv'
<1> USE DEF registryVars, clientVars, netVars, historyVars
<1>1. UNCHANGED <<calls, active, timer, ending, actions>>
  BY DEF Drop, Reconnect, Hide, vars
<1>2. ASSUME NEW v \in User, NEW j \in Call, active[v].id = j, up'[v] = up[v], down'[v] = down[v],
             torn \subseteq torn', hidden \subseteq hidden'
      PROVE  Justified(v, j)'
  BY <1>1, <1>2, StaysJustified DEF ShownInv, Asked, Refused, EndTold, Told
<1>3. ASSUME NEW u \in User, Drop(u) PROVE ShownInv'
  <2>1. hidden' = hidden BY <1>3 DEF Drop
  <2>2. /\ torn \subseteq torn' /\ \A v \in User \ {u} : up'[v] = up[v] /\ down'[v] = down[v]
        /\ \A m \in Range(up[u]) \cup Range(down[u]) : <<u, m.call>> \in torn'
    BY <1>3, DropEffect
  <2>3. ASSUME NEW j \in Call, active[u].id = j PROVE Justified(u, j)'
    <3>1. Justified(u, j) BY <2>3 DEF ShownInv
    <3>2. CASE HangupDue(u, j) \/ EndTold(u, j) \/ Told(u, "call_accept", j)
      <4>1. \E m \in Range(up[u]) \cup Range(down[u]) : m.call = j
        BY <3>2, Forms DEF HangupDue, EndTold, Told, Asked, Refused
      <4> QED BY <2>2, <4>1 DEF Justified
    <3>3. CASE ~(HangupDue(u, j) \/ EndTold(u, j) \/ Told(u, "call_accept", j))
      <4>1. Live(j)' <=> Live(j) BY <1>1 DEF Live
      <4> QED BY <1>1, <2>1, <2>2, <3>1, <3>3, <4>1 DEF Justified, Agrees
    <3> QED BY <3>2, <3>3
  <2> QED BY <1>1, <1>2, <2>1, <2>2, <2>3 DEF ShownInv
<1>4. ASSUME NEW u \in User, Reconnect(u) PROVE ShownInv'
  BY <1>1, <1>2, <1>4 DEF ShownInv, Reconnect
<1>5. ASSUME NEW k \in Call, Hide(k) PROVE ShownInv'
  BY <1>1, <1>2, <1>5 DEF ShownInv, Hide
<1>6. CASE UNCHANGED vars BY <1>1, <1>2, <1>6 DEF ShownInv, vars
<1> QED BY <1>3, <1>4, <1>5, <1>6

LEMMA ReceiveShown ==
  ASSUME TypeOK, PartiesInv, FlowInv, ClientInv, ShownInv, NEW u \in User, Receive(u)
  PROVE  ShownInv'
<1>1. PICK m \in Event :
           /\ m \in Range(down[u]) /\ Range(down[u]) = {m} \cup Range(down'[u])
           /\ \A v \in User \ {u} : down'[v] = down[v]
           /\ \A v \in User : Range(down'[v]) \subseteq Range(down[v])
           /\ \A x, y : NoneAfter(down[u], x, y) /\ m = x => y \notin Range(down'[u])
           /\ UNCHANGED <<calls, starting, up, hidden, party, torn>>
           /\ ending[u] = None /\ Others(u)
           /\ \A v \in User, j \in Call : j \in prompt'[v] =>
                j \in prompt[v] \/ (v = u /\ m = Inviting(j) /\ u # Caller(j))
           /\ \/ Passes(u, m)
              \/ \E k \in Call : \/ Prompted(u, m, k) \/ Alerted(u, m, k)
                                 \/ Answered(u, m, k) \/ Forgotten(u, m, k)
                                 \/ Finished(u, m, k)
  BY ReceiveEffect
<1>2. SUFFICES ASSUME NEW v \in User, NEW j \in Call, active'[v].id = j
               PROVE  Justified(v, j)'
  BY DEF ShownInv
<1>3. CASE v # u
  <2>1. Keeps(v) /\ actions'[v] = actions[v] BY <1>1, <1>3 DEF Others
  <2> QED BY <1>1, <1>2, <1>3, <2>1, StaysJustified
          DEF Keeps, ShownInv, Asked, Refused, EndTold, Told
<1>a. \A k, d, s : Now(k, d, s).id = k /\ Now(k, d, s).dir = d /\ Now(k, d, s).status = s
  BY DEF Now
<1>b. \A a, k : Plain(a, k) # m => (Told(u, a, k) => Told(u, a, k)')
  BY <1>1 DEF Told
<1>c. \A k \in Call : ~IsEnd(m, k) => (EndTold(u, k) => EndTold(u, k)')
  BY <1>b DEF EndTold, IsEnd
<1>d. \A k \in Call : Live(k)' <=> Live(k) BY <1>1 DEF Live
<1>4. CASE v = u /\ Passes(u, m)
  <2>1. active[u].id = j /\ Keeps(u) BY <1>2, <1>4 DEF Passes, Keeps
  <2>2. /\ ~IsEnd(m, j) /\ (m = Accepting(j) => active[u].status = "accepted")
        /\ <<j, "call_hangup">> \in actions[u] =>
             <<j, "call_hangup">> \in actions'[u] /\ m # Error("call_hangup", j)
    BY <1>4, <2>1 DEF Passes
  <2>3. HangupDue(u, j) => HangupDue(u, j)'
    BY <1>1, <2>2 DEF HangupDue, Asked, Refused
  <2>4. Agrees(u, j) => Agrees(u, j)'
    BY <1>1, <1>b, <2>1, <2>2 DEF Agrees, Keeps, Accepting
  <2>5. Justified(u, j) BY <2>1 DEF ShownInv
  <2> QED BY <1>1, <1>4, <1>c, <1>d, <2>1, <2>2, <2>3, <2>4, <2>5 DEF Justified, Keeps
<1>5. ASSUME v = u, NEW k \in Call, Prompted(u, m, k) PROVE Justified(v, j)'
  <2>1. /\ j = k /\ m = Inviting(k) /\ u # Caller(k)
        /\ active'[u].status = "invited" /\ active'[u].dir = "in"
    BY <1>2, <1>5, <1>a DEF Prompted
  <2>2. Told(u, "call_invite", k) BY <1>1, <2>1 DEF Told, Inviting
  <2>3. Live(k) \/ EndTold(u, k) \/ <<u, k>> \in torn
    BY <2>2 DEF FlowInv, InvitesAreTrue
  <2>4. calls[k].status # "accepted"
    BY <2>1, <2>2 DEF ClientInv, UntakenIsFresh, Untaken
  <2>5. ~IsEnd(m, k) BY <2>1, Forms DEF IsEnd, Inviting
  <2>6. Agrees(u, k)' BY <1>1, <2>1, <2>4 DEF Agrees
  <2> QED BY <1>1, <1>5, <1>c, <1>d, <2>1, <2>3, <2>5, <2>6 DEF Justified
<1>6. ASSUME v = u, NEW k \in Call, Alerted(u, m, k) PROVE Justified(v, j)'
  <2>1. /\ j = k /\ m = Plain("call_ringing", k) /\ active[u].id = k
        /\ active'[u].status = "ringing" /\ active'[u].dir = active[u].dir
        /\ timer'[u] = timer[u] /\ ending'[u] = ending[u] /\ actions'[u] = actions[u]
    BY <1>2, <1>6, <1>a DEF Alerted
  <2>2. Told(u, "call_ringing", k) BY <1>1, <2>1 DEF Told
  <2>3. active[u].status # "accepted" BY <2>1, <2>2 DEF ClientInv, AcceptedIsTrue
  <2>4. ~IsEnd(m, k) /\ m # Plain("call_accept", k) /\ m # Error("call_hangup", k)
    BY <2>1, Forms DEF IsEnd
  <2>5. HangupDue(u, k) => HangupDue(u, k)'
    BY <1>1, <2>1, <2>4 DEF HangupDue, Asked, Refused
  <2>6. Agrees(u, k) => Agrees(u, k)' BY <1>1, <1>b, <2>1, <2>3, <2>4 DEF Agrees
  <2>7. Justified(u, k) BY <2>1 DEF ShownInv
  <2> QED BY <1>1, <1>6, <1>c, <1>d, <2>1, <2>4, <2>5, <2>6, <2>7 DEF Justified
<1>7. ASSUME v = u, NEW k \in Call, Answered(u, m, k) PROVE Justified(v, j)'
  <2>1. j = k /\ m = Accepting(k) /\ active'[u].status = "accepted"
    BY <1>2, <1>7, <1>a DEF Answered
  <2>2. Told(u, "call_accept", k) BY <1>1, <2>1 DEF Told, Accepting
  <2>3. calls[k].status = "accepted" \/ EndTold(u, k) \/ <<u, k>> \in torn
    BY <2>2 DEF FlowInv, AcceptsAreTrue
  <2>4. ~IsEnd(m, k) BY <2>1, Forms DEF IsEnd, Accepting
  <2>5. calls[k].status = "accepted" => Live(k) /\ Agrees(u, k)'
    BY <1>1, <2>1 DEF Live, ActiveStatuses, Agrees
  <2> QED BY <1>1, <1>7, <1>c, <1>d, <2>1, <2>3, <2>4, <2>5 DEF Justified
<1>8. ASSUME v = u, NEW k \in Call, Forgotten(u, m, k) PROVE FALSE
  BY <1>2, <1>8, NoneIsNoCall DEF Forgotten, Idle
<1>9. ASSUME v = u, NEW k \in Call, Finished(u, m, k) PROVE Justified(v, j)'
  BY <1>2, <1>9, <1>a DEF Finished, Justified
<1> QED BY <1>1, <1>3, <1>4, <1>5, <1>6, <1>7, <1>8, <1>9

LEMMA ServerShown ==
  ASSUME TypeOK, PartiesInv, FlowInv, ClientInv, ShownInv, NEW k \in Call,
         NEW S \in SUBSET User, NEW m \in Event, TellsTruly(k, S, m), UNCHANGED clientVars
  PROVE  ShownInv'
<1>1. UNCHANGED <<active, timer, ending, hidden, party, actions>>
      /\ m.call = k /\ Tells(S, m) /\ torn \subseteq torn'
  BY DEF TellsTruly, clientVars, Tells
<1>2. SUFFICES ASSUME NEW v \in User, NEW j \in Call, active[v].id = j
               PROVE  Justified(v, j)'
  BY <1>1 DEF ShownInv
<1>3. Justified(v, j) BY <1>2 DEF ShownInv
<1>4. Range(down[v]) \subseteq Range(down'[v]) BY <1>1 DEF Tells
<1>5. /\ \A a : Told(v, a, j) => Told(v, a, j)'
      /\ \A a : Refused(v, a, j) => Refused(v, a, j)'
      /\ EndTold(v, j) => EndTold(v, j)'
  BY <1>4 DEF Told, Refused, EndTold
<1>6. CASE j # k
  <2>1. Asked(v, "call_hangup", j) => Asked(v, "call_hangup", j)'
    BY <1>6 DEF TellsTruly, HangupsHeard
  <2>2. calls'[j] = calls[j] BY <1>6 DEF TellsTruly
  <2> QED BY <1>1, <1>2, <1>3, <1>5, <2>1, <2>2, StaysJustified
<1>7. CASE j = k
  <2>0. v \in Both(k)
    BY <1>2, <1>7, Showing DEF PartiesInv, ActiveNamed, Between
  \* what a user of k is told arrives, or the call counts as torn
  <2>1. v \in S => m \in Range(down'[v]) \/ <<v, k>> \in torn' BY <1>1 DEF Tells
  <2>2. IsEnd(m, k) /\ v \in S => Justified(v, k)'
    BY <2>1 DEF IsEnd, EndTold, Told, Justified
  <2>3. HangupDue(v, k) => Justified(v, k)'
    <3>1. CASE Asked(v, "call_hangup", k)'
      BY <1>1, <3>1 DEF HangupDue, Justified
    <3>2. CASE Refused(v, "call_hangup", k)
      BY <1>1, <1>5, <1>7, <3>2 DEF HangupDue, Justified
    <3>3. CASE /\ v \in S /\ m = Error("call_hangup", k)
      BY <1>1, <2>1, <3>3 DEF HangupDue, Justified, Refused
    <3>4. HangupDue(v, k) => \/ Asked(v, "call_hangup", k)' \/ Refused(v, "call_hangup", k)
                             \/ v \in S /\ m = Error("call_hangup", k)
                             \/ v \in S /\ IsEnd(m, k)
      BY DEF TellsTruly, HangupsHeard, HangupDue
    <3> QED BY <2>2, <3>1, <3>2, <3>3, <3>4
  <2>4. ASSUME Live(k), Agrees(v, k) PROVE Justified(v, k)'
    <3>1. CASE ~Live(k)' BY <2>0, <2>2, <2>4, <3>1 DEF TellsTruly
    <3>2. CASE Live(k)'
      <4>1. active[v].status = "accepted" => calls'[k].status = "accepted"
        <5>1. active[v].status = "accepted" =>
                calls[k].status \notin {"invited", "ringing"} /\ ~Unserved(k)
          BY <1>2, <1>7 DEF ClientInv, AcceptedIsTrue
        <5> QED BY <3>2, <5>1 DEF TellsTruly, Live, ActiveStatuses
      <4>2. calls'[k].status = "accepted" =>
              \/ active[v].status = "accepted" \/ Told(v, "call_accept", k)'
              \/ <<v, k>> \in torn'
        <5>1. CASE calls[k].status = "accepted" BY <1>5, <1>7, <2>4, <5>1 DEF Agrees
        <5>2. CASE m = Accepting(k)
          <6>1. v \in S BY <2>0, <5>2 DEF TellsTruly
          <6> QED BY <2>1, <5>2, <6>1 DEF Told, Accepting
        <5> QED BY <5>1, <5>2 DEF TellsTruly
      <4>3. active[v].dir = "out" => active[v].status = "accepted" BY <2>4 DEF Agrees
      <4> QED BY <1>1, <3>2, <4>1, <4>2, <4>3 DEF Justified, Agrees
    <3> QED BY <3>1, <3>2
  <2> QED BY <1>1, <1>3, <1>5, <1>7, <2>3, <2>4 DEF Justified
<1> QED BY <1>6, <1>7

LEMMA LeaveQuiet ==
  ASSUME ShownInv, UNCHANGED <<calls, down, torn, up, hidden>>, UNCHANGED clientVars
  PROVE  ShownInv'
BY StaysJustified DEF ShownInv, Asked, Refused, EndTold, Told, clientVars

LEMMA NextShown ==
  ASSUME TypeOK, PartiesInv, FlowInv, ClientInv, ShownInv, [Next]_vars
  PROVE  ShownInv'
<1>1. ASSUME NEW u \in User, Serve(u) PROVE ShownInv'
  BY <1>1, ServeTruly, ServerShown DEF Serve
<1>2. ASSUME NEW u \in User, Leave(u) PROVE ShownInv'
  <2>1. UNCHANGED <<up, hidden>> /\ UNCHANGED clientVars BY <1>2 DEF Leave
  <2>2. CASE UNCHANGED <<calls, down, torn>> BY <2>1, <2>2, LeaveQuiet
  <2> QED BY <1>2, <2>1, <2>2, LeaveTruly, ServerShown
<1>3. CASE Next
  BY <1>1, <1>2, <1>3, QuietShown, SentShown, ReceiveShown, LetGoShown, NetShown
  DEF Next, UserStep, ClientStep, AsksSomething
<1>4. CASE UNCHANGED vars BY <1>4, NetShown
<1> QED BY <1>3, <1>4

-----------------------------------------------------------------------------
(* CallerInv and CalleeInv, step by step.                                  *)

LiveInv == CallerInv /\ CalleeInv

LEMMA InitLive == Init => LiveInv
BY NothingIn
DEF Init, LiveInv, CallerInv, CalleeInv, RegistryInit, NoCall, Live, ActiveStatuses,
    Unserved, Asked

\* the calls of both users stay where they are, or count as torn or strayed
LEMMA StaysFound ==
  ASSUME PartiesInv, LiveInv, UNCHANGED party, strayed \subseteq strayed', torn \subseteq torn',
         hidden \subseteq hidden',
         \A k \in Call : Live(k)' => Live(k),
         \A k \in Call : Unserved(k)' => Unserved(k),
         \A v \in User, k \in Call :
           /\ active[v].id = k =>
                \/ active'[v].id = k \/ Excused(v, k)' \/ (~Live(k)' /\ ~Unserved(k)')
           /\ k \in Range(starting[v]) =>
                k \in Range(starting'[v]) \/ active'[v].id = k \/ Excused(v, k)'
           /\ v = Callee(k) /\ Told(v, "call_invite", k) =>
                Told(v, "call_invite", k)' \/ active'[v].id = k \/ Excused(v, k)'
  PROVE  LiveInv'
<1>1. \A k \in Call : Caller(k)' = Caller(k) /\ Callee(k)' = Callee(k) /\ (Started(k)' <=> Started(k))
  BY DEF Caller, Callee, Started
<1>2. \A v, k : Excused(v, k) => Excused(v, k)' BY DEF Excused
<1>3. \A k \in Call : Live(k) \/ Unserved(k) => Caller(k) \in User /\ Callee(k) \in User
  <2> SUFFICES ASSUME NEW k \in Call, Live(k) \/ Unserved(k)
               PROVE  Caller(k) \in User /\ Callee(k) \in User
    OBVIOUS
  <2>1. Started(k) BY Forms DEF PartiesInv, LiveNamed, UpNamed, Unserved, Asked, Between
  <2> QED BY <2>1, BothUsers DEF PartiesInv
<1>4. CallerInv'
  <2> SUFFICES ASSUME NEW k \in Call, Live(k)' \/ Unserved(k)'
               PROVE  \/ active'[Caller(k)].id = k \/ k \in Range(starting'[Caller(k)])
                      \/ Excused(Caller(k), k)'
    BY <1>1 DEF CallerInv, Excused
  <2>1. Live(k) \/ Unserved(k) OBVIOUS
  <2>2. Caller(k) \in User BY <1>3, <2>1
  <2>3. \/ active[Caller(k)].id = k \/ k \in Range(starting[Caller(k)])
        \/ Excused(Caller(k), k)
    BY <2>1 DEF LiveInv, CallerInv
  <2> QED BY <1>1, <1>2, <2>1, <2>2, <2>3 DEF Excused
<1>5. CalleeInv'
  <2> SUFFICES ASSUME NEW k \in Call, Live(k)'
               PROVE  \/ active'[Callee(k)].id = k \/ Told(Callee(k), "call_invite", k)'
                      \/ Excused(Callee(k), k)'
    BY <1>1 DEF CalleeInv
  <2>1. Live(k) OBVIOUS
  <2>2. Callee(k) \in User BY <1>3, <2>1
  <2>3. \/ active[Callee(k)].id = k \/ Told(Callee(k), "call_invite", k)
        \/ Excused(Callee(k), k)
    BY <2>1 DEF LiveInv, CalleeInv
  <2> QED BY <1>1, <1>2, <2>1, <2>2, <2>3 DEF Excused, Told
<1> QED BY <1>4, <1>5 DEF LiveInv

LEMMA StartLive ==
  ASSUME TypeOK, PartiesInv, LiveInv, NEW u \in User, NEW v \in User, NEW k \in Call,
         StartCall(u, v, k)
  PROVE  LiveInv'
<1> DEFINE x == Inviting(k)
<1>1. /\ Grows(u, x) /\ ~Started(k) /\ Caller(k)' = u
      /\ \A j \in Call \ {k} : Caller(j)' = Caller(j) /\ Callee(j)' = Callee(j)
      /\ Range(starting'[u]) = Range(starting[u]) \cup {k}
      /\ \A w \in User \ {u} : starting'[w] = starting[w]
      /\ UNCHANGED <<calls, active, down, hidden, strayed, torn>>
  BY StartNames DEF Inviting
<1>2. x \in Request BY RequestType DEF Kinds, Inviting
<1>3. \A w \in User : Range(up'[w]) \subseteq Range(up[w]) \cup {x}
  BY <1>1, <1>2, GrowsRange
<1>4. \A j : Inviting(j) = x => j = k BY Forms DEF Inviting
<1>5. ~Live(k) BY <1>1 DEF PartiesInv, LiveNamed
<1>6. \A j \in Call \ {k} : (Live(j)' <=> Live(j)) /\ (Unserved(j)' => Unserved(j))
  BY <1>1, <1>3, <1>4 DEF Live, Unserved, Asked, Inviting
<1>7. CallerInv'
  <2> SUFFICES ASSUME NEW j \in Call, Live(j)' \/ Unserved(j)'
               PROVE  \/ active[Caller(j)'].id = j \/ j \in Range(starting'[Caller(j)'])
                      \/ <<Caller(j)', j>> \in torn \cup strayed \/ j \in hidden
    BY <1>1 DEF CallerInv, Excused
  <2>1. CASE j = k BY <1>1, <2>1
  <2>2. CASE j # k
    <3>1. \/ active[Caller(j)].id = j \/ j \in Range(starting[Caller(j)])
          \/ <<Caller(j), j>> \in torn \cup strayed \/ j \in hidden
      BY <1>6, <2>2 DEF LiveInv, CallerInv, Excused
    <3>2. Started(j)
      BY <1>6, <2>2, Forms DEF PartiesInv, LiveNamed, UpNamed, Unserved, Asked, Between
    <3>3. Caller(j) \in User BY <3>2, BothUsers DEF PartiesInv
    <3> QED BY <1>1, <2>2, <3>1, <3>3
  <2> QED BY <2>1, <2>2
<1>8. CalleeInv'
  <2> SUFFICES ASSUME NEW j \in Call, Live(j)'
               PROVE  (\/ active[Callee(j)].id = j \/ Told(Callee(j), "call_invite", j)
                       \/ Excused(Callee(j), j))'
    BY DEF CalleeInv
  <2>1. Live(j) BY <1>1 DEF Live
  <2>2. j # k BY <1>5, <2>1
  <2> QED BY <1>1, <2>1, <2>2 DEF LiveInv, CalleeInv, Excused, Told
<1> QED BY <1>7, <1>8 DEF LiveInv

LEMMA SentLive ==
  ASSUME TypeOK, PartiesInv, LiveInv, NEW u \in User, InviteSent(u)
  PROVE  LiveInv'
<1>1. PICK k \in Range(starting[u]) :
           /\ k \in Call
           /\ Range(starting[u]) = {k} \cup Range(starting'[u])
           /\ \A v \in User \ {u} : starting'[v] = starting[v] /\ active'[v] = active[v]
                                    /\ timer'[v] = timer[v]
           /\ active'[u] = [id |-> k, dir |-> "out", status |-> "inviting"]
           /\ timer'[u] = k
  BY SentEffect
<1>2. /\ UNCHANGED <<calls, up, down, party, hidden, torn>> /\ strayed \subseteq strayed'
      /\ active[u] # Idle => <<u, active[u].id>> \in strayed'
  BY DEF InviteSent, registryVars, netVars
<1>3. \A j \in Call : (Live(j)' => Live(j)) /\ (Unserved(j)' => Unserved(j))
  BY <1>2 DEF Live, Unserved, Asked
<1>4. ASSUME NEW v \in User, NEW j \in Call
      PROVE  /\ active[v].id = j => active'[v].id = j \/ Excused(v, j)'
             /\ j \in Range(starting[v]) => j \in Range(starting'[v]) \/ active'[v].id = j
             /\ Told(v, "call_invite", j) => Told(v, "call_invite", j)'
  <2>1. active[v].id = j => active[v] # Idle BY Showing
  <2>2. CASE v = u BY <1>1, <1>2, <2>1, <2>2 DEF Excused, Told
  <2>3. CASE v # u BY <1>1, <1>2, <2>3 DEF Told
  <2> QED BY <2>2, <2>3
<1> QED BY <1>2, <1>3, <1>4, StaysFound

LEMMA LetGoLive ==
  ASSUME TypeOK, PartiesInv, ClientInv, LiveInv, NEW u \in User, LetGo(u)
  PROVE  LiveInv'
<1>1. /\ UNCHANGED <<calls, up, down, party, hidden, torn, starting>>
      /\ strayed \subseteq strayed' /\ ending[u] # None
      /\ active[u].id # ending[u] => <<u, active[u].id>> \in strayed'
  BY DEF LetGo, registryVars, netVars
<1>2. \A v \in User \ {u} : active'[v] = active[v] BY DEF LetGo, TypeOK
<1>3. \A j \in Call : (Live(j)' <=> Live(j)) /\ (Unserved(j)' <=> Unserved(j))
  BY <1>1 DEF Live, Unserved, Asked
<1>4. ASSUME NEW j \in Call, active[u].id = j
      PROVE  Excused(u, j)' \/ (~Live(j)' /\ ~Unserved(j)')
  <2>1. CASE j = ending[u]
    BY <1>1, <1>3, <2>1 DEF ClientInv, EndingIsTrue, Excused
  <2>2. CASE j # ending[u] BY <1>1, <1>4, <2>2 DEF Excused
  <2> QED BY <2>1, <2>2
<1>5. \A v \in User, j \in Call :
        /\ active[v].id = j => \/ active'[v].id = j \/ Excused(v, j)'
                               \/ (~Live(j)' /\ ~Unserved(j)')
        /\ j \in Range(starting[v]) => j \in Range(starting'[v])
        /\ Told(v, "call_invite", j) => Told(v, "call_invite", j)'
  BY <1>1, <1>2, <1>4 DEF Told
<1> QED BY <1>1, <1>3, <1>5, StaysFound

LEMMA ReceiveLive ==
  ASSUME TypeOK, PartiesInv, FlowInv, ClientInv, LiveInv, NEW u \in User, Receive(u)
  PROVE  LiveInv'
<1>1. PICK m \in Event :
           /\ m \in Range(down[u]) /\ Range(down[u]) = {m} \cup Range(down'[u])
           /\ \A v \in User \ {u} : down'[v] = down[v]
           /\ \A v \in User : Range(down'[v]) \subseteq Range(down[v])
           /\ \A x, y : NoneAfter(down[u], x, y) /\ m = x => y \notin Range(down'[u])
           /\ UNCHANGED <<calls, starting, up, hidden, party, torn>>
           /\ ending[u] = None /\ Others(u)
           /\ \A v \in User, j \in Call : j \in prompt'[v] =>
                j \in prompt[v] \/ (v = u /\ m = Inviting(j) /\ u # Caller(j))
           /\ \/ Passes(u, m)
              \/ \E k \in Call : \/ Prompted(u, m, k) \/ Alerted(u, m, k)
                                 \/ Answered(u, m, k) \/ Forgotten(u, m, k)
                                 \/ Finished(u, m, k)
  BY ReceiveEffect
<1>2. strayed \subseteq strayed' BY <1>1 DEF Others
<1>3. \A j \in Call : (Live(j)' <=> Live(j)) /\ (Unserved(j)' <=> Unserved(j))
  BY <1>1 DEF Live, Unserved, Asked
<1>a. \A k, d, s : Now(k, d, s).id = k BY DEF Now
\* a call that is forgotten was answered by another client of its user: the
\* answers of this one are known, but for those that count as torn
<1>4. ASSUME NEW k \in Call, Forgotten(u, m, k) PROVE Excused(u, k)'
  <2>1. Told(u, "call_accept", k) BY <1>1, <1>4 DEF Forgotten, Told, Accepting
  <2>2. active[u].dir = "in" BY <1>4, Showing DEF Forgotten, Call1
  <2>3. active[u].status \notin Terminal
    BY <1>1, <1>4, NoneIsNoCall DEF Forgotten, ClientInv, TerminalEnds
  <2>4. <<u, k>> \in torn
    BY <1>4, <2>1, <2>2, <2>3 DEF Forgotten, ClientInv, AcceptIsAwaited
  <2> QED BY <1>1, <2>4 DEF Excused
<1>5. ASSUME NEW v \in User, NEW j \in Call, active[v].id = j
      PROVE  active'[v].id = j \/ Excused(v, j)'
  <2>1. CASE v # u BY <1>1, <1>5, <2>1 DEF Others, Keeps
  <2>2. CASE v = u /\ Passes(u, m) BY <1>5, <2>2 DEF Passes, Keeps
  <2>3. ASSUME v = u, NEW k \in Call, Prompted(u, m, k) PROVE FALSE
    BY <1>5, <2>3, Showing DEF Prompted
  <2>4. ASSUME v = u, NEW k \in Call,
               Alerted(u, m, k) \/ Answered(u, m, k) \/ Finished(u, m, k)
        PROVE  active'[v].id = j
    BY <1>5, <1>a, <2>4 DEF Alerted, Answered, Finished
  <2>5. ASSUME v = u, NEW k \in Call, Forgotten(u, m, k) PROVE Excused(v, j)'
    BY <1>4, <1>5, <2>5 DEF Forgotten
  <2> QED BY <1>1, <2>1, <2>2, <2>3, <2>4, <2>5
<1>6. ASSUME NEW v \in User, NEW j \in Call, v = Callee(j), Told(v, "call_invite", j)
      PROVE  Told(v, "call_invite", j)' \/ active'[v].id = j \/ Excused(v, j)'
  <2>1. CASE ~(v = u /\ m = Inviting(j)) BY <1>1, <1>6, <2>1 DEF Told, Inviting
  <2>2. CASE v = u /\ m = Inviting(j)
    <3>1. u # Caller(j)
      <4>1. Started(j) BY <1>6, Forms DEF PartiesInv, DownNamed, Told, Between
      <4> QED BY <1>6, <2>2, <4>1, BothUsers DEF PartiesInv
    <3>2. CASE Passes(u, m) BY <2>2, <3>1, <3>2 DEF Passes, Excused
    <3>3. ASSUME NEW k \in Call, Prompted(u, m, k) PROVE active'[v].id = j
      BY <1>a, <2>2, <3>3, Forms DEF Prompted, Inviting
    <3>4. ASSUME NEW k \in Call,
                 \/ Alerted(u, m, k) \/ Answered(u, m, k) \/ Forgotten(u, m, k)
                 \/ Finished(u, m, k)
          PROVE  FALSE
      BY <2>2, <3>4, Forms
      DEF Alerted, Answered, Forgotten, Finished, IsEnd, Inviting, Accepting
    <3> QED BY <1>1, <3>2, <3>3, <3>4
  <2> QED BY <2>1, <2>2
<1> QED BY <1>1, <1>2, <1>3, <1>5, <1>6, StaysFound

LEMMA ServerLive ==
  ASSUME TypeOK, PartiesInv, FlowInv, LiveInv, NEW k \in Call, NEW S \in SUBSET User,
         NEW m \in Event, TellsTruly(k, S, m), UNCHANGED <<clientVars, strayed>>
  PROVE  LiveInv'
<1>1. /\ UNCHANGED <<active, starting, hidden, party, strayed>>
      /\ m.call = k /\ Tells(S, m) /\ torn \subseteq torn'
  BY DEF TellsTruly, clientVars, Tells
<1>2. ASSUME NEW v \in User PROVE Range(up'[v]) \subseteq Range(up[v])
  <2>1. up[v] \in Seq(Request) BY DEF TypeOK
  <2>2. CASE up[v] # <<>> /\ up'[v] = Tail(up[v]) BY <2>1, <2>2, Headed
  <2> QED BY <2>2 DEF TellsTruly, TakesUp
<1>3. \A j \in Call : Unserved(j)' => Unserved(j) BY <1>2 DEF Unserved, Asked
<1>4. \A v \in User, j \in Call : \A a : Told(v, a, j) => Told(v, a, j)'
  BY <1>1 DEF Told, Tells
<1>5. \A j \in Call : j # k => (Live(j)' <=> Live(j)) BY DEF TellsTruly, Live
<1>6. \A j \in Call : /\ Caller(j)' = Caller(j) /\ Callee(j)' = Callee(j)
                      /\ (Started(j)' <=> Started(j)) /\ Both(j)' = Both(j)
  BY <1>1 DEF Caller, Callee, Started, Both
<1>7. ASSUME NEW j \in Call, Live(j) \/ Unserved(j)
      PROVE  Caller(j) \in User /\ Callee(j) \in User /\ Callee(j) \in Both(j)
  <2>1. Started(j) BY <1>7, Forms DEF PartiesInv, LiveNamed, UpNamed, Unserved, Asked, Between
  <2> QED BY <2>1, BothUsers DEF PartiesInv
<1>8. CallerInv'
  <2> SUFFICES ASSUME NEW j \in Call, Live(j)' \/ Unserved(j)'
               PROVE  (\/ active[Caller(j)].id = j \/ j \in Range(starting[Caller(j)])
                       \/ Excused(Caller(j), j))'
    BY DEF CallerInv
  <2>1. Live(j) \/ Unserved(j) BY <1>3, <1>5 DEF TellsTruly
  <2> QED BY <1>1, <1>6, <1>7, <2>1 DEF LiveInv, CallerInv, Excused
<1>9. CalleeInv'
  <2> SUFFICES ASSUME NEW j \in Call, Live(j)'
               PROVE  (\/ active[Callee(j)].id = j \/ Told(Callee(j), "call_invite", j)
                       \/ Excused(Callee(j), j))'
    BY DEF CalleeInv
  <2>1. CASE Live(j)
    BY <1>1, <1>4, <1>6, <1>7, <2>1 DEF LiveInv, CalleeInv, Excused, Told
  <2>2. CASE ~Live(j)
    <3>1. j = k /\ Unserved(k) /\ m = Inviting(k) /\ S = Both(k)
      BY <1>5, <2>2 DEF TellsTruly
    <3>2. Callee(k) \in S BY <1>7, <3>1
    <3>3. m \in Range(down'[Callee(k)]) \/ <<Callee(k), k>> \in torn'
      BY <1>1, <3>2 DEF Tells
    <3> QED BY <1>6, <3>1, <3>3 DEF Told, Inviting, Excused
  <2> QED BY <2>1, <2>2
<1> QED BY <1>8, <1>9 DEF LiveInv

LEMMA StillLive ==
  ASSUME TypeOK, PartiesInv, LiveInv,
         \/ \E u \in User : InviteFails(u) \/ AsksSomething(u) \/ Drop(u) \/ Reconnect(u)
         \/ \E k \in Call : Hide(k)
         \/ UNCHANGED vars
  PROVE  LiveInv'
<1> USE DEF registryVars, clientVars, netVars, historyVars
<1> DEFINE Same ==
      /\ UNCHANGED <<calls, active, party, strayed>> /\ torn \subseteq torn'
      /\ hidden \subseteq hidden'
      /\ \A k \in Call : Unserved(k)' => Unserved(k)
      /\ \A v \in User, k \in Call :
           /\ k \in Range(starting[v]) => k \in Range(starting'[v]) \/ Excused(v, k)'
           /\ Told(v, "call_invite", k) => Told(v, "call_invite", k)' \/ Excused(v, k)'
<1>1. ASSUME Same PROVE LiveInv'
  <2>1. \A k \in Call : Live(k)' => Live(k) BY <1>1 DEF Live
  <2> QED BY <1>1, <2>1, StaysFound
<1>2. ASSUME NEW u \in User, InviteFails(u) PROVE Same
  <2>1. /\ UNCHANGED <<calls, active, party, strayed, up, down, hidden>>
        /\ torn' = torn \cup {<<u, Head(starting[u])>>}
        /\ starting[u] # <<>> /\ starting' = [starting EXCEPT ![u] = Tail(@)]
    BY <1>2 DEF InviteFails
  <2>2. /\ starting'[u] = Tail(starting[u]) /\ \A v \in User \ {u} : starting'[v] = starting[v]
        /\ Range(starting[u]) = {Head(starting[u])} \cup Range(Tail(starting[u]))
    BY <2>1, Headed DEF TypeOK
  <2> QED BY <2>1, <2>2 DEF Unserved, Asked, Told, Excused
<1>3. ASSUME NEW u \in User, AsksSomething(u) PROVE Same
  <2>1. UNCHANGED <<calls, active, party, strayed, starting, down, hidden>>
    BY <1>3, AsksForms DEF Calm
  <2>2. CASE AskNothing BY <2>1, <2>2 DEF AskNothing, Unserved, Asked, Told
  <2>3. ASSUME NEW k \in Call, NEW kind \in Kinds, AsksFor(u, kind, k) PROVE Same
    <3>1. /\ Grows(u, Plain(kind, k)) /\ torn \subseteq torn' /\ kind # "call_invite"
      BY <2>3, AskEffect DEF AsksFor
    <3>2. \A w \in User : Range(up'[w]) \subseteq Range(up[w]) \cup {Plain(kind, k)}
      BY <3>1, RequestType, GrowsRange
    <3>3. \A j : Plain("call_invite", j) # Plain(kind, k) BY <3>1, Forms
    <3>4. \A j \in Call : Unserved(j)' => Unserved(j)
      BY <3>2, <3>3 DEF Unserved, Asked
    <3> QED BY <2>1, <3>1, <3>4 DEF Told
  <2> QED BY <1>3, <2>2, <2>3, AsksForms
<1>4. ASSUME NEW u \in User, Drop(u) PROVE Same
  <2>1. UNCHANGED <<calls, active, party, strayed, starting, hidden>> BY <1>4 DEF Drop
  <2>2. /\ up'[u] = <<>> /\ down'[u] = <<>> /\ torn \subseteq torn'
        /\ \A v \in User \ {u} : up'[v] = up[v] /\ down'[v] = down[v]
        /\ \A m \in Range(down[u]) : <<u, m.call>> \in torn'
    BY <1>4, DropEffect
  <2>3. \A j \in Call : Unserved(j)' => Unserved(j)
    BY <2>2, NothingIn DEF Unserved, Asked
  <2>4. \A v \in User, k \in Call :
          Told(v, "call_invite", k) => Told(v, "call_invite", k)' \/ Excused(v, k)'
    BY <2>2, Forms DEF Told, Excused
  <2> QED BY <2>1, <2>2, <2>3, <2>4
<1>5. ASSUME NEW u \in User, Reconnect(u) PROVE Same
  BY <1>5 DEF Reconnect, Unserved, Asked, Told
<1>6. ASSUME NEW k \in Call, Hide(k) PROVE Same
  BY <1>6 DEF Hide, Unserved, Asked, Told
<1>7. CASE UNCHANGED vars BY <1>1, <1>7 DEF vars, Unserved, Asked, Told
<1> QED BY <1>1, <1>2, <1>3, <1>4, <1>5, <1>6, <1>7

LEMMA NextLive ==
  ASSUME TypeOK, PartiesInv, FlowInv, ClientInv, LiveInv, [Next]_vars
  PROVE  LiveInv'
<1>1. ASSUME NEW u \in User, Serve(u) PROVE LiveInv'
  <2>1. UNCHANGED <<clientVars, strayed>> BY <1>1 DEF Serve
  <2> QED BY <1>1, <2>1, ServeTruly, ServerLive
<1>2. ASSUME NEW u \in User, Leave(u) PROVE LiveInv'
  <2>1. UNCHANGED <<up, hidden, party>> /\ UNCHANGED <<clientVars, strayed>>
    BY <1>2 DEF Leave
  <2>2. CASE UNCHANGED <<calls, down, torn>>
    <3>1. \A k \in Call : (Live(k)' => Live(k)) /\ (Unserved(k)' => Unserved(k))
      BY <2>1, <2>2 DEF Live, Unserved, Asked
    <3>2. \A v \in User, k \in Call : Told(v, "call_invite", k) => Told(v, "call_invite", k)'
      BY <2>2 DEF Told
    <3> QED BY <2>1, <2>2, <3>1, <3>2, StaysFound DEF clientVars
  <2> QED BY <1>2, <2>1, <2>2, LeaveTruly, ServerLive
<1>3. CASE Next
  BY <1>1, <1>2, <1>3, StartLive, SentLive, ReceiveLive, LetGoLive, StillLive
  DEF Next, UserStep, ClientStep, AsksSomething
<1>4. CASE UNCHANGED vars BY <1>4, StillLive
<1> QED BY <1>3, <1>4

-----------------------------------------------------------------------------
(* The properties.                                                         *)

LEMMA Invariance == Spec => []IInv
<1>1. Init => IInv
  BY InitTypes, InitParties, InitFlow, InitClient, InitShown, InitLive DEF IInv, LiveInv
<1>2. IInv /\ [Next]_vars => IInv'
  BY NextTypes, NextParties, NextFlow, NextClient, NextShown, NextLive DEF IInv, LiveInv
<1> QED BY <1>1, <1>2, PTL DEF Spec

\* nothing is on the way any more
LEMMA SettledTells ==
  ASSUME Settled, NEW u \in User
  PROVE  /\ \A kind, k : ~Asked(u, kind, k) /\ ~Told(u, kind, k) /\ ~Refused(u, kind, k)
         /\ \A k : ~EndTold(u, k) /\ ~HangupDue(u, k) /\ k \notin Range(starting[u])
         /\ ending[u] = None
BY NothingIn DEF Settled, Asked, Told, Refused, EndTold, HangupDue

\* the users of a call the server has
LEMMA LiveParties ==
  ASSUME TypeOK, PartiesInv, NEW k \in Call, Live(k)
  PROVE  /\ Parties(k) = Both(k) /\ Both(k) = {Caller(k), Callee(k)}
         /\ Caller(k) \in User /\ Callee(k) \in User
BY BothUsers DEF PartiesInv, LiveNamed, Parties

\* Once nothing is on the way, a call that a client shows is one the server
\* has, with this user in it, and both agree whether it has been answered:
\* but for a call a message of which was lost, one that is hidden, and one
\* whose unanswered-timer still runs.
THEOREM ShownAreLive == Spec => []ShownCallsAreLive
<1>1. IInv => ShownCallsAreLive
  <2> SUFFICES ASSUME IInv, Settled, NEW u \in User, active[u] # Idle,
                      <<u, active[u].id>> \notin torn, active[u].id \notin hidden,
                      timer[u] # active[u].id
               PROVE  /\ Live(active[u].id) /\ u \in Parties(active[u].id)
                      /\ (active[u].status = "accepted"
                            <=> calls[active[u].id].status = "accepted")
    BY Zenon DEF ShownCallsAreLive
  <2>1. TypeOK /\ PartiesInv /\ ShownInv BY DEF IInv
  <2>2. PICK k \in Call : active[u].id = k BY <2>1, Showing
  <2>3. Justified(u, k) BY <2>1, <2>2 DEF ShownInv
  <2>4. Live(k) /\ Agrees(u, k)
    BY <2>2, <2>3, SettledTells, NoneIsNoCall DEF Justified
  <2>5. u \in Parties(k)
    BY <2>1, <2>2, <2>4, LiveParties DEF PartiesInv, ActiveNamed, Between
  <2> QED BY <2>2, <2>4, <2>5, SettledTells DEF Agrees
<1> QED BY <1>1, Invariance, PTL

\* Once nothing is on the way, both users of a call the server has are shown
\* it, but for a call a message of which was lost, one that is hidden, and
\* one its client passed over, replaced or let go.
THEOREM LiveAreShown == Spec => []LiveCallsAreShown
<1>1. IInv => LiveCallsAreShown
  <2> SUFFICES ASSUME IInv, Settled, NEW k \in Call, Live(k), NEW u \in Parties(k)
               PROVE  active[u].id = k \/ <<u, k>> \in torn \cup strayed \/ k \in hidden
    BY DEF LiveCallsAreShown
  <2>1. TypeOK /\ PartiesInv /\ CallerInv /\ CalleeInv BY DEF IInv
  <2>2. u \in {Caller(k), Callee(k)} /\ u \in User BY <2>1, LiveParties
  <2>3. CASE u = Caller(k)
    BY <2>1, <2>2, <2>3, SettledTells DEF CallerInv, Excused
  <2>4. CASE u = Callee(k)
    BY <2>1, <2>2, <2>4, SettledTells DEF CalleeInv, Excused
  <2> QED BY <2>2, <2>3, <2>4
<1> QED BY <1>1, Invariance, PTL

\* Once nothing is on the way and no timer runs, no call the server has is
\* unanswered: but for a hidden one, and one its caller replaced, let go or
\* lost a message of.
THEOREM UnansweredEnd == Spec => []UnansweredCallsEnd
<1>1. IInv => UnansweredCallsEnd
  <2> SUFFICES ASSUME IInv, Settled, \A u \in User : timer[u] = None,
                      NEW k \in Call, Live(k), calls[k].status # "accepted", k \notin hidden,
                      <<Caller(k), k>> \notin torn \cup strayed
               PROVE  FALSE
    BY DEF UnansweredCallsEnd, Caller
  <2> DEFINE u == Caller(k)
  <2>1. TypeOK /\ PartiesInv /\ CallerInv /\ ShownInv BY DEF IInv
  <2>2. u \in User BY <2>1, LiveParties
  <2>3. active[u].id = k BY <2>1, <2>2, SettledTells DEF CallerInv, Excused
  <2>4. Justified(u, k) BY <2>1, <2>2, <2>3 DEF ShownInv
  <2>5. Agrees(u, k) BY <2>2, <2>4, SettledTells, NoneIsNoCall DEF Justified
  <2>6. active[u].dir = "out"
    BY <2>1, <2>2, <2>3, Showing DEF PartiesInv, ActiveNamed
  <2> QED BY <2>5, <2>6 DEF Agrees
<1> QED BY <1>1, Invariance, PTL
=============================================================================
