------------------------- MODULE SessionListProofs -------------------------
(***************************************************************************)
(* Proofs about SessionList, for any users, requests, groups and bounds:   *)
(* its types; of the server's part, that groups stay intact, blocked users *)
(* are strangers, friends have agreed, and a pair has one open request;    *)
(* and that the client's list converges.                                   *)
(*                                                                         *)
(* First, every step of SessionList is an operation of Social, one of      *)
(* Groups, both, or none; then each operation preserves the invariant of   *)
(* its module.  The invariant of Social adds one thing to the properties:  *)
(* who made a request that may still be accepted is willing.               *)
(*                                                                         *)
(* The last and longest part is Converges.  As long as nothing has         *)
(* drifted, a session that is listed and gone is Leaving, one that is      *)
(* there and not listed is Coming: it is due from the server, being        *)
(* introduced, or in a list that is on its way (ListInv).  This needs what *)
(* the network may hold (BaseInv), and an account of what an answer that   *)
(* is not stored yet may lack (AnswersLeave, ListsCome).                   *)
(***************************************************************************)
EXTENDS SessionList, FiniteSetTheorems, TLAPS

SocialStep ==
  \/ \E u, v \in User : \/ AskFriend(u, v) \/ Unfriend(u, v) \/ BlockUser(u, v)
                        \/ UnblockUser(u, v) \/ OpenDirect(u, v)
  \/ \E r \in requests : Accept(r) \/ Reject(r) \/ AnswerTooLate(r) \/ Age(r)

GroupsStep ==
  \E g \in Group :
    \/ \E u \in User, M \in SUBSET User : CreateGroup(u, g, M)
    \/ \E u, v \in User :
         \/ AddMember(u, g, v) \/ RemoveMember(u, g, v) \/ TransferOwnership(u, g, v)
         \/ \E role \in Role : UpdateRole(u, g, v, role)
    \/ \E u \in User : DeleteGroup(u, g)

-----------------------------------------------------------------------------
(* What the user leaves is a group: jobs keep their fields and sessions.   *)

IsJob(j) ==
  /\ j \in [do : {j.do}, session : {j.session}, n : {j.n}, st : {j.st}, ids : {j.ids},
            said : {j.said}, passed : {j.passed}]
  /\ j.do = "leave" => j.session \in Group

Jobs(J) == J = [slot \in Slot |-> J[slot]] /\ \A slot \in Slot : IsJob(J[slot])

Intros == \A i \in todo \cup held : i.why # "leave"

JobInv == Jobs(job) /\ Intros

LEMMA NewJobs ==
  /\ IsJob(NoJob)
  /\ \A do, s, n : (do = "leave" => s \in Group) => IsJob(Job(do, s, n))
<1>1. IsJob(NoJob) BY DEF IsJob, NoJob
<1>2. ASSUME NEW do, NEW s, NEW n, do = "leave" => s \in Group PROVE IsJob(Job(do, s, n))
  <2>1. Job(do, s, n) \in [do : {do}, session : {s}, n : {n}, st : {"asked"}, ids : {{}},
                          said : {NoJob.said}, passed : {FALSE}]
    BY DEF Job, NoJob
  <2> QED BY <1>2, <2>1 DEF IsJob
<1> QED BY <1>1, <1>2

LEMMA ChangedJobs ==
  ASSUME NEW j, IsJob(j), NEW x, NEW y, NEW z
  PROVE  /\ IsJob([j EXCEPT !.st = x])
         /\ IsJob([j EXCEPT !.passed = x])
         /\ IsJob([j EXCEPT !.st = x, !.ids = y, !.said = z])
<1>1. [j EXCEPT !.st = x] \in
        [do : {j.do}, session : {j.session}, n : {j.n}, st : {x}, ids : {j.ids},
         said : {j.said}, passed : {j.passed}]
  BY DEF IsJob
<1>2. [j EXCEPT !.passed = x] \in
        [do : {j.do}, session : {j.session}, n : {j.n}, st : {j.st}, ids : {j.ids},
         said : {j.said}, passed : {x}]
  BY DEF IsJob
<1>3. [j EXCEPT !.st = x, !.ids = y, !.said = z] \in
        [do : {j.do}, session : {j.session}, n : {j.n}, st : {x}, ids : {y},
         said : {z}, passed : {j.passed}]
  BY DEF IsJob
<1> QED BY <1>1, <1>2, <1>3 DEF IsJob

LEMMA OneJob ==
  ASSUME NEW J, Jobs(J), NEW slot \in Slot, NEW j, IsJob(j)
  PROVE  Jobs([J EXCEPT ![slot] = j])
BY DEF Jobs

LEMMA PassingJobs ==
  ASSUME NEW J, Jobs(J) PROVE Jobs(Passing(J))
<1>1. "ui" \in Slot BY DEF Slot
<1>2. \A x : IsJob([J["ui"] EXCEPT !.passed = x]) BY <1>1, ChangedJobs DEF Jobs
<1> QED BY <1>1, <1>2, OneJob DEF Passing

LEMMA JobStep ==
  ASSUME JobInv, [Next]_vars PROVE Jobs(job)'
<1>0. Jobs(job) BY DEF JobInv
<1>a. "inbox" \in Slot /\ "ui" \in Slot BY DEF Slot
<1>b. ASSUME UNCHANGED job PROVE Jobs(job)' BY <1>0, <1>b
<1>c. ASSUME NEW slot \in Slot, NEW do, NEW s, NEW n, do = "leave" => s \in Group,
             job' = [job EXCEPT ![slot] = Job(do, s, n)]
      PROVE  Jobs(job)'
  BY <1>0, <1>c, OneJob, NewJobs
<1>d. ASSUME NEW slot \in Slot PROVE Jobs([job EXCEPT ![slot] = NoJob])
  BY <1>0, OneJob, NewJobs
<1>1. CASE Server \/ Net BY <1>1, <1>b DEF Server, Net, Send, Connect, Break, AnswerSync, clientVars
<1>2. CASE AskSync BY <1>2, <1>b DEF AskSync, clientVars
<1>3. CASE Take
  <2>1. IsJob(Job("list", Chat, 0)) BY NewJobs
  <2>2. job' = Passing([job EXCEPT !["inbox"] = Job("list", Chat, 0)]) \/ job' = Passing(job)
    BY <1>3 DEF Take
  <2> QED BY <1>0, <1>a, <2>1, <2>2, OneJob, PassingJobs
<1>4. ASSUME NEW i \in todo, Introduce(i) PROVE Jobs(job)'
  <2>1. IsJob(Job("join", i.session, i.n)) BY NewJobs
  <2>2. IsJob(Job(i.why, i.session, i.n)) BY <1>4, NewJobs DEF JobInv, Intros
  <2> QED BY <1>0, <1>4, <1>a, <2>1, <2>2, OneJob, PassingJobs DEF Introduce
<1>e. ASSUME NEW slot \in Slot, NEW ids, Answered(slot, ids) \/ Failed(slot) PROVE Jobs(job)'
  <2>1. \A x, y, z : IsJob([job[slot] EXCEPT !.st = x])
                     /\ IsJob([job[slot] EXCEPT !.st = x, !.ids = y, !.said = z])
    BY <1>0, ChangedJobs DEF Jobs
  <2>2. CASE Failed(slot)
    BY <1>0, <2>1, <2>2, OneJob DEF Failed
  <2>3. CASE Answered(slot, ids)
    <3>1. job' = [job EXCEPT ![slot] = [job[slot] EXCEPT !.st = "answered", !.ids = ids,
                                                         !.said = Within(said, ids)]]
      BY <1>0, <2>3 DEF Answered, Jobs
    <3> QED BY <1>0, <2>1, <3>1, OneJob
  <2> QED BY <1>e, <2>2, <2>3
<1>5. CASE Http
  <2>1. ASSUME NEW slot \in Slot, ServeList(slot) \/ ServeFetch(slot) \/ FailHttp(slot)
        PROVE  Jobs(job)'
    BY <1>e, <2>1 DEF ServeList, ServeFetch, FailHttp
  <2>2. CASE ServeOpen \/ ServeLeave BY <1>a, <1>e, <2>2 DEF ServeOpen, ServeLeave
  <2> QED BY <1>5, <2>1, <2>2 DEF Http
<1>f. ASSUME NEW slot \in Slot, Over(slot) PROVE Jobs(job)'
  <2> DEFINE rest == [job EXCEPT ![slot] = NoJob]
  <2>1. Jobs(rest) BY <1>d
  <2>2. job' \in {Passing(rest), rest, [rest EXCEPT !["inbox"] = NoJob]} BY <1>f DEF Over
  <2> HIDE DEF rest
  <2> QED BY <1>a, <2>1, <2>2, OneJob, PassingJobs, NewJobs
<1>g. ASSUME NEW s, Hide(s) PROVE Jobs(job)'
  <2> DEFINE j == IF job["inbox"].do = "message" /\ job["inbox"].session = s
                  THEN NoJob ELSE job["inbox"]
  <2>1. IsJob(j) BY <1>0, <1>a, NewJobs DEF Jobs
  <2>2. job' = [[job EXCEPT !["ui"] = NoJob] EXCEPT !["inbox"] = j]
    BY <1>0, <1>a, <1>g DEF Hide, Jobs
  <2> HIDE DEF j
  <2> QED BY <1>a, <1>d, <2>1, <2>2, OneJob
<1>6. CASE Store
  BY <1>6, <1>a, <1>f, <1>g DEF Store, StoreList, StoreEvent, StoreMessage, StoreOpen, StoreLeave
<1>7. CASE Restart
  <2>1. job' = [slot \in Slot |-> NoJob] BY <1>7 DEF Restart
  <2> QED BY <2>1, NewJobs DEF Jobs
<1>8. CASE UserStep /\ ~Restart
  BY <1>8, <1>a, <1>c, <1>g
  DEF UserStep, Start, RefreshList, OpenSession, Leave, HideSession, Asks, Begins
<1>9. CASE UNCHANGED vars BY <1>9, <1>b DEF vars, clientVars
<1> QED BY <1>1, <1>2, <1>3, <1>4, <1>5, <1>6, <1>7, <1>8, <1>9 DEF Next, Inbox

LEMMA IntroStep ==
  ASSUME Intros, [Next]_vars PROVE Intros'
<1>1. CASE Take BY <1>1 DEF Take, Intros
<1>2. CASE \E i \in todo : Introduce(i) BY <1>2 DEF Introduce, Intros
<1>3. ASSUME NEW s, Hide(s) PROVE Intros' BY <1>3 DEF Hide, Intros
<1>4. CASE AskSync \/ Server \/ Net
  BY <1>4 DEF AskSync, Server, Net, Send, Connect, Break, AnswerSync, clientVars, Intros
<1>5. CASE Http
  BY <1>5 DEF Http, ServeList, ServeFetch, ServeOpen, ServeLeave, FailHttp, Serving, Intros
<1>6. CASE Store
  BY <1>6, <1>3 DEF Store, StoreList, StoreEvent, StoreMessage, StoreOpen, StoreLeave, Over,
                    Intros
<1>7. CASE UserStep
  BY <1>7, <1>3 DEF UserStep, Start, RefreshList, OpenSession, Leave, HideSession, Restart,
                    Asks, Begins, Intros
<1>8. CASE UNCHANGED vars BY <1>8 DEF vars, clientVars, Intros
<1> QED BY <1>1, <1>2, <1>4, <1>5, <1>6, <1>7, <1>8 DEF Next, Inbox

-----------------------------------------------------------------------------
(* Steps and operations.                                                   *)

LEMMA StepsAreOperations ==
  ASSUME JobInv, [Next]_vars
  PROVE  /\ SocialStep \/ UNCHANGED socialVars
         /\ GroupsStep \/ UNCHANGED groupVars
<1> USE TwoUsers
<1> DEFINE Fine == /\ SocialStep \/ UNCHANGED socialVars
                   /\ GroupsStep \/ UNCHANGED groupVars
<1>1. CASE Befriend BY <1>1 DEF Befriend, SocialStep
<1>2. CASE Blocking BY <1>2 DEF Blocking, SocialStep
<1>3. CASE OpenChat BY <1>3 DEF OpenChat, SocialStep
<1>4. ASSUME NEW g \in Group, ChangeGroup(g) PROVE Fine
  BY <1>4 DEF ChangeGroup, Publish, GroupsStep
<1>5. ASSUME NEW g \in Group, EndGroup(g) PROVE Fine
  BY <1>5 DEF EndGroup, GroupsStep
<1>6. ASSUME NEW g \in Group, LeaveGroup(g) PROVE Fine
  BY <1>6 DEF LeaveGroup, Publish, GroupsStep
<1>7. ASSUME NEW s \in Session, Write(s) PROVE Fine BY <1>7 DEF Write
<1>8. CASE Server BY <1>1, <1>2, <1>3, <1>4, <1>5, <1>7, <1>8 DEF Server
<1>9. CASE Net BY <1>9 DEF Net, Send, Connect, Break, AnswerSync, serverVars
<1>10. CASE Inbox BY <1>10 DEF Inbox, AskSync, Take, Introduce, serverVars
<1>11. ASSUME NEW slot \in Slot, ServeList(slot) \/ ServeFetch(slot) \/ FailHttp(slot)
       PROVE  Fine
  BY <1>11 DEF ServeList, ServeFetch, FailHttp, serverVars
<1>12. CASE ServeOpen
  <2>1. OpenDirect(Me, Peer) \/ UNCHANGED socialVars BY <1>12 DEF ServeOpen
  <2> QED BY <1>12, <2>1 DEF ServeOpen, SocialStep
<1>13. CASE ServeLeave
  <2>1. CASE Me \notin members[job["ui"].session]
    BY <1>13, <2>1 DEF ServeLeave, serverVars
  <2>2. CASE Me \in members[job["ui"].session]
    <3>1. EndGroup(job["ui"].session) \/ LeaveGroup(job["ui"].session)
      BY <1>13, <2>2 DEF ServeLeave
    <3>2. job["ui"].session \in Group BY <1>13 DEF ServeLeave, JobInv, Jobs, IsJob, Slot
    <3> QED BY <1>5, <1>6, <3>1, <3>2
  <2> QED BY <2>1, <2>2
<1>14. CASE Http BY <1>11, <1>12, <1>13, <1>14 DEF Http
<1>15. CASE Store
  BY <1>15 DEF Store, StoreList, StoreEvent, StoreMessage, StoreOpen, StoreLeave, Hide,
               Over, serverVars
<1>16. CASE UserStep
  BY <1>16 DEF UserStep, Start, RefreshList, OpenSession, Leave, HideSession, Restart,
               Asks, Begins, Hide, serverVars
<1>17. CASE UNCHANGED vars BY <1>17 DEF vars, serverVars
<1> QED BY <1>8, <1>9, <1>10, <1>14, <1>15, <1>16, <1>17 DEF Next

-----------------------------------------------------------------------------
(* Groups.                                                                 *)

GroupsInv == GroupsTypeOK /\ GroupsIntact

LEMMA GroupsInvStep ==
  ASSUME GroupsInv, GroupsStep PROVE GroupsInv'
<1> USE NoneOwnsNothing
<1>0. /\ created \subseteq Group /\ owner \in [Group -> User \cup {None}]
      /\ roles \in [Group -> [User -> Role]] /\ members \in [Group -> SUBSET User]
  BY DEF GroupsInv, GroupsTypeOK
<1>1. \A g \in Group :
        /\ \A u \in User : roles[g][u] = "owner" <=> owner[g] = u
        /\ members[g] = {u \in User : roles[g][u] # "none"}
        /\ owner[g] = None => members[g] = {}
  BY DEF GroupsInv, GroupsIntact
<1> DEFINE Intact(g, own, rol, mem) ==
      /\ own \in User \cup {None} /\ rol \in [User -> Role] /\ mem \in SUBSET User
      /\ \A u \in User : rol[u] = "owner" <=> own = u
      /\ mem = {u \in User : rol[u] # "none"}
      /\ own = None => mem = {}
\* one group is changed
<1>a. ASSUME NEW g \in Group, NEW own, NEW rol, NEW mem, Intact(g, own, rol, mem),
             created' \subseteq Group, owner' = [owner EXCEPT ![g] = own],
             roles' = [roles EXCEPT ![g] = rol], members' = [members EXCEPT ![g] = mem]
      PROVE  GroupsInv'
  <2>1. \A h \in Group : /\ owner'[h] = (IF h = g THEN own ELSE owner[h])
                         /\ roles'[h] = (IF h = g THEN rol ELSE roles[h])
                         /\ members'[h] = (IF h = g THEN mem ELSE members[h])
    BY <1>0, <1>a
  <2>2. GroupsTypeOK' BY <1>0, <1>a DEF GroupsTypeOK
  <2>3. GroupsIntact'
    <3> SUFFICES ASSUME NEW h \in Group
                 PROVE  /\ \A u \in User : roles'[h][u] = "owner" <=> owner'[h] = u
                        /\ members'[h] = {u \in User : roles'[h][u] # "none"}
                        /\ owner'[h] = None => members'[h] = {}
      BY DEF GroupsIntact
    <3>1. CASE h = g
      <4>1. owner'[h] = own /\ roles'[h] = rol /\ members'[h] = mem BY <2>1, <3>1
      <4> QED BY <1>a, <4>1
    <3>2. CASE h # g
      <4>1. owner'[h] = owner[h] /\ roles'[h] = roles[h] /\ members'[h] = members[h]
        BY <2>1, <3>2
      <4> QED BY <1>1, <4>1
    <3> QED BY <3>1, <3>2
  <2> QED BY <2>2, <2>3 DEF GroupsInv
<1>2. ASSUME NEW g \in Group, NEW u \in User, NEW M \in SUBSET User, CreateGroup(u, g, M)
      PROVE  GroupsInv'
  <2> DEFINE rol == [v \in User |-> IF v = u THEN "owner" ELSE IF v \in M THEN "member" ELSE "none"]
  <2>1. Intact(g, u, rol, M \cup {u}) BY DEF Role
  <2> HIDE DEF Intact
  <2> QED BY <1>0, <1>2, <1>a, <2>1 DEF CreateGroup
<1>3. ASSUME NEW g \in Group, NEW u \in User, NEW v \in User, AddMember(u, g, v)
      PROVE  GroupsInv'
  <2> DEFINE rol == [roles[g] EXCEPT ![v] = "member"]
  <2>1. Intact(g, owner[g], rol, members[g] \cup {v})
    BY <1>0, <1>1, <1>3 DEF AddMember, Role
  <2>2. /\ owner' = [owner EXCEPT ![g] = owner[g]] /\ roles' = [roles EXCEPT ![g] = rol]
        /\ members' = [members EXCEPT ![g] = members[g] \cup {v}] /\ created' = created
    BY <1>0, <1>3 DEF AddMember
  <2> HIDE DEF Intact, rol
  <2> QED BY <1>0, <1>a, <2>1, <2>2
<1>4. ASSUME NEW g \in Group, NEW u \in User, NEW v \in User, RemoveMember(u, g, v)
      PROVE  GroupsInv'
  <2> DEFINE rol == [roles[g] EXCEPT ![v] = "none"]
  <2>1. Intact(g, owner[g], rol, members[g] \ {v})
    BY <1>0, <1>1, <1>4 DEF RemoveMember, Role
  <2>2. /\ owner' = [owner EXCEPT ![g] = owner[g]] /\ roles' = [roles EXCEPT ![g] = rol]
        /\ members' = [members EXCEPT ![g] = members[g] \ {v}] /\ created' = created
    BY <1>0, <1>4 DEF RemoveMember
  <2> HIDE DEF Intact, rol
  <2> QED BY <1>0, <1>a, <2>1, <2>2
<1>5. ASSUME NEW g \in Group, NEW u \in User, NEW v \in User, NEW role \in Role,
             UpdateRole(u, g, v, role)
      PROVE  GroupsInv'
  <2> DEFINE rol == [roles[g] EXCEPT ![v] = role]
  <2>1. Intact(g, owner[g], rol, members[g])
    BY <1>0, <1>1, <1>5 DEF UpdateRole, IsMember
  <2>2. /\ owner' = [owner EXCEPT ![g] = owner[g]] /\ roles' = [roles EXCEPT ![g] = rol]
        /\ members' = [members EXCEPT ![g] = members[g]] /\ created' = created
    BY <1>0, <1>5 DEF UpdateRole
  <2> HIDE DEF Intact, rol
  <2> QED BY <1>0, <1>a, <2>1, <2>2
<1>6. ASSUME NEW g \in Group, NEW u \in User, NEW v \in User, TransferOwnership(u, g, v)
      PROVE  GroupsInv'
  <2> DEFINE rol == [roles[g] EXCEPT ![u] = "member", ![v] = "owner"]
  <2>1. \A w \in User : rol[w] = (IF w = v THEN "owner" ELSE IF w = u THEN "member" ELSE roles[g][w])
    BY <1>0
  <2>2. rol \in [User -> Role] BY <1>0 DEF Role
  <2> HIDE DEF rol
  <2>3. Intact(g, v, rol, members[g])
    <3>1. /\ owner[g] = u /\ v # u /\ v \in members[g] /\ roles[g][v] # "none"
          /\ \A w \in User : roles[g][w] = "owner" <=> w = u
          /\ members[g] = {w \in User : roles[g][w] # "none"}
      BY <1>1, <1>6 DEF TransferOwnership, IsMember
    <3>2. \A w \in User : rol[w] = "owner" <=> v = w BY <2>1, <3>1
    <3>3. members[g] = {w \in User : rol[w] # "none"} BY <2>1, <3>1
    <3>4. v # None /\ members[g] \in SUBSET User BY <1>0
    <3> QED BY <2>2, <3>2, <3>3, <3>4
  <2>4. /\ owner' = [owner EXCEPT ![g] = v] /\ roles' = [roles EXCEPT ![g] = rol]
        /\ members' = [members EXCEPT ![g] = members[g]] /\ created' = created
    BY <1>0, <1>6 DEF TransferOwnership, rol
  <2> HIDE DEF Intact
  <2> QED BY <1>0, <1>a, <2>3, <2>4
<1>7. ASSUME NEW g \in Group, NEW u \in User, DeleteGroup(u, g) PROVE GroupsInv'
  <2> DEFINE rol == [v \in User |-> "none"]
  <2>1. Intact(g, None, rol, {}) BY DEF Role
  <2> HIDE DEF Intact
  <2> QED BY <1>0, <1>7, <1>a, <2>1 DEF DeleteGroup
<1> QED BY <1>2, <1>3, <1>4, <1>5, <1>6, <1>7 DEF GroupsStep

-----------------------------------------------------------------------------
(* Friends, requests, blocks.                                              *)

\* who made a request that may still be accepted is willing
Asked == \A r \in requests : Fresh(r) => <<r.from, r.to>> \in willing

SocialInv == /\ SocialTypeOK /\ Asked
             /\ BlockedAreStrangers /\ FriendsAgreed /\ OneOpenRequest

RequestType == [id : Request, from : User, to : User, status : Status, old : BOOLEAN]

\* the invariant without sets of two
Stands(F, R, B, W) ==
  /\ \A r \in R : Fresh(r) => <<r.from, r.to>> \in W
  /\ \A u, v \in User : <<u, v>> \in B => <<u, v>> \notin F /\ <<v, u>> \notin F
  /\ \A r \in R : r.status = "pending" =>
       /\ <<r.from, r.to>> \notin B /\ <<r.to, r.from>> \notin B
       /\ <<r.from, r.to>> \notin F
  /\ \A u, v \in User : <<u, v>> \in F => <<v, u>> \in F /\ <<u, v>> \in W
  /\ \A r, q \in R :
       /\ r.status = "pending" /\ q.status = "pending"
       /\ (r.from = q.from /\ r.to = q.to) \/ (r.from = q.to /\ r.to = q.from)
       => q = r

SocialTyped ==
  /\ friends \subseteq User \X User /\ requests \subseteq RequestType
  /\ blocks \subseteq User \X User /\ directs \subseteq SUBSET User
  /\ willing \subseteq User \X User

LEMMA InvStands == SocialInv => SocialTyped /\ Stands(friends, requests, blocks, willing)
<1> SUFFICES ASSUME SocialInv PROVE SocialTyped /\ Stands(friends, requests, blocks, willing)
  OBVIOUS
<1>1. SocialTyped BY DEF SocialInv, SocialTypeOK, SocialTyped, RequestType
<1>2. \A r \in requests : Fresh(r) => <<r.from, r.to>> \in willing BY DEF SocialInv, Asked
<1>3. \A u, v \in User : <<u, v>> \in blocks => <<u, v>> \notin friends /\ <<v, u>> \notin friends
  BY DEF SocialInv, BlockedAreStrangers, Unblocked, Both
<1>4. ASSUME NEW r \in requests, r.status = "pending"
      PROVE  /\ <<r.from, r.to>> \notin blocks /\ <<r.to, r.from>> \notin blocks
             /\ <<r.from, r.to>> \notin friends
  <2>1. r.from \in User /\ r.to \in User BY <1>1 DEF SocialTyped, RequestType
  <2>2. Unblocked(r.from, r.to)
    BY <1>4, <2>1 DEF SocialInv, BlockedAreStrangers, Between
  <2> QED BY <1>4, <2>2 DEF Unblocked, Both, SocialInv, OneOpenRequest
<1>5. \A u, v \in User : <<u, v>> \in friends => <<v, u>> \in friends /\ <<u, v>> \in willing
  BY DEF SocialInv, FriendsAgreed, Both
<1>6. ASSUME NEW r \in requests, NEW q \in requests, r.status = "pending", q.status = "pending",
             (r.from = q.from /\ r.to = q.to) \/ (r.from = q.to /\ r.to = q.from)
      PROVE  q = r
  BY <1>6 DEF SocialInv, OneOpenRequest
<1> QED BY <1>1, <1>2, <1>3, <1>4, <1>5, <1>6 DEF Stands

LEMMA StandsInv == SocialTyped /\ Stands(friends, requests, blocks, willing) => SocialInv
<1> SUFFICES ASSUME SocialTyped, Stands(friends, requests, blocks, willing) PROVE SocialInv
  OBVIOUS
<1>1. SocialTypeOK BY DEF SocialTypeOK, SocialTyped, RequestType
<1>2. Asked BY DEF Stands, Asked
<1>3. ASSUME NEW u \in User, NEW v \in User, ~Unblocked(u, v)
      PROVE  friends \cap Both(u, v) = {} /\ \A r \in Between(u, v) : r.status # "pending"
  <2>1. <<u, v>> \in blocks \/ <<v, u>> \in blocks BY <1>3 DEF Unblocked, Both
  <2>2. <<u, v>> \notin friends /\ <<v, u>> \notin friends BY <2>1 DEF Stands
  <2>3. ASSUME NEW r \in requests, {r.from, r.to} = {u, v} PROVE r.status # "pending"
    <3>1. (r.from = u /\ r.to = v) \/ (r.from = v /\ r.to = u) BY <2>3
    <3> QED BY <2>1, <3>1 DEF Stands
  <2> QED BY <2>2, <2>3 DEF Both, Between
<1>4. FriendsAgreed BY DEF Stands, FriendsAgreed, Both
<1>5. ASSUME NEW r \in requests, NEW q \in requests, r.status = "pending", q.status = "pending",
             {q.from, q.to} = {r.from, r.to}
      PROVE  q = r
  <2>1. (r.from = q.from /\ r.to = q.to) \/ (r.from = q.to /\ r.to = q.from) BY <1>5
  <2> QED BY <1>5, <2>1 DEF Stands
<1>6. OneOpenRequest BY <1>5 DEF Stands, OneOpenRequest
<1> QED BY <1>1, <1>2, <1>3, <1>4, <1>6 DEF SocialInv, BlockedAreStrangers

\* what remains of the requests of a pair when the old ones are marked
LEMMA ExpiredRequests ==
  ASSUME SocialTyped, NEW u, NEW v, NEW x \in Expired(Between(u, v))
  PROVE  /\ x \in RequestType
         /\ \/ x.status = "expired"
            \/ x \in requests /\ ~(x \in Between(u, v) /\ x.status = "pending" /\ x.old)
<1>1. PICK r \in requests :
        x = IF r \in Between(u, v) /\ r.status = "pending" /\ r.old
            THEN [r EXCEPT !.status = "expired"] ELSE r
  BY DEF Expired
<1>2. r \in RequestType BY DEF SocialTyped
<1>3. CASE r \in Between(u, v) /\ r.status = "pending" /\ r.old
  <2>1. x = [r EXCEPT !.status = "expired"] BY <1>1, <1>3
  <2> QED BY <1>2, <2>1 DEF RequestType, Status
<1>4. CASE ~(r \in Between(u, v) /\ r.status = "pending" /\ r.old)
  BY <1>1, <1>2, <1>4
<1> QED BY <1>3, <1>4

LEMMA SocialInvStep ==
  ASSUME SocialInv, SocialStep PROVE SocialInv'
<1>0. /\ friends \subseteq User \X User /\ requests \subseteq RequestType
      /\ blocks \subseteq User \X User /\ directs \subseteq SUBSET User
      /\ willing \subseteq User \X User
  BY InvStands DEF SocialTyped
<1>1. Stands(friends, requests, blocks, willing) /\ SocialTyped BY InvStands
<1>e. (SocialTyped /\ Stands(friends, requests, blocks, willing) => SocialInv)'
  BY StandsInv, PTL
<1>a. ASSUME SocialTyped', Stands(friends', requests', blocks', willing') PROVE SocialInv'
  BY <1>a, <1>e
\* no request is made
<1>b. ASSUME UNCHANGED <<friends, blocks, directs, willing>>, requests' \subseteq RequestType,
             \A x \in requests' : x.status = "pending" => x \in requests
      PROVE  SocialInv'
  <2>1. SocialTyped' BY <1>0, <1>b DEF SocialTyped
  <2>2. Stands(friends, requests', blocks, willing) BY <1>1, <1>b DEF Stands, Fresh
  <2> QED BY <1>a, <1>b, <2>1, <2>2
\* one request gets another status
<1>c. ASSUME NEW r \in requests, NEW status \in Status \ {"pending"}, Restatus(r, status)
      PROVE  /\ requests' \subseteq RequestType
             /\ \A x \in requests' : x.status = "pending" => x \in requests /\ x # r
  <2>1. r \in RequestType BY <1>0
  <2>2. /\ [r EXCEPT !.status = status] \in RequestType
        /\ [r EXCEPT !.status = status].status # "pending"
    BY <2>1 DEF RequestType
  <2> QED BY <1>0, <1>c, <2>2 DEF Restatus
<1>d. \A r \in requests : r.from \in User /\ r.to \in User BY <1>0 DEF RequestType
<1>2. ASSUME NEW u \in User, NEW v \in User, AskFriend(u, v) PROVE SocialInv'
  <2>1. \A x \in Expired(Between(u, v)) :
          /\ x \in RequestType
          /\ x.status = "pending" => x \in requests /\ ~(x \in Between(u, v) /\ x.old)
    BY <1>1, ExpiredRequests
  <2>2. CASE \E r \in Between(u, v) : Fresh(r)
    <3>1. requests' = Expired(Between(u, v)) /\ UNCHANGED <<friends, blocks, directs, willing>>
      BY <1>2, <2>2 DEF AskFriend
    <3> QED BY <1>b, <2>1, <3>1
  <2>3. CASE ~\E r \in Between(u, v) : Fresh(r)
    <3>1. PICK id \in Request :
            requests' = Expired(Between(u, v)) \cup
              {[id |-> id, from |-> u, to |-> v, status |-> "pending", old |-> FALSE]}
      BY <1>2, <2>3 DEF AskFriend
    <3>2. /\ UNCHANGED <<friends, blocks, directs>> /\ willing' = willing \cup {<<u, v>>}
          /\ <<u, v>> \notin friends /\ <<u, v>> \notin blocks /\ <<v, u>> \notin blocks
      BY <1>2, <2>3 DEF AskFriend, Unblocked, Both
    <3> DEFINE new == [id |-> id, from |-> u, to |-> v, status |-> "pending", old |-> FALSE]
    <3>3. /\ new \in RequestType /\ new.from = u /\ new.to = v /\ new.status = "pending"
      BY DEF RequestType, Status
    <3>4. requests' \subseteq RequestType BY <2>1, <3>1, <3>3
    <3>5. ASSUME NEW x \in requests', x.status = "pending", x # new
          PROVE  /\ x \in requests
                 /\ ~(x.from = u /\ x.to = v) /\ ~(x.from = v /\ x.to = u)
      <4>1. x \in requests /\ ~(x \in Between(u, v) /\ x.old) BY <2>1, <3>1, <3>5
      <4>2. x \notin Between(u, v) BY <2>3, <3>5, <4>1 DEF Fresh
      <4> QED BY <4>1, <4>2 DEF Between
    <3>6. SocialTyped' BY <1>0, <3>2, <3>4 DEF SocialTyped
    <3> HIDE DEF new
    <3>7. Stands(friends, requests', blocks, willing')
      <4>1. \A r \in requests' : Fresh(r) => <<r.from, r.to>> \in willing'
        BY <1>1, <3>2, <3>3, <3>5 DEF Stands, Fresh
      <4>2. \A x, y \in User : <<x, y>> \in friends => <<y, x>> \in friends /\ <<x, y>> \in willing'
        BY <1>1, <3>2 DEF Stands
      <4>3. \A r \in requests' : r.status = "pending" =>
              /\ <<r.from, r.to>> \notin blocks /\ <<r.to, r.from>> \notin blocks
              /\ <<r.from, r.to>> \notin friends
        BY <1>1, <3>2, <3>3, <3>5 DEF Stands
      <4>4. ASSUME NEW r \in requests', NEW q \in requests', r.status = "pending",
                   q.status = "pending",
                   (r.from = q.from /\ r.to = q.to) \/ (r.from = q.to /\ r.to = q.from)
            PROVE  q = r
        <5>1. CASE r = new BY <3>3, <3>5, <4>4, <5>1
        <5>2. CASE q = new BY <3>3, <3>5, <4>4, <5>2
        <5>3. CASE r # new /\ q # new BY <1>1, <3>5, <4>4, <5>3 DEF Stands
        <5> QED BY <5>1, <5>2, <5>3
      <4> QED BY <1>1, <4>1, <4>2, <4>3, <4>4 DEF Stands
    <3> QED BY <1>a, <3>2, <3>6, <3>7
  <2> QED BY <2>2, <2>3
<1>3. ASSUME NEW r \in requests, Accept(r) PROVE SocialInv'
  <2>1. /\ r.status = "pending" /\ Fresh(r) /\ Restatus(r, "accepted")
        /\ friends' = friends \cup {<<r.from, r.to>>, <<r.to, r.from>>}
        /\ willing' = willing \cup {<<r.to, r.from>>} /\ UNCHANGED <<blocks, directs>>
    BY <1>3 DEF Accept, Both, Fresh
  <2>2. /\ requests' \subseteq RequestType
        /\ \A x \in requests' : x.status = "pending" => x \in requests /\ x # r
    BY <1>c, <2>1 DEF Status
  <2>3. SocialTyped' BY <1>0, <1>d, <2>1, <2>2 DEF SocialTyped
  <2>4. Stands(friends', requests', blocks, willing')
    <3>1. \A q \in requests' : Fresh(q) => <<q.from, q.to>> \in willing'
      BY <1>1, <2>1, <2>2 DEF Stands, Fresh
    <3>2. \A u, v \in User : <<u, v>> \in blocks => <<u, v>> \notin friends' /\ <<v, u>> \notin friends'
      BY <1>1, <2>1 DEF Stands
    <3>3. \A q \in requests' : q.status = "pending" =>
            /\ <<q.from, q.to>> \notin blocks /\ <<q.to, q.from>> \notin blocks
            /\ <<q.from, q.to>> \notin friends'
      BY <1>1, <2>1, <2>2 DEF Stands
    <3>4. \A u, v \in User : <<u, v>> \in friends' => <<v, u>> \in friends' /\ <<u, v>> \in willing'
      BY <1>1, <2>1 DEF Stands
    <3> QED BY <1>1, <2>2, <3>1, <3>2, <3>3, <3>4 DEF Stands
  <2> QED BY <1>a, <2>1, <2>3, <2>4
<1>4. ASSUME NEW r \in requests, Reject(r) PROVE SocialInv'
  <2>1. /\ r.status = "pending" /\ Restatus(r, "rejected")
        /\ willing' = willing \ {<<r.from, r.to>>} /\ UNCHANGED <<friends, blocks, directs>>
    BY <1>4 DEF Reject, Fresh
  <2>2. /\ requests' \subseteq RequestType
        /\ \A x \in requests' : x.status = "pending" => x \in requests /\ x # r
    BY <1>c, <2>1 DEF Status
  <2>3. SocialTyped' BY <1>0, <2>1, <2>2 DEF SocialTyped
  <2>4. Stands(friends, requests', blocks, willing')
    BY <1>1, <2>1, <2>2 DEF Stands, Fresh
  <2> QED BY <1>a, <2>1, <2>3, <2>4
<1>5. ASSUME NEW r \in requests, AnswerTooLate(r) PROVE SocialInv'
  BY <1>5, <1>b, <1>c DEF AnswerTooLate, Status
<1>6. ASSUME NEW r \in requests, Age(r) PROVE SocialInv'
  <2> DEFINE x == [r EXCEPT !.old = TRUE]
  <2>1. /\ r.status = "pending" /\ requests' = (requests \ {r}) \cup {x}
        /\ willing' = willing \ {<<r.from, r.to>>} /\ UNCHANGED <<friends, blocks, directs>>
    BY <1>6 DEF Age, Fresh
  <2>2. r \in RequestType BY <1>0
  <2>3. x \in RequestType /\ x.from = r.from /\ x.to = r.to /\ x.old /\ x.status = "pending"
    BY <2>1, <2>2 DEF RequestType
  <2> HIDE DEF x
  <2>4. SocialTyped' BY <1>0, <2>1, <2>3 DEF SocialTyped
  <2>5. Stands(friends, requests', blocks, willing')
    BY <1>1, <2>1, <2>3 DEF Stands, Fresh
  <2> QED BY <1>a, <2>1, <2>4, <2>5
<1>7. ASSUME NEW u \in User, NEW v \in User, Unfriend(u, v) PROVE SocialInv'
  <2>1. /\ friends' = friends \ {<<u, v>>, <<v, u>>} /\ willing' = willing \ {<<u, v>>, <<v, u>>}
        /\ UNCHANGED <<requests, blocks, directs>>
        /\ <<u, v>> \in friends \/ <<v, u>> \in friends
    BY <1>7 DEF Unfriend, Both
  <2>2. <<u, v>> \in friends /\ <<v, u>> \in friends BY <1>1, <2>1 DEF Stands
  <2>3. SocialTyped' BY <1>0, <2>1 DEF SocialTyped
  <2>4. Stands(friends', requests, blocks, willing')
    BY <1>1, <2>1, <2>2 DEF Stands, Fresh
  <2> QED BY <1>a, <2>1, <2>3, <2>4
<1>8. ASSUME NEW u \in User, NEW v \in User, BlockUser(u, v) PROVE SocialInv'
  <2>1. /\ friends' = friends \ {<<u, v>>, <<v, u>>} /\ willing' = willing \ {<<u, v>>, <<v, u>>}
        /\ blocks' = blocks \cup {<<u, v>>} /\ UNCHANGED directs
        /\ requests' = requests \ {r \in Between(u, v) : r.status = "pending"}
    BY <1>8 DEF BlockUser, Both
  <2>2. \A r \in requests' : /\ r \in requests
                             /\ r.status = "pending" => /\ ~(r.from = u /\ r.to = v)
                                                        /\ ~(r.from = v /\ r.to = u)
    BY <2>1 DEF Between
  <2>3. SocialTyped' BY <1>0, <2>1 DEF SocialTyped
  <2>4. Stands(friends', requests', blocks', willing')
    BY <1>1, <2>1, <2>2 DEF Stands, Fresh
  <2> QED BY <1>a, <2>3, <2>4
<1>9. ASSUME NEW u \in User, NEW v \in User, UnblockUser(u, v) \/ OpenDirect(u, v)
      PROVE  SocialInv'
  <2>1. UNCHANGED <<friends, requests, willing>> /\ blocks' \subseteq blocks
        /\ directs' \subseteq SUBSET User
    BY <1>0, <1>9 DEF UnblockUser, OpenDirect
  <2>2. SocialTyped' BY <1>0, <2>1 DEF SocialTyped
  <2>3. Stands(friends, requests, blocks', willing) BY <1>1, <2>1 DEF Stands
  <2> QED BY <1>a, <2>1, <2>2, <2>3
<1> QED BY <1>2, <1>3, <1>4, <1>5, <1>6, <1>7, <1>8, <1>9 DEF SocialStep

-----------------------------------------------------------------------------
(* The invariant and the theorems.                                         *)

IInv == JobInv /\ GroupsInv /\ SocialInv

LEMMA InitInv == Init => IInv
<1> SUFFICES ASSUME Init PROVE IInv OBVIOUS
<1>1. JobInv BY NewJobs DEF Init, JobInv, Jobs, Intros
<1>2. GroupsInv
  BY NoneOwnsNothing DEF Init, GroupsInit, GroupsInv, GroupsTypeOK, GroupsIntact, Role
<1>3. SocialInv
  BY DEF Init, SocialInit, SocialInv, SocialTypeOK, Asked, BlockedAreStrangers, Unblocked,
         Between, FriendsAgreed, OneOpenRequest
<1> QED BY <1>1, <1>2, <1>3 DEF IInv

LEMMA NextInv == IInv /\ [Next]_vars => IInv'
<1> SUFFICES ASSUME IInv, [Next]_vars PROVE IInv' OBVIOUS
<1>1. JobInv' BY JobStep, IntroStep DEF IInv, JobInv
<1>2. /\ SocialStep \/ UNCHANGED socialVars
      /\ GroupsStep \/ UNCHANGED groupVars
  BY StepsAreOperations DEF IInv
<1>3. GroupsInv'
  <2>1. CASE UNCHANGED groupVars
    BY <2>1 DEF groupVars, IInv, GroupsInv, GroupsTypeOK, GroupsIntact
  <2> QED BY <1>2, <2>1, GroupsInvStep DEF IInv
<1>4. SocialInv'
  <2>1. CASE UNCHANGED socialVars
    BY <2>1 DEF socialVars, IInv, SocialInv, SocialTypeOK, Asked, BlockedAreStrangers,
                Unblocked, Between, FriendsAgreed, OneOpenRequest
  <2> QED BY <1>2, <2>1, SocialInvStep DEF IInv
<1> QED BY <1>1, <1>3, <1>4 DEF IInv

LEMMA Invariance == Spec => []IInv
<1> QED BY InitInv, NextInv, PTL DEF Spec

(* The owner is the one member with that role, and both tables of members  *)
(* agree, after any operations of GroupService.                            *)
THEOREM GroupsStayIntact == Spec => []GroupsIntact
<1>1. IInv => GroupsIntact BY DEF IInv, GroupsInv
<1> QED BY <1>1, Invariance, PTL

(* A block ends friendship and requests, and nothing brings them back      *)
(* while it stands (BlockService.block_user).                              *)
THEOREM BlocksSeparate == Spec => []BlockedAreStrangers
<1>1. IInv => BlockedAreStrangers BY DEF IInv, SocialInv
<1> QED BY <1>1, Invariance, PTL

(* Nobody is a friend by a request that was taken back by a block, a       *)
(* removal or its age (FriendService.accept_request).                      *)
THEOREM FriendsHaveAgreed == Spec => []FriendsAgreed
<1>1. IInv => FriendsAgreed BY DEF IInv, SocialInv
<1> QED BY <1>1, Invariance, PTL

(* A pair has one request to answer at most, whoever made it               *)
(* (FriendService.create_request).                                         *)
THEOREM OneRequestEach == Spec => []OneOpenRequest
<1>1. IInv => OneOpenRequest BY DEF IInv, SocialInv
<1> QED BY <1>1, Invariance, PTL

-----------------------------------------------------------------------------
(* Types.  What the server counts, and the contact_refreshes under way,    *)
(* are bounded by the operations so far.                                   *)

JobSet ==
  [do : {"none", "list", "event", "message", "join", "open", "leave"},
   session : Session, n : Count,
   st : {"none", "asked", "answered", "failed"},
   ids : SUBSET Session, said : Counts, passed : BOOLEAN]

WireItem ==
  [kind : {"auth_ack"}] \cup Item
    \cup [kind : {"history_messages", "history_events"}, ids : SUBSET Session, upto : Counts]

Refreshes == {n \in Count : Refresh(n) \in out}
Most == IF before THEN MaxBefore ELSE MaxOps

\* what operations on the server change
ServerTypes ==
  /\ before \in BOOLEAN /\ ops \in 0..Most
  /\ said \in [Session -> Nat] /\ told \in [Session -> Nat]
  /\ \A s \in Session : /\ said[s] <= 1 + (IF before THEN 0 ELSE ops)
                        /\ told[s] <= ops + (IF before THEN 0 ELSE MaxBefore)
  /\ out \subseteq Item /\ Cardinality(Refreshes) <= ops

ClientTypes ==
  /\ link \in {"down", "bound"} /\ wire \in Seq(WireItem)
  /\ todo \subseteq Intro /\ held \subseteq Intro
  /\ job \in [Slot -> JobSet]
  /\ listed \subseteq Session /\ hidden \in [Session -> 0..NotHidden]
  /\ msgCursor \in Counts /\ eventCursor \in Counts
  /\ started \in BOOLEAN
  /\ faults \in 0..MaxFaults /\ acts \in 0..MaxActs
  /\ drift \in {"none", "old", "new"}

LEMMA Bounds ==
  /\ MaxBefore \in Nat /\ MaxEarly \in Nat /\ MaxOps \in Nat
  /\ MaxFaults \in Nat /\ MaxActs \in Nat
  /\ 0 \in Count /\ Chat \in Session /\ NotHidden \in Nat /\ Count \subseteq 0..NotHidden
  /\ Group \subseteq Session
BY ListBounds DEF Count, Session, NotHidden

LEMMA Counting ==
  ServerTypes => /\ said \in Counts /\ told \in Counts
                 /\ ops \in 0..Higher(MaxBefore, MaxOps)
<1> SUFFICES ASSUME ServerTypes PROVE /\ said \in Counts /\ told \in Counts
                                      /\ ops \in 0..Higher(MaxBefore, MaxOps)
  OBVIOUS
<1>1. \A s \in Session : said[s] \in Count /\ told[s] \in Count
  BY Bounds DEF ServerTypes, Count, Most
<1>2. ops \in 0..Higher(MaxBefore, MaxOps) BY Bounds DEF ServerTypes, Most, Higher
<1> QED BY <1>1, <1>2 DEF ServerTypes, Counts

LEMMA Kinds ==
  /\ \A n, k \in Count : /\ Refresh(n) \in Item /\ Refresh(n).kind = "contact_refresh"
                         /\ Refresh(n) = Refresh(k) => n = k
  /\ \A s \in Session, n \in Count :
       /\ Event(s, n) \in Item /\ Event(s, n).kind # "contact_refresh"
       /\ Message(s, n) \in Item /\ Message(s, n).kind # "contact_refresh"
  /\ Item \subseteq WireItem
BY DEF Refresh, Event, Message, Item, WireItem

LEMMA RefreshesFinite == /\ IsFiniteSet(Refreshes) /\ Cardinality(Refreshes) \in Nat
                         /\ IsFiniteSet(Count) /\ Cardinality(Count) = MaxBefore + MaxOps + 2
<1>1. /\ IsFiniteSet(Count) /\ Cardinality(Count) = MaxBefore + MaxOps + 2
  BY Bounds, FS_Interval DEF Count
<1>2. IsFiniteSet(Refreshes)
  <2>1. Refreshes \in SUBSET Count BY DEF Refreshes
  <2> QED BY <1>1, <2>1, FS_Subset
<1> QED BY <1>1, <1>2, FS_CardinalityType

\* there is a refresh that is not under way
LEMMA NewRefreshIsNew ==
  ASSUME ServerTypes
  PROVE  \E n \in Count : NewRefresh = Refresh(n) /\ n \notin Refreshes
<1>1. Refreshes # Count
  BY Bounds, RefreshesFinite DEF ServerTypes, Most
<1>2. PICK n \in Count : Refresh(n) \notin out BY <1>1 DEF Refreshes
<1>3. \E m \in {Refresh(k) : k \in Count} : m \notin out BY <1>2
<1>4. NewRefresh \in {Refresh(k) : k \in Count} /\ NewRefresh \notin out
  BY <1>3 DEF NewRefresh
<1> QED BY <1>4 DEF Refreshes

\* an operation sends at most one refresh, and other items
LEMMA OutGrows ==
  ASSUME ServerTypes, before' = before, ops < Most, ops' = ops + 1,
         NEW X \in SUBSET Item, \A m \in X : m.kind # "contact_refresh",
         out' = out \cup X \/ out' = out \cup X \cup {NewRefresh}
  PROVE  ops' \in 0..Most' /\ out' \subseteq Item /\ Cardinality(Refreshes)' <= ops'
<1>1. ops' \in 0..Most' /\ ops \in Nat BY Bounds DEF ServerTypes, Most
<1>2. PICK k \in Count : NewRefresh = Refresh(k) /\ k \notin Refreshes BY NewRefreshIsNew
<1>3. out' \subseteq Item BY <1>2, Kinds DEF ServerTypes
<1>4. \A n \in Count : Refresh(n) \in X => FALSE BY Kinds
<1>5. \A n \in Count : Refresh(n) \in out' => n \in Refreshes \/ n = k
  BY <1>2, <1>4, Kinds DEF Refreshes
<1>6. Refreshes' \in SUBSET (Refreshes \cup {k})
  <2>1. Refreshes' = {n \in Count : Refresh(n) \in out'} BY DEF Refreshes, Refresh
  <2> QED BY <1>5, <2>1
<1>7. /\ IsFiniteSet(Refreshes \cup {k})
      /\ Cardinality(Refreshes \cup {k}) = Cardinality(Refreshes) + 1
  BY <1>2, RefreshesFinite, FS_AddElement
<1>8. Cardinality(Refreshes') <= Cardinality(Refreshes) + 1 /\ IsFiniteSet(Refreshes')
  BY <1>6, <1>7, FS_Subset
<1>9. Cardinality(Refreshes') \in Nat BY <1>8, FS_CardinalityType
<1>10. Cardinality(Refreshes') <= ops + 1
  BY <1>1, <1>8, <1>9, RefreshesFinite DEF ServerTypes
<1> QED BY <1>1, <1>3, <1>10

\* what is sent, or forgotten, leaves less under way
LEMMA OutShrinks ==
  ASSUME ServerTypes, out' \subseteq out PROVE Cardinality(Refreshes') <= Cardinality(Refreshes)
<1>1. Refreshes' = {n \in Count : Refresh(n) \in out'} BY DEF Refreshes, Refresh
<1>2. Refreshes' \in SUBSET Refreshes BY <1>1 DEF Refreshes
<1> QED BY <1>2, RefreshesFinite, FS_Subset

LEMMA OperationTypes ==
  ASSUME ServerTypes, before' = before,
         \/ Befriend \/ Blocking \/ OpenChat
         \/ \E g \in Group : ChangeGroup(g) \/ EndGroup(g) \/ LeaveGroup(g)
         \/ \E s \in Session : Write(s)
  PROVE  ServerTypes'
<1>1. Counted => ops < Most /\ ops' = ops + 1 BY DEF Counted, Most
<1>2. /\ said \in [Session -> Nat] /\ told \in [Session -> Nat] /\ ops \in Nat
      /\ before \in BOOLEAN /\ Most' = Most
  BY Bounds DEF ServerTypes, Most
<1>3. \A s \in Session : /\ said[s] <= 1 + (IF before THEN 0 ELSE ops)
                         /\ told[s] <= ops + (IF before THEN 0 ELSE MaxBefore)
  BY DEF ServerTypes
\* what an operation does to the numbers, and what it sends
<1>a. ASSUME Counted, NEW X \in SUBSET Item, \A m \in X : m.kind # "contact_refresh",
             out' = out \cup X \/ out' = out \cup X \cup {NewRefresh},
             said' \in [Session -> Nat], told' \in [Session -> Nat],
             \A s \in Session : /\ said'[s] <= 1 + (IF before THEN 0 ELSE ops + 1)
                                /\ told'[s] <= (ops + 1) + (IF before THEN 0 ELSE MaxBefore)
      PROVE  ServerTypes'
  <2>1. ops < Most /\ ops' = ops + 1 BY <1>1, <1>a
  <2>2. ops' \in 0..Most' /\ out' \subseteq Item /\ Cardinality(Refreshes)' <= ops'
    BY <1>a, <2>1, OutGrows
  <2> QED BY <1>2, <1>a, <2>1, <2>2 DEF ServerTypes
<1>b. ASSUME Counted, UNCHANGED <<said, told>>,
             out' = out \/ out' = out \cup {} \/ out' = out \cup {NewRefresh}
      PROVE  ServerTypes'
  <2>1. \A s \in Session : /\ said'[s] <= 1 + (IF before THEN 0 ELSE ops + 1)
                           /\ told'[s] <= (ops + 1) + (IF before THEN 0 ELSE MaxBefore)
    BY <1>2, <1>3, <1>b, Bounds
  <2> DEFINE X == {}
  <2>2. /\ out' = out \cup X \/ out' = out \cup X \cup {NewRefresh}
        /\ X \in SUBSET Item /\ \A m \in X : m.kind # "contact_refresh"
    BY <1>b
  <2>3. said' \in [Session -> Nat] /\ told' \in [Session -> Nat] BY <1>2, <1>b
  <2> HIDE DEF X
  <2> QED BY <1>a, <1>b, <2>1, <2>2, <2>3
<1>4. CASE Befriend \/ OpenChat BY <1>4, <1>b DEF Befriend, OpenChat
<1>5. CASE Blocking BY <1>5, <1>b DEF Blocking
<1>6. ASSUME NEW g \in Group, NEW gone, Publish(g, gone), Counted PROVE ServerTypes'
  <2> DEFINE X == IF Me \in members'[g] THEN {Event(g, told[g] + 1)} ELSE {}
  <2>0. g \in Session BY Bounds
  <2>1. told[g] + 1 \in Count BY <1>1, <1>2, <1>3, <1>6, <2>0, Bounds DEF Count, Most
  <2>2. X \in SUBSET Item /\ \A m \in X : m.kind # "contact_refresh" BY <2>0, <2>1, Kinds
  <2>3. out' = out \cup X \/ out' = out \cup X \cup {NewRefresh} BY <1>6 DEF Publish
  <2>4. said' = said /\ told' = [told EXCEPT ![g] = @ + 1] BY <1>6 DEF Publish
  <2>5. told' \in [Session -> Nat] /\ \A s \in Session : told'[s] <= told[s] + 1
    BY <1>2, <2>0, <2>4
  <2>6. \A s \in Session : /\ said'[s] <= 1 + (IF before THEN 0 ELSE ops + 1)
                           /\ told'[s] <= (ops + 1) + (IF before THEN 0 ELSE MaxBefore)
    BY <1>2, <1>3, <2>4, <2>5, Bounds
  <2> HIDE DEF X
  <2> QED BY <1>2, <1>6, <1>a, <2>2, <2>3, <2>4, <2>5, <2>6
<1>7. ASSUME NEW g \in Group, ChangeGroup(g) \/ LeaveGroup(g) PROVE ServerTypes'
  BY <1>6, <1>7 DEF ChangeGroup, LeaveGroup
<1>8. ASSUME NEW g \in Group, EndGroup(g) PROVE ServerTypes'
  <2>1. /\ said' = [said EXCEPT ![g] = 0] /\ told' = [told EXCEPT ![g] = 0] /\ Counted
        /\ out' = out \cup {} \/ out' = out \cup {} \cup {NewRefresh}
    BY <1>8 DEF EndGroup
  <2>2. /\ said' \in [Session -> Nat] /\ told' \in [Session -> Nat]
        /\ \A s \in Session : said'[s] <= said[s] /\ told'[s] <= told[s]
    BY <1>2, <2>1, Bounds
  <2>3. \A s \in Session : /\ said'[s] <= 1 + (IF before THEN 0 ELSE ops + 1)
                           /\ told'[s] <= (ops + 1) + (IF before THEN 0 ELSE MaxBefore)
    BY <1>2, <1>3, <2>2, Bounds
  <2> DEFINE X == {}
  <2>4. /\ out' = out \cup X \/ out' = out \cup X \cup {NewRefresh}
        /\ X \in SUBSET Item /\ \A m \in X : m.kind # "contact_refresh"
    BY <2>1
  <2> HIDE DEF X
  <2> QED BY <1>a, <2>1, <2>2, <2>3, <2>4
<1>9. ASSUME NEW s \in Session, Write(s) PROVE ServerTypes'
  <2> DEFINE X == {Message(s, said[s] + 1)}
  <2>1. said' = [said EXCEPT ![s] = @ + 1] /\ told' = told /\ out' = out \cup X
    BY <1>9 DEF Write
  <2>2. /\ said' \in [Session -> Nat]
        /\ \A x \in Session : said'[x] = (IF x = s THEN said[s] + 1 ELSE said[x])
    BY <1>2, <2>1
  <2>3. CASE ~before
    <3>1. Counted BY <1>9, <2>3 DEF Write
    <3>2. said[s] + 1 \in Count BY <1>1, <1>2, <1>3, <2>3, <3>1, Bounds DEF Count, Most
    <3>3. X \in SUBSET Item /\ \A m \in X : m.kind # "contact_refresh" BY <3>2, Kinds
    <3>4. \A x \in Session : /\ said'[x] <= 1 + (IF before THEN 0 ELSE ops + 1)
                             /\ told'[x] <= (ops + 1) + (IF before THEN 0 ELSE MaxBefore)
      BY <1>2, <1>3, <2>1, <2>2, <2>3, Bounds
    <3> HIDE DEF X
    <3> QED BY <1>2, <1>a, <2>1, <2>2, <3>1, <3>3, <3>4
  <2>4. CASE before
    <3>1. said[s] = 0 /\ ops' = ops BY <1>9, <2>4 DEF Write
    <3>2. 1 \in Count BY Bounds DEF Count
    <3>3. X \subseteq Item /\ \A m \in X : m.kind # "contact_refresh" BY <3>1, <3>2, Kinds
    <3>4. Refreshes' = Refreshes
      <4>1. \A n \in Count : Refresh(n) \in out' <=> Refresh(n) \in out
        BY <2>1, <3>3, Kinds
      <4>2. Refreshes' = {n \in Count : Refresh(n) \in out'} BY DEF Refreshes, Refresh
      <4> QED BY <4>1, <4>2 DEF Refreshes
    <3>5. Cardinality(Refreshes)' = Cardinality(Refreshes) BY <3>4
    <3>6. \A x \in Session : /\ said'[x] <= 1 + (IF before THEN 0 ELSE ops)
                             /\ told'[x] <= ops + (IF before THEN 0 ELSE MaxBefore)
      BY <1>2, <1>3, <2>1, <2>2, <2>4, <3>1
    <3> HIDE DEF X
    <3> QED BY <1>2, <2>1, <2>2, <3>1, <3>3, <3>5, <3>6 DEF ServerTypes
  <2> QED BY <1>2, <2>3, <2>4
<1> QED BY <1>4, <1>5, <1>7, <1>8, <1>9

LEMMA ServerTypesStep ==
  ASSUME ServerTypes, JobInv, [Next]_vars PROVE ServerTypes'
<1>a. ASSUME UNCHANGED <<said, told, ops, before>>, out' \subseteq out PROVE ServerTypes'
  <2>1. Cardinality(Refreshes)' <= Cardinality(Refreshes) BY <1>a, OutShrinks
  <2>2. Cardinality(Refreshes)' \in Nat
    <3>1. Refreshes' = {n \in Count : Refresh(n) \in out'} BY DEF Refreshes, Refresh
    <3>2. Refreshes' \in SUBSET Refreshes BY <1>a, <3>1 DEF Refreshes
    <3> QED BY <3>2, RefreshesFinite, FS_Subset, FS_CardinalityType
  <2>3. Cardinality(Refreshes)' <= ops
    BY <2>1, <2>2, RefreshesFinite, Bounds DEF ServerTypes, Most
  <2>4. Most' = Most BY <1>a DEF Most
  <2> QED BY <1>a, <2>3, <2>4 DEF ServerTypes
<1>b. ASSUME UNCHANGED <<serverVars, before>> PROVE ServerTypes' BY <1>a, <1>b DEF serverVars
<1>1. CASE Server BY <1>1, OperationTypes DEF Server, clientVars
<1>2. CASE Net BY <1>2, <1>a DEF Net, Send, Connect, Break, AnswerSync, serverVars, clientVars
<1>3. CASE Inbox BY <1>3, <1>b DEF Inbox, AskSync, Take, Introduce, clientVars
<1>4. ASSUME NEW slot \in Slot, ServeList(slot) \/ ServeFetch(slot) \/ FailHttp(slot)
      PROVE  ServerTypes'
  BY <1>4, <1>b DEF ServeList, ServeFetch, FailHttp, Serving
<1>5. CASE ServeOpen BY <1>5, <1>a DEF ServeOpen, Serving
<1>6. CASE ServeLeave
  <2>1. CASE Me \notin members[job["ui"].session]
    BY <1>6, <2>1, <1>b DEF ServeLeave, Serving
  <2>2. CASE Me \in members[job["ui"].session]
    <3>1. EndGroup(job["ui"].session) \/ LeaveGroup(job["ui"].session)
      BY <1>6, <2>2 DEF ServeLeave
    <3>2. job["ui"].session \in Group BY <1>6 DEF ServeLeave, JobInv, Jobs, IsJob, Slot
    <3>3. before' = before BY <1>6 DEF ServeLeave, Serving
    <3> QED BY <3>1, <3>2, <3>3, OperationTypes
  <2> QED BY <2>1, <2>2
<1>7. CASE Http BY <1>4, <1>5, <1>6, <1>7 DEF Http
<1>8. ASSUME NEW s, Hide(s) PROVE ServerTypes' BY <1>8, <1>b DEF Hide
<1>9. CASE Store
  BY <1>9, <1>8, <1>b DEF Store, StoreList, StoreEvent, StoreMessage, StoreOpen, StoreLeave, Over
<1>10. CASE Start
  <2>1. UNCHANGED <<said, told, out>> /\ before' = FALSE /\ ops' = (IF before THEN 0 ELSE ops)
    BY <1>10 DEF Start, Begins
  <2>2. CASE ~before
    <3>1. UNCHANGED <<said, told, ops, before>> BY <2>1, <2>2 DEF ServerTypes
    <3> QED BY <1>a, <2>1, <3>1
  <2>3. CASE before
    <3>1. out = {} BY <1>10, <2>3 DEF Start
    <3>2. Refreshes' = {}
      <4>1. Refreshes' = {n \in Count : Refresh(n) \in out'} BY DEF Refreshes, Refresh
      <4> QED BY <2>1, <3>1, <4>1
    <3>3. Cardinality(Refreshes)' = 0 BY <3>2, FS_EmptySet
    <3>4. Most' = MaxOps /\ ops' = 0 BY <2>1, <2>3 DEF Most
    <3>5. \A s \in Session : said[s] <= 1 /\ told[s] <= MaxBefore
      BY <2>3, Bounds DEF ServerTypes, Most
    <3>6. \A s \in Session : /\ said'[s] <= 1 + (IF before' THEN 0 ELSE ops')
                             /\ told'[s] <= ops' + (IF before' THEN 0 ELSE MaxBefore)
      BY <2>1, <3>4, <3>5, Bounds DEF ServerTypes
    <3>7. /\ said' \in [Session -> Nat] /\ told' \in [Session -> Nat] /\ out' \subseteq Item
      BY <2>1 DEF ServerTypes
    <3>9. before' \in BOOLEAN BY <2>1
    <3>10. ops' \in 0..Most' BY <3>4, Bounds
    <3>8. Cardinality(Refreshes)' <= ops' BY <3>3, <3>4
    <3> QED BY <3>6, <3>7, <3>8, <3>9, <3>10 DEF ServerTypes
  <2> QED BY <2>2, <2>3 DEF ServerTypes
<1>11. CASE UserStep /\ ~Start
  BY <1>11, <1>8, <1>a, <1>b DEF UserStep, RefreshList, OpenSession, Leave, HideSession, Restart,
                                 Asks, Begins
<1>12. CASE UNCHANGED vars BY <1>12, <1>b DEF vars, clientVars
<1> QED BY <1>1, <1>2, <1>3, <1>7, <1>9, <1>10, <1>11, <1>12 DEF Next

LEMMA NoJobTyped == NoJob \in JobSet
<1>1. [s \in Session |-> 0] \in Counts BY Bounds DEF Counts
<1>2. NoJob = [do |-> "none", session |-> Chat, n |-> 0, st |-> "none", ids |-> {},
               said |-> [s \in Session |-> 0], passed |-> FALSE]
  BY DEF NoJob
<1> QED BY <1>1, <1>2, Bounds DEF JobSet

LEMMA JobTyped ==
  ASSUME NEW do \in {"list", "event", "message", "join", "open", "leave"},
         NEW s \in Session, NEW n \in Count
  PROVE  Job(do, s, n) \in JobSet
<1>1. [x \in Session |-> 0] \in Counts BY Bounds DEF Counts
<1>2. Job(do, s, n) \in [do : {do}, session : {s}, n : {n}, st : {"asked"}, ids : {{}},
                        said : {NoJob.said}, passed : {FALSE}]
  BY DEF Job, NoJob
<1>3. NoJob.said \in Counts BY <1>1 DEF NoJob
<1> QED BY <1>2, <1>3 DEF JobSet

LEMMA StatusTyped ==
  ASSUME NEW j \in JobSet, NEW x \in {"answered", "failed"} PROVE [j EXCEPT !.st = x] \in JobSet
BY DEF JobSet

LEMMA PassedTyped ==
  ASSUME NEW j \in JobSet, NEW x \in BOOLEAN PROVE [j EXCEPT !.passed = x] \in JobSet
BY DEF JobSet

LEMMA AnsweredTyped ==
  ASSUME NEW j \in JobSet, NEW ids \in SUBSET Session, NEW counts \in Counts
  PROVE  [j EXCEPT !.st = "answered", !.ids = ids, !.said = counts] \in JobSet
<1> DEFINE k == [j EXCEPT !.st = "answered"]
           l == [k EXCEPT !.ids = ids]
<1>1. k \in JobSet BY StatusTyped
<1> HIDE DEF k
<1>2. l \in JobSet BY <1>1 DEF JobSet
<1> HIDE DEF l
<1>3. [l EXCEPT !.said = counts] \in JobSet BY <1>2 DEF JobSet
<1> QED BY <1>3 DEF k, l

LEMMA SlotTyped ==
  ASSUME NEW J \in [Slot -> JobSet], NEW slot, NEW j \in JobSet
  PROVE  [J EXCEPT ![slot] = j] \in [Slot -> JobSet]
OBVIOUS

LEMMA PassingTyped ==
  ASSUME NEW J \in [Slot -> JobSet] PROVE Passing(J) \in [Slot -> JobSet]
<1>1. "ui" \in Slot /\ J["ui"] \in JobSet BY DEF Slot
<1>2. J["ui"].passed \in BOOLEAN /\ (J["ui"].st = "answered") \in BOOLEAN
  BY <1>1 DEF JobSet
<1>3. (J["ui"].passed \/ J["ui"].st = "answered") \in BOOLEAN BY <1>2
<1>4. [J["ui"] EXCEPT !.passed = J["ui"].passed \/ J["ui"].st = "answered"] \in JobSet
  BY <1>1, <1>3, PassedTyped
<1>5. Passing(J) = [J EXCEPT !["ui"] =
        [J["ui"] EXCEPT !.passed = J["ui"].passed \/ J["ui"].st = "answered"]]
  BY DEF Passing
<1> QED BY <1>4, <1>5, SlotTyped

LEMMA CountsTyped ==
  /\ \A S : \A c \in Counts : Within(c, S) \in Counts /\ Forgotten(c, S) \in Counts
  /\ \A a, b \in Count : Higher(a, b) \in Count
<1>1. \A S : \A c \in Counts : Within(c, S) \in Counts BY Bounds DEF Within, Counts
<1> QED BY <1>1 DEF Forgotten, Higher

\* what is left alone keeps its type
LEMMA ClientRests ==
  ASSUME ClientTypes, UNCHANGED <<netVars, todo, held, listed, hidden, msgCursor, eventCursor,
                                  started, acts, faults, drift>>,
         job' \in [Slot -> JobSet]
  PROVE  ClientTypes'
BY DEF ClientTypes, netVars

LEMMA NetTypes ==
  ASSUME ClientTypes, ServerTypes, Net PROVE ClientTypes'
<1> USE DEF ClientTypes
<1>0. \A x : x \in WireItem => Append(wire, x) \in Seq(WireItem) OBVIOUS
<1>1. [kind |-> "auth_ack"] \in WireItem BY DEF WireItem
<1>2. ASSUME NEW m \in out, Send(m) PROVE ClientTypes'
  <2>1. m \in WireItem /\ Refresh(0) \in WireItem BY Kinds, Bounds DEF ServerTypes
  <2>2. wire' \in Seq(WireItem) /\ link' = link /\ drift' \in {"none", "old", "new"}
    BY <1>0, <1>2, <2>1 DEF Send, Drifts
  <2>3. UNCHANGED <<faults, clientVars>> BY <1>2 DEF Send
  <2> QED BY <2>2, <2>3 DEF clientVars
<1>3. CASE Connect
  <2>1. <<[kind |-> "auth_ack"]>> \in Seq(WireItem) BY <1>1
  <2> QED BY <1>3, <2>1 DEF Connect, clientVars
<1>4. CASE Break
  <2>1. faults' \in 0..MaxFaults BY <1>4, Bounds DEF Break, Faulty
  <2>2. drift' \in {"none", "old", "new"} BY <1>4 DEF Break, Drifts
  <2>3. wire' \in Seq(WireItem) BY <1>4 DEF Break
  <2> QED BY <1>4, <2>1, <2>2, <2>3 DEF Break
<1>5. CASE AnswerSync
  <2>1. drift' \in {"none", "old", "new"} /\ link' \in {"down", "bound"}
    BY <1>5 DEF AnswerSync, Drifts
  <2>2. wire' \in Seq(WireItem)
    <3> DEFINE batch(kind, counts, cursors) ==
                 [kind |-> kind, ids |-> Missing(counts, cursors),
                  upto |-> Within(counts, Missing(counts, cursors))]
               two == <<batch("history_messages", said, ask.msg),
                        batch("history_events", told, ask.event)>>
    <3>1. /\ batch("history_messages", said, ask.msg) \in WireItem
          /\ batch("history_events", told, ask.event) \in WireItem
      BY Counting, CountsTyped DEF Missing, WireItem
    <3>2. two \in Seq(WireItem) BY <3>1
    <3>3. wire' = <<>> \/ wire' = wire \o two BY <1>5 DEF AnswerSync
    <3> HIDE DEF two
    <3>4. wire \in Seq(WireItem) OBVIOUS
    <3> HIDE DEF ClientTypes
    <3>5. wire \o two \in Seq(WireItem) /\ <<>> \in Seq(WireItem) BY <3>2, <3>4
    <3> QED BY <3>3, <3>5
  <2> QED BY <1>5, <2>1, <2>2 DEF AnswerSync, clientVars
<1> QED BY <1>2, <1>3, <1>4, <1>5 DEF Net

LEMMA TakeTypes ==
  ASSUME ClientTypes, Take PROVE ClientTypes'
<1> USE DEF ClientTypes
<1> DEFINE x == Head(wire)
<1>1. wire # <<>> /\ x \in WireItem /\ wire' = Tail(wire) /\ wire' \in Seq(WireItem)
  BY DEF Take
<1>2. /\ x.kind = "chat_message" => x.session \in Session /\ x.n \in Count
      /\ x.kind = "group_profile_update" => x.session \in Session /\ x.n \in Count
      /\ x.kind \in {"history_messages", "history_events"} => x.ids \subseteq Session /\ x.upto \in Counts
  BY <1>1 DEF WireItem, Item
<1>3. UNCHANGED <<link, listed, hidden, started, acts, faults, drift>> BY DEF Take
<1>4. job' \in [Slot -> JobSet]
  <2>1. Job("list", Chat, 0) \in JobSet BY JobTyped, Bounds
  <2>2. [job EXCEPT !["inbox"] = Job("list", Chat, 0)] \in [Slot -> JobSet]
    BY <2>1, SlotTyped
  <2>3. job' = Passing([job EXCEPT !["inbox"] = Job("list", Chat, 0)]) \/ job' = Passing(job)
    BY DEF Take
  <2> QED BY <2>2, <2>3, PassingTyped
<1>5. \A s \in Session : \A n \in Count :
        /\ [why |-> "message", session |-> s, n |-> n] \in Intro
        /\ [why |-> "event", session |-> s, n |-> n] \in Intro
  BY DEF Intro
<1>6. 0 \in Count BY Bounds
<1>7. todo' \subseteq Intro
  <2>1. CASE x.kind = "chat_message"
    <3>1. todo' = {[why |-> "message", session |-> x.session, n |-> x.n]}
      BY <2>1 DEF Take
    <3> QED BY <1>2, <1>5, <2>1, <3>1
  <2>2. CASE x.kind = "group_profile_update"
    <3>1. todo' = {[why |-> "event", session |-> x.session, n |-> 0]}
      BY <2>2 DEF Take
    <3> QED BY <1>2, <1>5, <1>6, <2>2, <3>1
  <2>3. CASE x.kind = "history_events"
    <3>1. todo' = {[why |-> "event", session |-> s, n |-> 0] : s \in x.ids} \cup held
      BY <2>3 DEF Take
    <3> QED BY <1>2, <1>5, <1>6, <2>3, <3>1
  <2>4. CASE x.kind \notin {"chat_message", "group_profile_update", "history_events"}
    BY <2>4 DEF Take
  <2> QED BY <2>1, <2>2, <2>3, <2>4
<1>8. held' \subseteq Intro
  <2>1. CASE x.kind = "history_messages"
    <3>1. held' = {[why |-> "message", session |-> s, n |-> x.upto[s]] : s \in x.ids}
      BY <2>1 DEF Take
    <3>2. \A s \in x.ids : s \in Session /\ x.upto[s] \in Count BY <1>2, <2>1 DEF Counts
    <3> QED BY <1>5, <3>1, <3>2
  <2>2. CASE x.kind # "history_messages" BY <2>2 DEF Take
  <2> QED BY <2>1, <2>2
<1> DEFINE past(cursor, counts, ids) ==
             [s \in Session |-> IF s \in ids THEN Higher(cursor[s], counts[s]) ELSE cursor[s]]
           one == [s \in Session |-> x.n]
<1>9. \A ids : \A cursor, counts \in Counts : past(cursor, counts, ids) \in Counts
  BY CountsTyped DEF Counts
<1>10. x.n \in Count => one \in Counts BY DEF Counts
<1>11. Advance(x) BY DEF Take
<1>12. \/ msgCursor' = msgCursor
       \/ x.kind = "chat_message" /\ msgCursor' = past(msgCursor, one, {x.session})
       \/ x.kind = "history_messages" /\ msgCursor' = past(msgCursor, x.upto, x.ids)
  BY <1>11 DEF Advance
<1>13. \/ eventCursor' = eventCursor
       \/ x.kind = "group_profile_update" /\ eventCursor' = past(eventCursor, one, {x.session})
       \/ x.kind = "history_events" /\ eventCursor' = past(eventCursor, x.upto, x.ids)
  BY <1>11 DEF Advance
<1> HIDE DEF past, one
<1>14. msgCursor' \in Counts /\ eventCursor' \in Counts
  BY <1>2, <1>9, <1>10, <1>12, <1>13
<1> QED BY <1>1, <1>3, <1>4, <1>7, <1>8, <1>14

LEMMA InboxTypes ==
  ASSUME ClientTypes, Inbox PROVE ClientTypes'
<1> USE DEF ClientTypes
<1>1. CASE AskSync
  <2>1. wire' \in Seq(WireItem) BY <1>1 DEF AskSync
  <2> QED BY <1>1, <2>1 DEF AskSync, clientVars
<1>2. ASSUME NEW i \in todo, Introduce(i) PROVE ClientTypes'
  <2>1. i \in Intro BY DEF Intro
  <2>2. Job("join", i.session, i.n) \in JobSet /\ Job(i.why, i.session, i.n) \in JobSet
    <3>1. i.session \in Session /\ i.n \in Count /\ i.why \in {"event", "message"}
      BY <2>1 DEF Intro
    <3> QED BY <3>1, JobTyped
  <2>3. job' \in [Slot -> JobSet]
    <3>1. job' \in {Passing(job), [job EXCEPT !["inbox"] = Job("join", i.session, i.n)],
                   [job EXCEPT !["inbox"] = Job(i.why, i.session, i.n)]}
      BY <1>2 DEF Introduce
    <3> QED BY <2>2, <3>1, PassingTyped, SlotTyped
  <2>4. todo' \subseteq Intro BY <1>2 DEF Introduce
  <2> QED BY <1>2, <2>3, <2>4 DEF Introduce, netVars
<1> QED BY <1>1, <1>2, TakeTypes DEF Inbox

LEMMA HttpTypes ==
  ASSUME ClientTypes, ServerTypes, Http PROVE ClientTypes'
<1> USE DEF ClientTypes
<1>1. ASSUME NEW slot \in Slot, NEW ids \in SUBSET Session, Answered(slot, ids) \/ Failed(slot)
      PROVE  job' \in [Slot -> JobSet]
  <2> DEFINE j == job[slot]
             failed == [j EXCEPT !.st = "failed"]
             done == [j EXCEPT !.st = "answered", !.ids = ids, !.said = Within(said, ids)]
  <2>1. j \in JobSet /\ Within(said, ids) \in Counts BY Counting, CountsTyped
  <2>2. job' = [job EXCEPT ![slot] = failed] \/ job' = [job EXCEPT ![slot] = done]
    BY <1>1 DEF Answered, Failed
  <2> HIDE DEF j
  <2>3. failed \in JobSet BY <2>1, StatusTyped
  <2>4. done \in JobSet BY <2>1, AnsweredTyped, Zenon
  <2> HIDE DEF failed, done
  <2> QED BY <2>2, <2>3, <2>4, SlotTyped
<1>2. UNCHANGED <<netVars, todo, held, listed, hidden, msgCursor, eventCursor, started, acts>>
  BY DEF Http, ServeList, ServeFetch, FailHttp, ServeOpen, ServeLeave, Serving
<1>3. faults' \in 0..MaxFaults /\ drift' \in {"none", "old", "new"}
  <2>1. ASSUME NEW slot \in Slot, ServeList(slot) \/ ServeFetch(slot)
        PROVE  UNCHANGED faults /\ drift' \in {"old", "new", drift}
    BY <2>1 DEF ServeList, ServeFetch, Drifts
  <2>2. ASSUME NEW slot \in Slot, FailHttp(slot)
        PROVE  faults' \in 0..MaxFaults /\ drift' \in {"new", drift}
    BY <2>2, Bounds DEF FailHttp, Faulty, Drifts
  <2>3. ServeOpen \/ ServeLeave => UNCHANGED <<faults, drift>> BY DEF ServeOpen, ServeLeave
  <2> QED BY <2>1, <2>2, <2>3 DEF Http
<1>4. job' \in [Slot -> JobSet]
  <2>1. Listable \subseteq Session BY DEF Listable
  <2>2. ASSUME NEW slot \in Slot, ServeList(slot) PROVE job' \in [Slot -> JobSet]
    BY <1>1, <2>1, <2>2 DEF ServeList
  <2>3. ASSUME NEW slot \in Slot, ServeFetch(slot) PROVE job' \in [Slot -> JobSet]
    <3>1. job[slot].session \in Session BY DEF JobSet
    <3>2. {job[slot].session} \in SUBSET Session BY <3>1
    <3>3. Answered(slot, {job[slot].session}) \/ Failed(slot) BY <2>3 DEF ServeFetch
    <3> QED BY <1>1, <3>2, <3>3
  <2>4. ASSUME NEW slot \in Slot, FailHttp(slot) PROVE job' \in [Slot -> JobSet]
    BY <1>1, <2>1, <2>4 DEF FailHttp
  <2>5. "ui" \in Slot /\ {Chat} \in SUBSET Session BY Bounds DEF Slot
  <2>6. CASE ServeOpen BY <1>1, <2>5, <2>6 DEF ServeOpen
  <2>7. CASE ServeLeave
    <3>1. job["ui"].session \in Session BY <2>5 DEF JobSet
    <3>2. {job["ui"].session} \in SUBSET Session BY <3>1
    <3>3. Answered("ui", {job["ui"].session}) \/ Failed("ui") BY <2>7 DEF ServeLeave
    <3> QED BY <1>1, <2>5, <3>2, <3>3
  <2> QED BY <2>2, <2>3, <2>4, <2>6, <2>7 DEF Http
<1> QED BY <1>2, <1>3, <1>4 DEF netVars

LEMMA HideTypes ==
  ASSUME ClientTypes, ServerTypes, NEW s \in Session, Hide(s), acts' \in 0..MaxActs
  PROVE  ClientTypes'
<1> USE DEF ClientTypes
<1>1. UNCHANGED <<netVars, held, started, faults>> BY DEF Hide
<1>2. /\ listed' \subseteq Session /\ todo' \subseteq Intro
      /\ drift' \in {"none", "old", "new"}
  BY DEF Hide, Drifts
<1>3. hidden' \in [Session -> 0..NotHidden]
  <2>1. said[s] \in 0..NotHidden BY Counting, Bounds DEF Counts
  <2> QED BY <2>1 DEF Hide
<1>4. msgCursor' \in Counts /\ eventCursor' \in Counts BY CountsTyped DEF Hide
<1>5. job' \in [Slot -> JobSet]
  <2> DEFINE j == IF job["inbox"].do = "message" /\ job["inbox"].session = s
                  THEN NoJob ELSE job["inbox"]
  <2>1. "inbox" \in Slot /\ "ui" \in Slot BY DEF Slot
  <2>2. j \in JobSet BY <2>1, NoJobTyped
  <2>3. job' = [[job EXCEPT !["ui"] = NoJob] EXCEPT !["inbox"] = j] BY <2>1 DEF Hide
  <2> HIDE DEF j
  <2>4. [job EXCEPT !["ui"] = NoJob] \in [Slot -> JobSet] BY NoJobTyped, SlotTyped
  <2> QED BY <2>2, <2>3, <2>4, SlotTyped
<1> QED BY <1>1, <1>2, <1>3, <1>4, <1>5 DEF netVars

LEMMA OverTypes ==
  ASSUME ClientTypes, NEW slot \in Slot, Over(slot)
  PROVE  job' \in [Slot -> JobSet] /\ UNCHANGED <<netVars, todo, held, acts, faults>>
<1> DEFINE rest == [job EXCEPT ![slot] = NoJob]
<1>1. rest \in [Slot -> JobSet] BY NoJobTyped, SlotTyped DEF ClientTypes
<1>2. job' \in {Passing(rest), rest, [rest EXCEPT !["inbox"] = NoJob]} BY DEF Over
<1> HIDE DEF rest
<1>3. job' \in [Slot -> JobSet] BY <1>1, <1>2, PassingTyped, NoJobTyped, SlotTyped
<1> QED BY <1>3 DEF Over

LEMMA CacheTypes ==
  ASSUME ClientTypes, NEW s \in Session, NEW n,
         Cache(s, n)
  PROVE  listed' \subseteq Session /\ hidden' \in [Session -> 0..NotHidden]
<1>1. NotHidden \in 0..NotHidden BY Bounds
<1> QED BY <1>1 DEF Cache, ClientTypes

LEMMA StoreTypes ==
  ASSUME ClientTypes, ServerTypes, JobInv, Store PROVE ClientTypes'
<1> USE DEF ClientTypes
<1>0. "inbox" \in Slot /\ "ui" \in Slot BY DEF Slot
<1>1. ASSUME NEW slot \in Slot, StoreList(slot) PROVE ClientTypes'
  <2>1. job' \in [Slot -> JobSet] /\ UNCHANGED <<netVars, todo, held, acts, faults>>
    BY <1>1, OverTypes DEF StoreList
  <2>2. started' \in BOOLEAN
    <3>1. started' = (started \/ slot = "ui") BY <1>1 DEF StoreList
    <3> QED BY <3>1
  <2>3. drift' \in {"none", "old", "new"} BY <1>1 DEF StoreList
  <2>4. msgCursor' \in Counts /\ eventCursor' \in Counts BY <1>1, CountsTyped DEF StoreList
  <2>5. job[slot].ids \subseteq Session BY DEF JobSet
  <2>6. listed' \subseteq Session BY <1>1, <2>5 DEF StoreList
  <2>7. hidden' \in [Session -> 0..NotHidden]
    <3>1. NotHidden \in 0..NotHidden BY Bounds
    <3> QED BY <1>1, <3>1 DEF StoreList
  <2> QED BY <2>1, <2>2, <2>3, <2>4, <2>6, <2>7 DEF netVars
\* one session is stored, or none
<1>a. ASSUME NEW slot \in Slot, Over(slot), listed' \subseteq Session,
             hidden' \in [Session -> 0..NotHidden], Storing, drift' \in {drift, "new"}
      PROVE  ClientTypes'
  <2>1. job' \in [Slot -> JobSet] /\ UNCHANGED <<netVars, todo, held, acts, faults>>
    BY <1>a, OverTypes
  <2> QED BY <1>a, <2>1 DEF Storing, netVars
<1>b. job["inbox"].session \in Session /\ job["ui"].session \in Session BY <1>0 DEF JobSet
<1>2. CASE StoreEvent \/ StoreMessage
  <2> DEFINE s == job["inbox"].session
  <2>1. Over("inbox") /\ Storing /\ drift' \in {drift, "new"}
    BY <1>2 DEF StoreEvent, StoreMessage, Drifts
  <2>2. UNCHANGED <<listed, hidden>> \/ \E n : Cache(s, n)
    BY <1>2 DEF StoreEvent, StoreMessage
  <2> HIDE DEF s
  <2>3. listed' \subseteq Session /\ hidden' \in [Session -> 0..NotHidden]
    <3>1. CASE UNCHANGED <<listed, hidden>> BY <3>1
    <3>2. ASSUME NEW n, Cache(s, n)
          PROVE  listed' \subseteq Session /\ hidden' \in [Session -> 0..NotHidden]
      BY <1>b, <3>2, CacheTypes DEF s
    <3> QED BY <2>2, <3>1, <3>2
  <2> QED BY <1>0, <1>a, <2>1, <2>3
<1>4. CASE StoreOpen
  <2> DEFINE s == job["ui"].session
  <2>1. Over("ui") /\ Storing /\ drift' \in {drift, "new"} BY <1>4 DEF StoreOpen, Drifts
  <2>2. \/ UNCHANGED <<listed, hidden>>
        \/ listed' = listed \cup {s} /\ hidden' = [hidden EXCEPT ![s] = NotHidden]
    BY <1>4 DEF StoreOpen
  <2>3. s \in Session /\ NotHidden \in 0..NotHidden BY <1>b, Bounds
  <2> HIDE DEF s
  <2>4. listed' \subseteq Session /\ hidden' \in [Session -> 0..NotHidden] BY <2>2, <2>3
  <2> QED BY <1>0, <1>a, <2>1, <2>4
<1>5. CASE StoreLeave
  <2>1. CASE Hide(job["ui"].session) /\ UNCHANGED acts BY <1>b, <2>1, HideTypes
  <2>2. CASE Over("ui") /\ UNCHANGED <<listed, hidden, drift>> /\ Storing
    <3>1. /\ listed' \subseteq Session /\ hidden' \in [Session -> 0..NotHidden]
          /\ drift' \in {drift, "new"}
      BY <2>2
    <3> QED BY <1>0, <1>a, <2>2, <3>1
  <2> QED BY <1>5, <2>1, <2>2 DEF StoreLeave
<1> QED BY <1>1, <1>2, <1>4, <1>5 DEF Store

LEMMA UserTypes ==
  ASSUME ClientTypes, ServerTypes, UserStep PROVE ClientTypes'
<1> USE DEF ClientTypes
<1>1. ASSUME NEW do \in {"list", "open", "leave"}, NEW s \in Session, Begins(do, s),
             acts' \in 0..MaxActs, drift' \in {"none", drift}
      PROVE  ClientTypes'
  <2>1. Job(do, s, 0) \in JobSet BY JobTyped, Bounds
  <2>2. job' \in [Slot -> JobSet] BY <1>1, <2>1, SlotTyped DEF Begins
  <2> QED BY <1>1, <2>2 DEF Begins, netVars
<1>2. Act => acts' \in 0..MaxActs BY Bounds DEF Act
<1>3. CASE Start
  <2>1. drift' \in {"none", drift} BY <1>3 DEF Start
  <2> QED BY <1>1, <1>3, <2>1, Bounds DEF Start
<1>4. ASSUME NEW do \in {"list", "open", "leave"}, NEW s \in Session, Asks(do, s)
      PROVE  ClientTypes'
  BY <1>1, <1>2, <1>4 DEF Asks
<1>5. CASE RefreshList BY <1>4, <1>5, Bounds DEF RefreshList
<1>6. ASSUME NEW s \in Session, OpenSession(s) PROVE ClientTypes' BY <1>4, <1>6 DEF OpenSession
<1>7. ASSUME NEW s \in Session, HideSession(s) PROVE ClientTypes'
  BY <1>2, <1>7, HideTypes DEF HideSession
<1>8. ASSUME NEW g \in Group, Leave(g) PROVE ClientTypes' BY <1>4, <1>8, Bounds DEF Leave
<1>9. CASE Restart
  <2>1. faults' \in 0..MaxFaults BY <1>9, Bounds DEF Restart, Faulty
  <2>2. job' \in [Slot -> JobSet] BY <1>9, NoJobTyped DEF Restart
  <2>3. wire' \in Seq(WireItem) /\ todo' \subseteq Intro /\ held' \subseteq Intro
    BY <1>9 DEF Restart
  <2> QED BY <1>9, <2>1, <2>2, <2>3 DEF Restart, Drifts
<1> QED BY <1>3, <1>5, <1>6, <1>7, <1>8, <1>9 DEF UserStep

LEMMA ClientTypesStep ==
  ASSUME ClientTypes, ServerTypes, JobInv, [Next]_vars PROVE ClientTypes'
<1>1. CASE Server \/ UNCHANGED vars
  BY <1>1 DEF Server, vars, netVars, clientVars, ClientTypes
<1> QED BY <1>1, NetTypes, InboxTypes, HttpTypes, StoreTypes, UserTypes DEF Next

LEMMA TypesInit == Init => ServerTypes /\ ClientTypes
<1> SUFFICES ASSUME Init PROVE ServerTypes /\ ClientTypes OBVIOUS
<1>1. [s \in Session |-> 0] \in Counts /\ [s \in Session |-> 0] \in [Session -> Nat]
  BY Bounds DEF Counts
<1>2. Cardinality(Refreshes) = 0
  <2>1. Refreshes = {} BY DEF Init, Refreshes
  <2> QED BY <2>1, FS_EmptySet
<1>3. ServerTypes
  <2>1. before = TRUE /\ ops = 0 /\ out = {} /\ said = [s \in Session |-> 0] /\ told = said
    BY DEF Init
  <2> QED BY <1>1, <1>2, <2>1, Bounds DEF ServerTypes, Most
<1>4. ClientTypes
  <2>1. job \in [Slot -> JobSet] /\ hidden \in [Session -> 0..NotHidden]
    BY NoJobTyped, Bounds DEF Init
  <2>2. /\ msgCursor \in Counts /\ eventCursor \in Counts
        /\ faults \in 0..MaxFaults /\ acts \in 0..MaxActs
    BY <1>1, Bounds DEF Init
  <2>3. wire \in Seq(WireItem) BY DEF Init
  <2> QED BY <2>1, <2>2, <2>3 DEF Init, ClientTypes
<1> QED BY <1>3, <1>4

(* Every variable of server and client keeps its type; the counts stay     *)
(* below what the operations so far allow, and there is always a number    *)
(* left for the next contact_refresh.                                      *)
THEOREM SessionTypes == Spec => []TypeOK
<1> DEFINE Inv == IInv /\ ServerTypes /\ ClientTypes
<1>1. Init => Inv BY InitInv, TypesInit
<1>2. Inv /\ [Next]_vars => Inv'
  BY NextInv, ServerTypesStep, ClientTypesStep DEF IInv
<1>3. Inv => TypeOK
  BY Counting DEF IInv, GroupsInv, SocialInv, ServerTypes, ClientTypes, TypeOK, JobSet, SlotJobs
<1> QED BY <1>1, <1>2, <1>3, PTL DEF Spec

-----------------------------------------------------------------------------
(* The list and the server: what is on the way.                            *)

Kind == {"event", "message"}

Cursor(k, s) == IF k = "event" THEN eventCursor[s] ELSE msgCursor[s]
Number(k, s) == IF k = "event" THEN told[s] ELSE said[s]
Known(k, s) == IF k = "event" THEN ask.event[s] ELSE ask.msg[s]
One(k, s, n) == IF k = "event" THEN Event(s, n) ELSE Message(s, n)
Batch(k) == IF k = "event" THEN "history_events" ELSE "history_messages"

OnWire(kind) == \E i \in DOMAIN wire : wire[i].kind = kind
Carries(x, k, s, n) ==
  x = One(k, s, n) \/ (x.kind = Batch(k) /\ s \in x.ids /\ x.upto[s] = n)

\* a contact_refresh is on its way
Announced == (\E m \in out : m.kind = "contact_refresh") \/ OnWire("contact_refresh")

\* the last event, or message, of s is on its way, or the next sync has it
Due(k, s) ==
  /\ Cursor(k, s) < Number(k, s)
  /\ \/ link = "down" \/ OnWire("auth_ack")
     \/ ask.open /\ Known(k, s) < Number(k, s)
     \/ One(k, s, Number(k, s)) \in out
     \/ \E i \in DOMAIN wire : Carries(wire[i], k, s, Number(k, s))

AnyDue(s) == Announced \/ \E k \in Kind : Due(k, s)

-----------------------------------------------------------------------------
(* What the network may hold.                                              *)

AskType == {NoAsk} \cup [open : {TRUE}, msg : Counts, event : Counts]

\* one sync per connection, its messages in front of its events
SyncOrder ==
  /\ ask \in AskType
  /\ link = "down" => wire = <<>> /\ ~ask.open /\ held = {}
  /\ ask.open => ~OnWire("auth_ack")
  /\ ask.open \/ OnWire("auth_ack") =>
       held = {} /\ ~OnWire("history_messages") /\ ~OnWire("history_events")
  /\ held # {} => /\ wire # <<>> /\ Head(wire).kind = "history_events"
                  /\ ~OnWire("history_messages")
  /\ \A i \in DOMAIN wire :
       /\ wire[i].kind = "auth_ack" => i = 1
       /\ wire[i].kind = "history_messages" =>
            /\ i + 1 \in DOMAIN wire /\ wire[i + 1].kind = "history_events"
            /\ \A j \in DOMAIN wire : wire[j].kind = "history_messages" => j = i

\* a group that is gone does not come back
Dead(s) == s \in created /\ owner[s] = None

AtMost(x, k, s, n) ==
  /\ \A a \in Count : x = One(k, s, a) => a <= n
  /\ x.kind = Batch(k) => x.upto[s] <= n

\* no number is larger than the last one of its session
Numbered ==
  \A k \in Kind, s \in Session : ~Dead(s) =>
    /\ Cursor(k, s) <= Number(k, s)
    /\ \A m \in out : AtMost(m, k, s, Number(k, s))
    /\ \A i \in DOMAIN wire : AtMost(wire[i], k, s, Number(k, s))

\* groups have an event, private sessions with a message their members
Founded ==
  /\ \A g \in Group : owner[g] # None => g \in created /\ told[g] > 0
  /\ said[Chat] > 0 => {Me, Peer} \in directs

Unstarted ==
  before =>
    /\ ~started /\ link = "down" /\ wire = <<>> /\ ask = NoAsk
    /\ todo = {} /\ held = {} /\ job = [slot \in Slot |-> NoJob] /\ listed = {}
    /\ \A k \in Kind, s \in Session : Cursor(k, s) = 0

JobShape ==
  /\ job["inbox"].do \in {"none", "list", "event", "message", "join"}
  /\ ~job["inbox"].passed
  /\ job["ui"].do \in {"none", "list", "open", "leave"}
  /\ \A slot \in Slot :
       /\ job[slot].do = "none" => job[slot] = NoJob
       /\ job[slot].do \in {"event", "message", "open"} /\ job[slot].st = "answered" =>
            job[slot].ids = {job[slot].session}
  /\ job["inbox"].do = "join" =>
       job["ui"].do = "open" /\ job["ui"].session = job["inbox"].session

BaseInv == SyncOrder /\ Numbered /\ Founded /\ Unstarted /\ JobShape

-----------------------------------------------------------------------------
(* What is listed and gone will leave the list.                            *)

Waits(slot, do, st) == job[slot].do = do /\ job[slot].st = st

\* the list that is on its way to the dispatcher has no s
Purging(s) ==
  Waits("inbox", "list", "asked")
  \/ (Waits("inbox", "list", "answered") /\ s \notin job["inbox"].ids)

Leaving(s) == Fetchable(s) \/ Announced \/ Purging(s)

GoneLeave == drift = "none" => \A s \in listed : Leaving(s)

\* an answer shows what is there, or its end will be told
Current(slot) ==
  /\ job[slot].do \in {"list", "event", "message", "open"} /\ job[slot].st = "answered"
  /\ ~job[slot].passed

AnswersLeave ==
  drift # "new" => \A slot \in Slot : Current(slot) => \A s \in job[slot].ids : Leaving(s)

-----------------------------------------------------------------------------
(* What is there will be listed.                                           *)

Wanted(s) == s \in Listable /\ s \notin listed /\ ~Hidden(s, said[s])

Introducing(s) ==
  \/ \E i \in todo : i.session = s /\ i.why = "event"
  \/ \E i \in todo \cup held : i.session = s /\ i.why = "message" /\ ~Hidden(s, i.n)
  \/ job["inbox"].session = s /\ Waits("inbox", "event", "asked")
  \/ /\ job["inbox"].session = s /\ Waits("inbox", "event", "answered")
     /\ ~Hidden(s, job["inbox"].said[s])
  \/ /\ job["inbox"].session = s /\ job["inbox"].do \in {"message", "join"}
     /\ ~Hidden(s, job["inbox"].n)

Listing(s) ==
  \/ Waits("inbox", "list", "asked")
  \/ /\ Waits("inbox", "list", "answered") /\ s \in job["inbox"].ids
     /\ ~Hidden(s, job["inbox"].said[s])

Coming(s) == AnyDue(s) \/ Introducing(s) \/ Listing(s)

WantedCome == drift = "none" => \A s \in Session : Wanted(s) => Coming(s)

\* what is newer than a list that was answered will be told
ListsCome ==
  drift # "new" =>
    \A slot \in Slot : Waits(slot, "list", "answered") /\ ~job[slot].passed =>
      \A s \in Listable :
        s \notin job[slot].ids \/ job[slot].said[s] # said[s] => AnyDue(s)

ListInv == GoneLeave /\ AnswersLeave /\ WantedCome /\ ListsCome

-----------------------------------------------------------------------------
(* Operations on the server tell the client what it must know.             *)

Typed == IInv /\ ServerTypes /\ ClientTypes

LEMMA Sessions ==
  /\ Chat \in Session /\ Chat \notin Group /\ Group \subseteq Session
  /\ \A s \in Session : s # Chat => s \in Group
BY ChatIsNoGroup DEF Session

LEMMA Numbers ==
  ASSUME Typed
  PROVE  /\ said \in [Session -> Nat] /\ told \in [Session -> Nat]
         /\ msgCursor \in [Session -> Nat] /\ eventCursor \in [Session -> Nat]
         /\ \A k \in Kind, s \in Session : Number(k, s) \in Nat /\ Cursor(k, s) \in Nat
         /\ Count \subseteq Nat
<1>1. Count \subseteq Nat BY Bounds DEF Count
<1>2. /\ said \in [Session -> Nat] /\ told \in [Session -> Nat]
      /\ msgCursor \in [Session -> Nat] /\ eventCursor \in [Session -> Nat]
  BY <1>1 DEF Typed, ServerTypes, ClientTypes, Counts
<1> QED BY <1>1, <1>2 DEF Number, Cursor

LEMMA ItemKinds ==
  ASSUME NEW k \in Kind, NEW s, NEW n
  PROVE  /\ One(k, s, n).kind = (IF k = "event" THEN "group_profile_update" ELSE "chat_message")
         /\ One(k, s, n).session = s /\ One(k, s, n).n = n
         /\ Batch(k) \in {"history_messages", "history_events"}
         /\ Refresh(n).kind = "contact_refresh"
BY DEF Kind, One, Event, Message, Batch, Refresh

LEMMA NewRefreshKind ==
  ASSUME Typed PROVE NewRefresh \in Item /\ NewRefresh.kind = "contact_refresh"
BY NewRefreshIsNew, Kinds DEF Typed

LEMMA DeadGroups ==
  ASSUME Typed, NEW s \in Session, Dead(s) \/ owner[s] = None, s \in Group
  PROVE  members[s] = {} /\ ~Fetchable(s)
BY Sessions DEF Typed, IInv, GroupsInv, GroupsIntact, Dead, Fetchable

\* a group is changed, or ended
Changes(g) ==
  \/ \E u \in User : owner[g] = u /\ UNCHANGED <<created>> /\ owner'[g] # None
  \/ g \notin created /\ created' = created \cup {g} /\ owner'[g] # None

\* what an operation may do to s, as Me can see it
Same(s) ==
  /\ Fetchable(s) => Fetchable(s)'
  /\ told'[s] = told[s] /\ said'[s] = said[s]
  /\ s \in Listable' => s \in Listable

Tells ==
  /\ out \subseteq out'
  /\ \A s \in Session :
       \/ Same(s) \/ Announced'
       \/ ~Fetchable(s)' /\ ~Fetchable(s)
       \/ Fetchable(s)' /\ \E k \in Kind : Due(k, s)'

\* the client, and what is under way to it, take no part
Aside == UNCHANGED <<netVars, msgCursor, eventCursor>>

LEMMA OthersSame ==
  ASSUME NEW s \in Session, UNCHANGED <<blocks, directs>>, told'[s] = told[s], said'[s] = said[s],
         s # Chat => members'[s] = members[s]
  PROVE  Same(s)
BY DEF Same, Fetchable, Unblocked, Listable

LEMMA NewIsDue ==
  ASSUME Typed, Numbered, Aside, NEW k \in Kind, NEW s \in Session, ~Dead(s),
         Number(k, s)' = Number(k, s) + 1, One(k, s, Number(k, s) + 1) \in out'
  PROVE  Due(k, s)'
<1>1. Cursor(k, s)' = Cursor(k, s) /\ Cursor(k, s) <= Number(k, s)
  BY DEF Aside, Cursor, Numbered
<1>2. Cursor(k, s) \in Nat /\ Number(k, s) \in Nat BY Numbers
<1>3. Cursor(k, s)' < Number(k, s)' BY <1>1, <1>2
<1>4. One(k, s, Number(k, s))' = One(k, s, Number(k, s) + 1) BY DEF One, Event, Message
<1> QED BY <1>3, <1>4 DEF Due

\* one event of g, to its members, and a refresh for who has gone
LEMMA PublishTells ==
  ASSUME Typed, Numbered, Aside, NEW g \in Group, NEW gone, Publish(g, gone), ~Dead(g),
         \A h \in Group \ {g} : members'[h] = members[h],
         Me \in members'[g] \/ Me \notin members[g] \/ gone = Me
  PROVE  Tells
<1>1. out \subseteq out' BY DEF Publish
<1>2. ASSUME NEW s \in Session, s # g PROVE Same(s)
  <2>1. told'[s] = told[s] /\ said' = said BY <1>2, Numbers DEF Publish
  <2>2. s # Chat => members'[s] = members[s] BY <1>2, Sessions
  <2>3. UNCHANGED <<blocks, directs>> BY DEF Publish, socialVars
  <2> QED BY <2>1, <2>2, <2>3, OthersSame
<1>3. CASE gone = Me
  <2>1. NewRefresh \in out' BY <1>3 DEF Publish
  <2> QED BY <1>1, <2>1, NewRefreshKind DEF Tells, Announced
<1>4. CASE Me \in members'[g]
  <2>1. told'[g] = told[g] + 1 /\ Event(g, told[g] + 1) \in out'
    BY <1>4, Numbers, Sessions DEF Publish
  <2>2. Number("event", g)' = Number("event", g) + 1 BY <2>1 DEF Number
  <2>3. One("event", g, Number("event", g) + 1) = Event(g, told[g] + 1) BY DEF One, Number
  <2>4. "event" \in Kind /\ g \in Session BY Sessions DEF Kind
  <2>5. Due("event", g)' BY <2>1, <2>2, <2>3, <2>4, NewIsDue
  <2>6. Fetchable(g)' BY <1>4, Sessions DEF Fetchable
  <2> QED BY <1>1, <1>2, <2>4, <2>5, <2>6 DEF Tells
<1>5. CASE Me \notin members[g] /\ Me \notin members'[g]
  <2>1. ~Fetchable(g)' /\ ~Fetchable(g) BY <1>5, Sessions DEF Fetchable
  <2> QED BY <1>1, <1>2, <2>1 DEF Tells
<1> QED BY <1>3, <1>4, <1>5

Opens == OpenDirect(Me, Peer) /\ UNCHANGED <<groupVars, said, told, out>>

Operation ==
  \/ Befriend \/ Blocking \/ OpenChat \/ Opens
  \/ \E g \in Group : ChangeGroup(g) \/ EndGroup(g) \/ LeaveGroup(g)
  \/ \E s \in Session : Write(s)

LEMMA OperationTells ==
  ASSUME Typed, BaseInv, Aside, Operation PROVE Tells
<1> USE TwoUsers
<1>0. Numbered /\ Founded BY DEF BaseInv
<1>a. /\ owner \in [Group -> User \cup {None}] /\ members \in [Group -> SUBSET User]
      /\ created \subseteq Group
  BY DEF Typed, IInv, GroupsInv, GroupsTypeOK
<1>b. None \notin User BY NoneOwnsNothing
<1>1. CASE Befriend
  <2>1. UNCHANGED <<blocks, directs, members, said, told, out>>
    BY <1>1 DEF Befriend, AskFriend, Unfriend, Accept, Reject, AnswerTooLate, Age, groupVars
  <2>2. \A s \in Session : Same(s) BY <2>1, OthersSame
  <2> QED BY <2>1, <2>2 DEF Tells
<1>2. CASE Blocking
  <2>1. PICK u, v \in User :
          /\ BlockUser(u, v) \/ UnblockUser(u, v)
          /\ out' = out \cup (IF Me \in {u, v} THEN {NewRefresh} ELSE {})
    BY <1>2 DEF Blocking
  <2>2. UNCHANGED <<members, said, told, directs>>
    BY <1>2, <2>1 DEF Blocking, groupVars, BlockUser, UnblockUser
  <2>3. CASE Me \in {u, v}
    <3>1. NewRefresh \in out' BY <2>1, <2>3
    <3> QED BY <2>1, <3>1, NewRefreshKind DEF Tells, Announced
  <2>4. CASE Me \notin {u, v}
    <3>1. blocks' \cap Both(Me, Peer) = blocks \cap Both(Me, Peer)
      BY <2>1, <2>4 DEF BlockUser, UnblockUser, Both
    <3>2. \A s \in Session : Same(s)
      BY <2>2, <3>1 DEF Same, Fetchable, Unblocked, Listable
    <3> QED BY <2>1, <3>2 DEF Tells
  <2> QED BY <2>3, <2>4
<1>3. CASE OpenChat \/ Opens
  <2>1. /\ directs' = directs \cup {{Me, Peer}} /\ Unblocked(Me, Peer)
        /\ UNCHANGED <<blocks, members, said, told, out>>
    BY <1>3 DEF OpenChat, Opens, OpenDirect, groupVars, Unblocked, Both
  <2>2. ASSUME NEW s \in Session, s # Chat PROVE Same(s)
    BY <2>1, <2>2 DEF Same, Fetchable, Listable
  <2>3. CASE said[Chat] = 0
    <3>1. Chat \notin Listable' BY <2>1, <2>3, Numbers, Sessions DEF Listable
    <3>2. Fetchable(Chat) => Fetchable(Chat)' BY <2>1 DEF Fetchable, Unblocked
    <3>3. Same(Chat) BY <2>1, <3>1, <3>2 DEF Same
    <3> QED BY <2>1, <2>2, <3>3 DEF Tells
  <2>4. CASE said[Chat] # 0
    <3>1. {Me, Peer} \in directs BY <1>0, <2>4, Numbers, Sessions DEF Founded
    <3>2. directs' = directs BY <2>1, <3>1
    <3>3. Same(Chat) BY <2>1, <3>2, Sessions, OthersSame
    <3> QED BY <2>1, <2>2, <3>3 DEF Tells
  <2> QED BY <2>3, <2>4
<1>4. ASSUME NEW g \in Group, ChangeGroup(g) \/ LeaveGroup(g) PROVE Tells
  <2>1. ASSUME NEW u \in User, NEW M \in SUBSET User, CreateGroup(u, g, M), Publish(g, None)
        PROVE  Tells
    <3>1. ~Dead(g) BY <2>1 DEF CreateGroup, Dead
    <3>2. owner[g] = None \/ g \in created BY <1>0 DEF Founded
    <3>3. Me \notin members[g]
      BY <2>1, <1>0, Sessions DEF CreateGroup, Founded, Typed, IInv, GroupsInv, GroupsIntact
    <3>4. \A h \in Group \ {g} : members'[h] = members[h] BY <1>a, <2>1 DEF CreateGroup
    <3> QED BY <1>0, <2>1, <3>1, <3>3, <3>4, PublishTells
  <2>2. ASSUME NEW u \in User, NEW v \in User, AddMember(u, g, v), Publish(g, None) PROVE Tells
    <3>1. ~Dead(g) BY <1>b, <2>2 DEF AddMember, Dead
    <3>2. \A h \in Group : members[h] \subseteq members'[h] /\ (h # g => members'[h] = members[h])
      BY <1>a, <2>2 DEF AddMember
    <3>3. Me \in members'[g] \/ Me \notin members[g] BY <3>2
    <3> QED BY <1>0, <2>2, <3>1, <3>2, <3>3, PublishTells
  <2>3. ASSUME NEW u \in User, NEW v \in User, RemoveMember(u, g, v), Publish(g, v) PROVE Tells
    <3>1. ~Dead(g) BY <2>3 DEF RemoveMember, Dead
    <3>2. \A h \in Group : members'[h] = IF h = g THEN members[g] \ {v} ELSE members[h]
      BY <1>a, <2>3 DEF RemoveMember
    <3>3. Me \in members'[g] \/ Me \notin members[g] \/ v = Me BY <3>2
    <3> QED BY <1>0, <2>3, <3>1, <3>2, <3>3, PublishTells
  <2>4. ASSUME NEW u \in User, NEW v \in User, Publish(g, None),
               TransferOwnership(u, g, v) \/ \E role \in Role : UpdateRole(u, g, v, role)
        PROVE  Tells
    <3>1. ~Dead(g) BY <1>b, <2>4 DEF TransferOwnership, UpdateRole, Dead
    <3>2. members' = members BY <2>4 DEF TransferOwnership, UpdateRole
    <3> QED BY <1>0, <2>4, <3>1, <3>2, PublishTells
  <2> QED BY <1>4, <2>1, <2>2, <2>3, <2>4 DEF ChangeGroup, LeaveGroup
<1>5. ASSUME NEW g \in Group, EndGroup(g) PROVE Tells
  <2>1. /\ members' = [members EXCEPT ![g] = {}] /\ UNCHANGED <<blocks, directs>>
        /\ said' = [said EXCEPT ![g] = 0] /\ told' = [told EXCEPT ![g] = 0]
        /\ out' = out \cup (IF Me \in members[g] THEN {NewRefresh} ELSE {})
    BY <1>5 DEF EndGroup, DeleteGroup, socialVars
  <2>2. ASSUME NEW s \in Session, s # g PROVE Same(s)
    <3>1. s # Chat => members'[s] = members[s] BY <1>a, <2>1, <2>2, Sessions
    <3>2. told'[s] = told[s] /\ said'[s] = said[s] BY <2>1, <2>2, Numbers
    <3> QED BY <2>1, <3>1, <3>2, OthersSame
  <2>3. CASE Me \in members[g]
    <3>1. NewRefresh \in out' BY <2>1, <2>3
    <3> QED BY <2>1, <3>1, NewRefreshKind DEF Tells, Announced
  <2>4. CASE Me \notin members[g]
    <3>1. ~Fetchable(g) /\ ~Fetchable(g)' BY <1>a, <2>1, <2>4, Sessions DEF Fetchable
    <3> QED BY <2>1, <2>2, <3>1 DEF Tells
  <2> QED BY <2>3, <2>4
<1>6. ASSUME NEW s \in Session, Write(s) PROVE Tells
  <2>1. /\ UNCHANGED <<blocks, directs, members, told>> /\ Fetchable(s)
        /\ said' = [said EXCEPT ![s] = @ + 1] /\ out' = out \cup {Message(s, said[s] + 1)}
    BY <1>6 DEF Write, socialVars, groupVars
  <2>2. ASSUME NEW x \in Session, x # s PROVE Same(x)
    BY <2>1, <2>2, Numbers, OthersSame
  <2>3. ~Dead(s)
    <3>1. CASE s \in Group BY <2>1, <3>1, DeadGroups
    <3>2. CASE s \notin Group BY <1>a, <3>2 DEF Dead
    <3> QED BY <3>1, <3>2
  <2>4. Number("message", s)' = Number("message", s) + 1
    BY <2>1, Numbers DEF Number
  <2>5. One("message", s, Number("message", s) + 1) = Message(s, said[s] + 1) BY DEF One, Number
  <2>6. "message" \in Kind BY DEF Kind
  <2>7. Due("message", s)' BY <1>0, <2>1, <2>3, <2>4, <2>5, <2>6, NewIsDue
  <2>8. Fetchable(s)' BY <2>1 DEF Fetchable, Unblocked
  <2> QED BY <2>1, <2>2, <2>6, <2>7, <2>8 DEF Tells
<1> QED BY <1>1, <1>2, <1>3, <1>4, <1>5, <1>6 DEF Operation

-----------------------------------------------------------------------------
(* Operations keep the numbers in order.                                   *)

LEMMA AtMostMonotone ==
  ASSUME NEW x \in WireItem, NEW k \in Kind, NEW s \in Session,
         NEW n \in Nat, NEW m \in Nat, n <= m, AtMost(x, k, s, n)
  PROVE  AtMost(x, k, s, m)
<1>1. Count \subseteq Nat BY Bounds DEF Count
<1>2. x.kind = Batch(k) => x.upto[s] \in Nat
  BY <1>1 DEF WireItem, Item, Batch, Kind, Counts
<1>3. \A a \in Count : x = One(k, s, a) => a <= m BY <1>1 DEF AtMost
<1>4. ASSUME x.kind = Batch(k) PROVE x.upto[s] <= m
  <2> DEFINE u == x.upto[s]
  <2>1. u \in Nat /\ u <= n BY <1>2, <1>4 DEF AtMost
  <2> HIDE DEF u
  <2>2. u <= m BY <2>1
  <2> QED BY <2>2 DEF u
<1> QED BY <1>3, <1>4 DEF AtMost

\* a refresh has no number of a session
LEMMA RefreshAtMost ==
  ASSUME NEW x, x.kind \in {"contact_refresh", "auth_ack"}, NEW k \in Kind, NEW s, NEW n
  PROVE  AtMost(x, k, s, n)
BY ItemKinds DEF AtMost, Kind, One, Event, Message, Batch

LEMMA OneAtMost ==
  ASSUME NEW l \in Kind, NEW t \in Session, NEW c \in Nat, NEW k \in Kind, NEW s \in Session,
         NEW n \in Nat, k = l /\ s = t => c <= n
  PROVE  AtMost(One(l, t, c), k, s, n)
<1>1. ASSUME NEW a \in Count, One(l, t, c) = One(k, s, a) PROVE a <= n
  BY <1>1, ItemKinds DEF Kind, One, Event, Message
<1>2. One(l, t, c).kind # Batch(k) BY DEF Kind, One, Event, Message, Batch
<1> QED BY <1>1, <1>2 DEF AtMost

LEMMA NumberedGrows ==
  ASSUME Typed, Numbered, Aside, ServerTypes', \A s \in Session : Dead(s) => Dead(s)',
         \A k \in Kind, s \in Session : ~Dead(s)' => Number(k, s) <= Number(k, s)',
         \A m \in out' : m \in out \/ \A k \in Kind, s \in Session : ~Dead(s)' =>
                                        AtMost(m, k, s, Number(k, s)')
  PROVE  Numbered'
<1> SUFFICES ASSUME NEW k \in Kind, NEW s \in Session, ~Dead(s)'
             PROVE  /\ Cursor(k, s)' <= Number(k, s)'
                    /\ \A m \in out' : AtMost(m, k, s, Number(k, s)')
                    /\ \A i \in DOMAIN wire' : AtMost(wire'[i], k, s, Number(k, s)')
  BY DEF Numbered, AtMost, Batch, One, Event, Message
<1>1. Number(k, s) \in Nat /\ Cursor(k, s) \in Nat BY Numbers
<1>2. Number(k, s)' \in Nat BY DEF ServerTypes, Number
<1>3. /\ Cursor(k, s) <= Number(k, s)
      /\ \A m \in out : AtMost(m, k, s, Number(k, s))
      /\ \A i \in DOMAIN wire : AtMost(wire[i], k, s, Number(k, s))
  BY DEF Numbered
<1>4. Number(k, s) <= Number(k, s)' OBVIOUS
<1>5. Cursor(k, s)' = Cursor(k, s) /\ wire' = wire BY DEF Aside, Cursor, netVars
<1> DEFINE n == Number(k, s)
           np == Number(k, s)'
<1>6. out \subseteq WireItem /\ \A i \in DOMAIN wire : wire[i] \in WireItem
  BY Kinds DEF Typed, ServerTypes, ClientTypes
<1> HIDE DEF n, np
<1>7. \A x \in WireItem : AtMost(x, k, s, n) => AtMost(x, k, s, np)
  BY <1>1, <1>2, <1>4, AtMostMonotone DEF n, np
<1>8. \A m \in out' : m \in out \/ AtMost(m, k, s, np) BY DEF np
<1> QED BY <1>1, <1>2, <1>3, <1>4, <1>5, <1>6, <1>7, <1>8 DEF n, np

LEMMA PublishNumbers ==
  ASSUME Typed, Numbered, Aside, ServerTypes', NEW g \in Group, NEW gone, Publish(g, gone),
         \A s \in Session : Dead(s) => Dead(s)'
  PROVE  Numbered'
<1>0. g \in Session /\ Numbered BY Sessions
<1>1. \A k \in Kind, s \in Session :
        Number(k, s)' = IF k = "event" /\ s = g THEN Number(k, s) + 1 ELSE Number(k, s)
  BY <1>0, Numbers DEF Publish, Number, Kind
<1>2. \A k \in Kind, s \in Session : Number(k, s) <= Number(k, s)' BY <1>1, Numbers
<1>3. "event" \in Kind /\ told[g] + 1 \in Nat BY <1>0, Numbers DEF Kind
<1>4. ASSUME NEW m \in out', m \notin out, NEW k \in Kind, NEW s \in Session
      PROVE  AtMost(m, k, s, Number(k, s)')
  <2>1. m = NewRefresh \/ m = Event(g, told[g] + 1) BY <1>4 DEF Publish
  <2>2. CASE m = NewRefresh BY <2>2, NewRefreshKind, RefreshAtMost
  <2>3. CASE m = Event(g, told[g] + 1)
    <3>1. m = One("event", g, told[g] + 1) BY <2>3 DEF One
    <3>2. Number(k, s)' \in Nat BY <1>1, Numbers
    <3>3. k = "event" /\ s = g => told[g] + 1 <= Number(k, s)'
      BY <1>0, <1>1, <1>3 DEF Number
    <3> DEFINE np == Number(k, s)'
               c == told[g] + 1
    <3>4. np \in Nat /\ c \in Nat /\ (k = "event" /\ s = g => c <= np) BY <1>3, <3>2, <3>3
    <3>5. m = One("event", g, c) BY <3>1
    <3> HIDE DEF np, c
    <3>6. AtMost(m, k, s, np) BY <1>0, <1>3, <3>4, <3>5, OneAtMost
    <3> QED BY <3>6 DEF np
  <2> QED BY <2>1, <2>2, <2>3
<1> QED BY <1>0, <1>2, <1>4, NumberedGrows

\* a group that is gone stays so, one that is new has an event
LEMMA PublishFounded ==
  ASSUME Typed, Founded, NEW g \in Group, NEW gone, Publish(g, gone),
         \/ created' = created /\ owner[g] # None
         \/ created' = created \cup {g} /\ g \notin created,
         \A h \in Group \ {g} : owner'[h] = owner[h],
         owner'[g] # None
  PROVE  Founded' /\ \A s \in Session : Dead(s) => Dead(s)'
<1>1. created \subseteq Group BY DEF Typed, IInv, GroupsInv, GroupsTypeOK
<1>2. told' = [told EXCEPT ![g] = @ + 1] /\ said' = said /\ directs' = directs
  BY DEF Publish, socialVars
<1>3. \A h \in Group : told'[h] > 0 \/ (h # g /\ told'[h] = told[h])
  BY <1>2, Numbers, Sessions
<1>4. g \in created' /\ created \subseteq created' BY DEF Founded
<1>5. Founded' BY <1>2, <1>3, <1>4 DEF Founded
<1>6. \A s \in Session : Dead(s) => s \in Group /\ s # g BY <1>1 DEF Dead
<1> QED BY <1>4, <1>5, <1>6 DEF Dead

LEMMA OperationKeeps ==
  ASSUME Typed, BaseInv, Aside, Operation, ServerTypes'
  PROVE  Numbered' /\ Founded' /\ \A s \in Session : Dead(s) => Dead(s)'
<1> USE TwoUsers
<1> DEFINE Fine == Numbered' /\ Founded' /\ \A s \in Session : Dead(s) => Dead(s)'
<1>0. Numbered /\ Founded BY DEF BaseInv
<1>a. /\ owner \in [Group -> User \cup {None}] /\ members \in [Group -> SUBSET User]
      /\ created \subseteq Group
  BY DEF Typed, IInv, GroupsInv, GroupsTypeOK
<1>b. None \notin User BY NoneOwnsNothing
\* groups and counts stay
<1>c. ASSUME UNCHANGED <<created, owner, said, told>>, directs \subseteq directs',
             \A m \in out' : m \in out \/ m = NewRefresh
      PROVE  Fine
  <2>1. Founded' BY <1>0, <1>c DEF Founded
  <2>2. \A s \in Session : Dead(s) <=> Dead(s)' BY <1>c DEF Dead
  <2>3. \A k \in Kind, s \in Session : Number(k, s)' = Number(k, s) BY <1>c DEF Number
  <2>4. \A k \in Kind, s \in Session : Number(k, s) <= Number(k, s)' BY <2>3, Numbers
  <2>5. \A m \in out' : m \in out \/ \A k \in Kind, s \in Session : ~Dead(s)' =>
                                       AtMost(m, k, s, Number(k, s)')
    BY <1>c, NewRefreshKind, RefreshAtMost
  <2> QED BY <1>0, <2>1, <2>2, <2>4, <2>5, NumberedGrows
<1>1. CASE Befriend
  <2>1. UNCHANGED <<directs, created, owner, said, told, out>>
    BY <1>1 DEF Befriend, AskFriend, Unfriend, Accept, Reject, AnswerTooLate, Age, groupVars
  <2> QED BY <1>c, <2>1
<1>2. CASE Blocking
  <2>1. UNCHANGED <<directs, created, owner, said, told>>
    BY <1>2 DEF Blocking, groupVars, BlockUser, UnblockUser
  <2>2. \A m \in out' : m \in out \/ m = NewRefresh BY <1>2 DEF Blocking
  <2> QED BY <1>c, <2>1, <2>2
<1>3. CASE OpenChat \/ Opens
  <2>1. UNCHANGED <<created, owner, said, told, out>> /\ directs \subseteq directs'
    BY <1>3 DEF OpenChat, Opens, OpenDirect, groupVars
  <2> QED BY <1>c, <2>1
<1>4. ASSUME NEW g \in Group, ChangeGroup(g) \/ LeaveGroup(g) PROVE Fine
  <2>a. ASSUME NEW gone, Publish(g, gone),
               \/ created' = created /\ owner[g] # None
               \/ created' = created \cup {g} /\ g \notin created,
               \A h \in Group \ {g} : owner'[h] = owner[h],
               owner'[g] # None
        PROVE  Fine
    <3>1. Founded' /\ \A s \in Session : Dead(s) => Dead(s)'
      BY <1>0, <2>a, PublishFounded
    <3> QED BY <1>0, <2>a, <3>1, PublishNumbers
  <2>1. ASSUME NEW u \in User, NEW M \in SUBSET User, CreateGroup(u, g, M), Publish(g, None)
        PROVE  Fine
    <3>1. owner'[g] = u /\ \A h \in Group \ {g} : owner'[h] = owner[h]
      BY <1>a, <2>1 DEF CreateGroup
    <3>2. g \notin created /\ created' = created \cup {g} BY <2>1 DEF CreateGroup
    <3> QED BY <1>b, <2>a, <2>1, <3>1, <3>2
  <2>2. ASSUME NEW u \in User, NEW v \in User, AddMember(u, g, v), Publish(g, None) PROVE Fine
    BY <1>b, <2>a, <2>2 DEF AddMember
  <2>3. ASSUME NEW u \in User, NEW v \in User, RemoveMember(u, g, v), Publish(g, v) PROVE Fine
    BY <1>b, <2>a, <2>3 DEF RemoveMember
  <2>4. ASSUME NEW u \in User, NEW v \in User, Publish(g, None), TransferOwnership(u, g, v)
        PROVE  Fine
    <3>1. owner'[g] = v /\ \A h \in Group \ {g} : owner'[h] = owner[h]
      BY <1>a, <2>4 DEF TransferOwnership
    <3>2. owner[g] # None /\ created' = created BY <1>b, <2>4 DEF TransferOwnership
    <3> QED BY <1>b, <2>a, <2>4, <3>1, <3>2
  <2>5. ASSUME NEW u \in User, NEW v \in User, NEW role, UpdateRole(u, g, v, role),
               Publish(g, None)
        PROVE  Fine
    BY <1>b, <2>a, <2>5 DEF UpdateRole
  <2> QED BY <1>4, <2>1, <2>2, <2>3, <2>4, <2>5 DEF ChangeGroup, LeaveGroup
<1>5. ASSUME NEW g \in Group, EndGroup(g) PROVE Fine
  <2>1. /\ owner' = [owner EXCEPT ![g] = None] /\ created' = created /\ directs' = directs
        /\ said' = [said EXCEPT ![g] = 0] /\ told' = [told EXCEPT ![g] = 0]
        /\ out' = out \cup (IF Me \in members[g] THEN {NewRefresh} ELSE {})
        /\ owner[g] # None
    BY <1>5, <1>b DEF EndGroup, DeleteGroup, socialVars
  <2>2. \A s \in Session : s # g => told'[s] = told[s] /\ said'[s] = said[s]
    BY <2>1, Numbers
  <2>3. g \in created BY <1>0, <2>1 DEF Founded
  <2>4. Dead(g)' BY <1>a, <2>1, <2>3 DEF Dead
  <2>5. \A s \in Session : Dead(s) => Dead(s)' BY <1>a, <2>1, <2>4 DEF Dead
  <2>6. Founded'
    <3>1. \A h \in Group : owner'[h] # None => owner[h] # None /\ h # g BY <1>a, <2>1
    <3> QED BY <1>0, <2>1, <2>2, <3>1, Sessions DEF Founded
  <2>7. \A k \in Kind, s \in Session : ~Dead(s)' => Number(k, s)' = Number(k, s)
    BY <2>2, <2>4 DEF Number
  <2>8. \A k \in Kind, s \in Session : ~Dead(s)' => Number(k, s) <= Number(k, s)'
    BY <2>7, Numbers
  <2>9. \A m \in out' : m \in out \/ \A k \in Kind, s \in Session : ~Dead(s)' =>
                                       AtMost(m, k, s, Number(k, s)')
    BY <2>1, NewRefreshKind, RefreshAtMost
  <2> QED BY <1>0, <2>5, <2>6, <2>8, <2>9, NumberedGrows
<1>6. ASSUME NEW s \in Session, Write(s) PROVE Fine
  <2>1. /\ UNCHANGED <<directs, owner, created, told>> /\ Fetchable(s)
        /\ said' = [said EXCEPT ![s] = @ + 1] /\ out' = out \cup {Message(s, said[s] + 1)}
    BY <1>6 DEF Write, socialVars, groupVars
  <2>2. \A x \in Session : Dead(x) <=> Dead(x)' BY <2>1 DEF Dead
  <2>3. Founded'
    <3>1. s = Chat => {Me, Peer} \in directs BY <2>1 DEF Fetchable
    <3>2. s # Chat => said'[Chat] = said[Chat] BY <2>1, Numbers, Sessions
    <3> QED BY <1>0, <2>1, <3>1, <3>2 DEF Founded
  <2>4. \A k \in Kind, x \in Session :
          Number(k, x)' = IF k = "message" /\ x = s THEN Number(k, x) + 1 ELSE Number(k, x)
    BY <2>1, Numbers DEF Number, Kind
  <2>5. \A k \in Kind, x \in Session : Number(k, x) <= Number(k, x)' BY <2>4, Numbers
  <2>6. ASSUME NEW m \in out', m \notin out, NEW k \in Kind, NEW x \in Session
        PROVE  AtMost(m, k, x, Number(k, x)')
    <3> DEFINE np == Number(k, x)'
               c == said[s] + 1
    <3>1. m = One("message", s, c) BY <2>1, <2>6 DEF One
    <3>2. c \in Nat /\ "message" \in Kind BY Numbers DEF Kind
    <3>3. np \in Nat BY <2>4, Numbers
    <3>4. k = "message" /\ x = s => c <= np
      <4>1. Number("message", s) = said[s] BY DEF Number
      <4> QED BY <2>4, <3>2, <4>1
    <3> HIDE DEF np, c
    <3>5. AtMost(m, k, x, np) BY <3>1, <3>2, <3>3, <3>4, OneAtMost
    <3> QED BY <3>5 DEF np
  <2> QED BY <1>0, <2>2, <2>3, <2>5, <2>6, NumberedGrows
<1> QED BY <1>1, <1>2, <1>3, <1>4, <1>5, <1>6 DEF Operation

-----------------------------------------------------------------------------
(* No news is lost: what a step keeps that the dispatcher takes nothing in.*)

Keeps ==
  \A s \in Session :
    /\ Fetchable(s) => Fetchable(s)' \/ Announced'
    /\ Announced => Announced'
    /\ s \in Listable' => AnyDue(s)' \/ (s \in Listable /\ said'[s] = said[s])
    /\ s \in Listable' /\ AnyDue(s) => AnyDue(s)'

LEMMA OperationNews ==
  ASSUME Typed, Tells, Aside PROVE Keeps
<1> SUFFICES ASSUME NEW s \in Session
             PROVE  /\ Fetchable(s) => Fetchable(s)' \/ Announced'
                    /\ Announced => Announced'
                    /\ s \in Listable' => AnyDue(s)' \/ (s \in Listable /\ said'[s] = said[s])
                    /\ s \in Listable' /\ AnyDue(s) => AnyDue(s)'
  BY DEF Keeps
<1>0. wire' = wire /\ link' = link /\ ask' = ask BY DEF Aside, netVars
<1>1. Announced => Announced' BY <1>0 DEF Tells, Announced, OnWire
<1>2. s \in Listable' => Fetchable(s)' BY DEF Listable
<1>3. CASE Announced' BY <1>3 DEF AnyDue
<1>4. CASE ~Fetchable(s)' /\ ~Fetchable(s) BY <1>1, <1>2, <1>4
<1>5. CASE Fetchable(s)' /\ \E k \in Kind : Due(k, s)' BY <1>1, <1>5 DEF AnyDue
<1>6. CASE Same(s)
  <2>1. ASSUME NEW k \in Kind, Due(k, s) PROVE Due(k, s)'
    <3>1. /\ Number(k, s)' = Number(k, s) /\ Cursor(k, s)' = Cursor(k, s)
          /\ Known(k, s)' = Known(k, s)
      BY <1>0, <1>6 DEF Same, Number, Cursor, Known, Aside
    <3>2. One(k, s, Number(k, s))' = One(k, s, Number(k, s)) BY <3>1 DEF One, Event, Message
    <3>3. out \subseteq out' BY DEF Tells
    <3>4. ASSUME NEW i \in DOMAIN wire, Carries(wire[i], k, s, Number(k, s))
          PROVE  Carries(wire[i], k, s, Number(k, s))'
      BY <1>0, <3>1, <3>2, <3>4 DEF Carries, Batch, One, Event, Message
    <3> QED BY <1>0, <2>1, <3>1, <3>2, <3>3, <3>4 DEF Due, OnWire
  <2>2. AnyDue(s) => AnyDue(s)' BY <1>1, <2>1 DEF AnyDue
  <2> QED BY <1>1, <1>6, <2>2 DEF Same
<1> QED BY <1>3, <1>4, <1>5, <1>6 DEF Tells

\* the server and the network rest, and cursors are dropped
Rests ==
  /\ UNCHANGED <<blocks, directs, members, said, told, out, wire, link, ask>>
  /\ \A k \in Kind, s \in Session : Cursor(k, s)' <= Cursor(k, s)

LEMMA RestNews ==
  ASSUME Typed, ClientTypes', Rests PROVE Keeps
<1>1. \A s \in Session : /\ Fetchable(s)' <=> Fetchable(s)
                         /\ s \in Listable' <=> s \in Listable
  BY DEF Rests, Fetchable, Listable, Unblocked
<1>2. Announced' <=> Announced BY DEF Rests, Announced, OnWire
<1>3. ASSUME NEW k \in Kind, NEW s \in Session, Due(k, s) PROVE Due(k, s)'
  <2>1. Number(k, s)' = Number(k, s) /\ Known(k, s)' = Known(k, s)
    BY DEF Rests, Number, Known
  <2>2. One(k, s, Number(k, s))' = One(k, s, Number(k, s)) BY <2>1 DEF One, Event, Message
  <2>3. Cursor(k, s)' \in Nat
    <3>1. Count \subseteq Nat BY Bounds DEF Count
    <3> QED BY <3>1 DEF Cursor, ClientTypes, Counts
  <2>4. Cursor(k, s) \in Nat /\ Number(k, s) \in Nat BY Numbers
  <2>5. Cursor(k, s)' <= Cursor(k, s) BY DEF Rests
  <2>6. Cursor(k, s) < Number(k, s) BY <1>3 DEF Due
  <2> DEFINE c == Cursor(k, s)
             cp == Cursor(k, s)'
             n == Number(k, s)
  <2>7. cp < n
    <3>1. cp \in Nat /\ c \in Nat /\ n \in Nat /\ cp <= c /\ c < n BY <2>3, <2>4, <2>5, <2>6
    <3> HIDE DEF c, cp, n
    <3> QED BY <3>1
  <2>8. ASSUME NEW i \in DOMAIN wire, Carries(wire[i], k, s, Number(k, s))
        PROVE  Carries(wire[i], k, s, Number(k, s))'
    BY <2>1, <2>2, <2>8 DEF Rests, Carries, Batch, One, Event, Message
  <2> QED BY <1>3, <2>1, <2>2, <2>7, <2>8 DEF Rests, Due, OnWire
<1>4. \A s \in Session : AnyDue(s) => AnyDue(s)' BY <1>2, <1>3 DEF AnyDue
<1>5. said' = said BY DEF Rests
<1> QED BY <1>1, <1>2, <1>4, <1>5 DEF Keeps

\* the client takes no part
Idles == UNCHANGED <<listed, hidden, todo, held, job, drift>>

LEMMA IdleList ==
  ASSUME Typed, ListInv, Keeps, Idles PROVE ListInv'
<1>1. \A s : Purging(s)' <=> Purging(s) BY DEF Idles, Purging, Waits
<1>2. \A s \in Session : Leaving(s) => Leaving(s)' BY <1>1 DEF Leaving, Keeps
<1>3. listed \subseteq Session /\ \A slot \in Slot : job[slot].ids \subseteq Session
  BY DEF Typed, ClientTypes, JobSet
<1>4. GoneLeave' BY <1>2, <1>3 DEF ListInv, GoneLeave, Idles
<1>5. AnswersLeave'
  <2>1. \A slot : Current(slot)' <=> Current(slot) BY DEF Idles, Current
  <2> QED BY <1>2, <1>3, <2>1 DEF ListInv, AnswersLeave, Idles
<1>6. WantedCome'
  <2> SUFFICES ASSUME drift = "none", NEW s \in Session, Wanted(s)' PROVE Coming(s)'
    BY DEF WantedCome, Idles
  <2>1. Introducing(s)' <=> Introducing(s)
    BY DEF Idles, Introducing, Waits, Hidden
  <2>2. Listing(s)' <=> Listing(s) BY DEF Idles, Listing, Waits, Hidden
  <2>3. s \in Listable' BY DEF Wanted
  <2>4. CASE AnyDue(s)' BY <2>4 DEF Coming
  <2>5. CASE s \in Listable /\ said'[s] = said[s]
    <3>1. Wanted(s) BY <2>5 DEF Wanted, Hidden, Idles
    <3>2. Coming(s) BY <3>1 DEF ListInv, WantedCome
    <3> QED BY <2>1, <2>2, <2>3, <3>2 DEF Coming, Keeps
  <2> QED BY <2>3, <2>4, <2>5 DEF Keeps
<1>7. ListsCome'
  <2> SUFFICES ASSUME drift # "new", NEW slot \in Slot, Waits(slot, "list", "answered"),
                      ~job[slot].passed, NEW s \in Listable',
                      s \notin job[slot].ids \/ job[slot].said[s] # said'[s]
               PROVE  AnyDue(s)'
    BY DEF ListsCome, Idles, Waits
  <2>1. s \in Session BY DEF Listable
  <2>2. CASE s \in Listable /\ said'[s] = said[s]
    <3>1. AnyDue(s) BY <2>2 DEF ListInv, ListsCome
    <3> QED BY <2>1, <3>1 DEF Keeps
  <2> QED BY <2>1, <2>2 DEF Keeps
<1> QED BY <1>4, <1>5, <1>6, <1>7 DEF ListInv

-----------------------------------------------------------------------------
(* The network and the sync.                                               *)

LEMMA Extended ==
  ASSUME NEW S, NEW w \in Seq(S), NEW x \in Seq(S)
  PROVE  /\ \A i \in DOMAIN w : i \in DOMAIN (w \o x) /\ (w \o x)[i] = w[i]
         /\ \A j \in DOMAIN x : Len(w) + j \in DOMAIN (w \o x) /\ (w \o x)[Len(w) + j] = x[j]
         /\ \A i \in DOMAIN (w \o x) : i \in DOMAIN w \/ \E j \in DOMAIN x : i = Len(w) + j
<1>1. /\ Len(w) \in Nat /\ Len(x) \in Nat /\ DOMAIN w = 1..Len(w) /\ DOMAIN x = 1..Len(x)
      /\ DOMAIN (w \o x) = 1..(Len(w) + Len(x))
      /\ \A i \in 1..(Len(w) + Len(x)) :
           (w \o x)[i] = IF i <= Len(w) THEN w[i] ELSE x[i - Len(w)]
  OBVIOUS
<1>2. ASSUME NEW i \in DOMAIN (w \o x), i \notin DOMAIN w PROVE \E j \in DOMAIN x : i = Len(w) + j
  <2>1. i - Len(w) \in DOMAIN x /\ i = Len(w) + (i - Len(w)) BY <1>1, <1>2
  <2> QED BY <2>1
<1>3. \A i \in DOMAIN w : i \in DOMAIN (w \o x) /\ (w \o x)[i] = w[i] BY <1>1
<1>4. ASSUME NEW j \in DOMAIN x
      PROVE  Len(w) + j \in DOMAIN (w \o x) /\ (w \o x)[Len(w) + j] = x[j]
  <2>1. Len(w) + j \in 1..(Len(w) + Len(x)) /\ ~(Len(w) + j <= Len(w)) /\ (Len(w) + j) - Len(w) = j
    BY <1>1
  <2> QED BY <1>1, <2>1
<1> QED BY <1>2, <1>3, <1>4

LEMMA Added ==
  ASSUME NEW S, NEW w \in Seq(S), NEW e \in S
  PROVE  /\ \A i \in DOMAIN w : i \in DOMAIN Append(w, e) /\ Append(w, e)[i] = w[i]
         /\ Len(w) + 1 \in DOMAIN Append(w, e) /\ Append(w, e)[Len(w) + 1] = e
         /\ \A i \in DOMAIN Append(w, e) : i \in DOMAIN w \/ i = Len(w) + 1
         /\ Append(w, e) # <<>> /\ Head(Append(w, e)) = Append(w, e)[1]
         /\ w # <<>> => 1 \in DOMAIN w /\ Head(w) = w[1]
<1>1. /\ Len(w) \in Nat /\ DOMAIN w = 1..Len(w) /\ DOMAIN Append(w, e) = 1..(Len(w) + 1)
      /\ \A i \in 1..(Len(w) + 1) : Append(w, e)[i] = IF i <= Len(w) THEN w[i] ELSE e
  OBVIOUS
<1>2. Append(w, e) # <<>> /\ Head(Append(w, e)) = Append(w, e)[1] OBVIOUS
<1>3. w # <<>> => 1 \in DOMAIN w /\ Head(w) = w[1] OBVIOUS
<1>4. \A i \in DOMAIN w : i \in DOMAIN Append(w, e) /\ Append(w, e)[i] = w[i] BY <1>1
<1> QED BY <1>1, <1>2, <1>3, <1>4

LEMMA Dropped ==
  ASSUME NEW S, NEW w \in Seq(S), w # <<>>
  PROVE  /\ 1 \in DOMAIN w /\ Head(w) = w[1] /\ Head(w) \in S
         /\ \A i \in DOMAIN Tail(w) : i + 1 \in DOMAIN w /\ Tail(w)[i] = w[i + 1]
         /\ \A i \in DOMAIN w : i = 1 \/ (i - 1 \in DOMAIN Tail(w) /\ Tail(w)[i - 1] = w[i])
         /\ \A i \in DOMAIN Tail(w) : i \in Nat /\ i + 1 # 1
<1>1. /\ Len(w) \in Nat /\ Len(w) > 0 /\ DOMAIN w = 1..Len(w)
      /\ DOMAIN Tail(w) = 1..(Len(w) - 1)
      /\ \A i \in 1..(Len(w) - 1) : Tail(w)[i] = w[i + 1]
  OBVIOUS
<1>2. Head(w) = w[1] /\ Head(w) \in S OBVIOUS
<1>3. ASSUME NEW i \in DOMAIN w, i # 1
      PROVE  i - 1 \in DOMAIN Tail(w) /\ Tail(w)[i - 1] = w[i]
  <2>1. i - 1 \in 1..(Len(w) - 1) /\ (i - 1) + 1 = i BY <1>1, <1>3
  <2> QED BY <1>1, <2>1
<1>4. \A i \in DOMAIN Tail(w) : /\ i + 1 \in DOMAIN w /\ Tail(w)[i] = w[i + 1]
                                /\ i \in Nat /\ i + 1 # 1
  BY <1>1
<1> QED BY <1>1, <1>2, <1>3, <1>4

LEMMA WireTyped ==
  ASSUME Typed PROVE wire \in Seq(WireItem) /\ \A i \in DOMAIN wire : wire[i] \in WireItem
BY DEF Typed, ClientTypes

\* the server's tables and the cursors rest
Tables == UNCHANGED <<blocks, directs, members, said, told, msgCursor, eventCursor>>

LEMMA NetKeepsNews ==
  ASSUME Typed, Tables, Announced => Announced',
         \A k \in Kind, s \in Session : Fetchable(s) /\ Due(k, s) => Due(k, s)'
  PROVE  Keeps
<1>1. \A s \in Session : /\ Fetchable(s)' <=> Fetchable(s)
                         /\ s \in Listable' <=> s \in Listable
  BY DEF Tables, Fetchable, Listable, Unblocked
<1>2. \A s \in Listable : s \in Session /\ Fetchable(s) BY DEF Listable
<1> QED BY <1>1, <1>2 DEF Keeps, AnyDue, Tables

LEMMA TablesDue ==
  ASSUME Tables, NEW k, NEW s
  PROVE  /\ Number(k, s)' = Number(k, s) /\ Cursor(k, s)' = Cursor(k, s)
         /\ One(k, s, Number(k, s))' = One(k, s, Number(k, s))
         /\ \A x, y : y = x => (Carries(x, k, s, Number(k, s)) => Carries(y, k, s, Number(k, s)'))
BY DEF Tables, Number, Cursor, One, Event, Message, Carries, Batch

LEMMA SendNews ==
  ASSUME Typed, NEW m \in out, Send(m) PROVE Keeps \/ drift' = "new"
<1>1. Tables /\ link' = link /\ ask' = ask /\ out' = out \ {m}
  BY DEF Send, Tables, socialVars, groupVars, clientVars
<1>2. wire \in Seq(WireItem) BY WireTyped
<1>3. CASE link # "bound"
  <2>1. wire' = wire /\ link = "down" BY <1>3 DEF Send, Typed, ClientTypes
  <2>2. CASE m.kind = "contact_refresh" BY <1>3, <2>2 DEF Send, Drifts
  <2>3. CASE m.kind # "contact_refresh"
    <3>1. Announced => Announced' BY <1>1, <2>1, <2>3 DEF Announced, OnWire
    <3>2. \A k \in Kind, s \in Session : Due(k, s) => Due(k, s)'
      BY <1>1, <2>1, TablesDue DEF Due
    <3> QED BY <1>1, <3>1, <3>2, NetKeepsNews
  <2> QED BY <2>2, <2>3
<1>4. CASE link = "bound"
  <2> DEFINE e == IF m.kind = "contact_refresh" THEN Refresh(0) ELSE m
  <2>1. wire' = Append(wire, e) BY <1>4 DEF Send
  <2>2. e \in WireItem BY Kinds, Bounds DEF Typed, ServerTypes
  <2>3. e.kind = m.kind BY ItemKinds DEF Refresh
  <2>5. m.kind = "contact_refresh" \/ e = m OBVIOUS
  <2> HIDE DEF e
  <2>4. /\ \A i \in DOMAIN wire : i \in DOMAIN wire' /\ wire'[i] = wire[i]
        /\ Len(wire) + 1 \in DOMAIN wire' /\ wire'[Len(wire) + 1] = e
    BY <1>2, <2>1, <2>2, Added
  <2>6. Announced => Announced' BY <1>1, <2>3, <2>4 DEF Announced, OnWire
  <2>7. ASSUME NEW k \in Kind, NEW s \in Session, Due(k, s) PROVE Due(k, s)'
    <3>1. OnWire("auth_ack") => OnWire("auth_ack")' BY <2>4 DEF OnWire
    <3>2. Number(k, s)' = Number(k, s) /\ Cursor(k, s)' = Cursor(k, s) /\ Known(k, s)' = Known(k, s)
      BY <1>1, TablesDue DEF Known
    <3>3. ASSUME NEW i \in DOMAIN wire, Carries(wire[i], k, s, Number(k, s)) PROVE Due(k, s)'
      <4>1. Carries(wire'[i], k, s, Number(k, s)') BY <1>1, <2>4, <3>3, TablesDue
      <4>2. Cursor(k, s)' < Number(k, s)' BY <2>7, <3>2 DEF Due
      <4> QED BY <2>4, <4>1, <4>2 DEF Due, Carries
    <3>4. CASE One(k, s, Number(k, s)) = m
      <4>1. e = m BY <2>5, <3>4, ItemKinds
      <4>2. Carries(e, k, s, Number(k, s)) BY <3>4, <4>1 DEF Carries
      <4>3. Carries(wire'[Len(wire) + 1], k, s, Number(k, s)') BY <1>1, <2>4, <4>2, TablesDue
      <4>4. Cursor(k, s)' < Number(k, s)' BY <2>7, <3>2 DEF Due
      <4> QED BY <2>4, <4>3, <4>4 DEF Due, Carries
    <3>5. CASE /\ One(k, s, Number(k, s)) # m
               /\ ~\E i \in DOMAIN wire : Carries(wire[i], k, s, Number(k, s))
      <4>1. One(k, s, Number(k, s))' = One(k, s, Number(k, s)) BY <1>1, TablesDue
      <4> QED BY <1>1, <2>7, <3>1, <3>2, <3>5, <4>1 DEF Due
    <3> QED BY <3>3, <3>4, <3>5
  <2> QED BY <1>1, <2>6, <2>7, NetKeepsNews
<1> QED BY <1>3, <1>4

LEMMA ConnectNews ==
  ASSUME Typed, SyncOrder, Connect PROVE Keeps
<1>1. Tables /\ out' = out /\ link = "down"
  BY DEF Connect, Tables, serverVars, socialVars, groupVars, clientVars
<1>2. wire = <<>> BY <1>1 DEF SyncOrder
<1>3. Announced => Announced' BY <1>1, <1>2 DEF Announced, OnWire
<1>4. OnWire("auth_ack")'
  <2>1. wire' = <<[kind |-> "auth_ack"]>> BY DEF Connect
  <2>2. 1 \in DOMAIN wire' /\ wire'[1].kind = "auth_ack" BY <2>1
  <2> QED BY <2>2 DEF OnWire
<1>5. \A k \in Kind, s \in Session : Due(k, s) => Due(k, s)' BY <1>1, <1>4, TablesDue DEF Due
<1> QED BY <1>1, <1>3, <1>5, NetKeepsNews

\* what a broken connection carried is asked for again, but for a refresh
LEMMA BrokenNews ==
  ASSUME Typed, Tables, out' = out, link' = "down", wire' = <<>>,
         IF OnWire("contact_refresh") THEN drift' = "new" ELSE TRUE
  PROVE  Keeps \/ drift' = "new"
<1>1. CASE OnWire("contact_refresh") BY <1>1
<1>2. CASE ~OnWire("contact_refresh")
  <2>1. Announced => Announced' BY <1>2 DEF Announced
  <2>2. \A k \in Kind, s \in Session : Due(k, s) => Due(k, s)' BY TablesDue DEF Due
  <2> QED BY <2>1, <2>2, NetKeepsNews
<1> QED BY <1>1, <1>2

LEMMA BreakNews ==
  ASSUME Typed, Break PROVE Keeps \/ drift' = "new"
<1>1. Tables /\ out' = out /\ link' = "down" /\ wire' = <<>>
  BY DEF Break, Tables, serverVars, socialVars, groupVars
<1>2. OnWire("contact_refresh") => drift' = "new" BY DEF Break, OnWire, Drifts
<1> QED BY <1>1, <1>2, BrokenNews

LEMMA AskNews ==
  ASSUME Typed, AskSync PROVE Keeps
<1>1. Tables /\ out' = out /\ link' = link /\ wire # <<>> /\ wire' = Tail(wire)
      /\ Head(wire).kind = "auth_ack"
      /\ ask' = [open |-> TRUE, msg |-> msgCursor, event |-> eventCursor]
  BY DEF AskSync, Tables, serverVars, socialVars, groupVars, clientVars
<1>2. Announced => Announced'
  <2>1. wire \in Seq(WireItem) BY WireTyped
  <2>2. ASSUME NEW i \in DOMAIN wire, wire[i].kind = "contact_refresh"
        PROVE  OnWire("contact_refresh")'
    BY <1>1, <2>1, <2>2, Dropped DEF OnWire
  <2> QED BY <1>1, <2>2 DEF Announced, OnWire
<1>3. ASSUME NEW k \in Kind, NEW s \in Session, Due(k, s) PROVE Due(k, s)'
  <2>1. ask'.open /\ Known(k, s)' = Cursor(k, s) BY <1>1 DEF Known, Cursor
  <2>2. Cursor(k, s) < Number(k, s) BY <1>3 DEF Due
  <2>3. Number(k, s)' = Number(k, s) /\ Cursor(k, s)' = Cursor(k, s) BY <1>1, TablesDue
  <2> QED BY <2>1, <2>2, <2>3 DEF Due
<1> QED BY <1>1, <1>2, <1>3, NetKeepsNews

\* the answer to a sync
Answer(k) ==
  LET S == IF k = "event" THEN Missing(told, ask.event) ELSE Missing(said, ask.msg)
  IN [kind |-> Batch(k), ids |-> S, upto |-> Within(IF k = "event" THEN told ELSE said, S)]

LEMMA AnswerSteps ==
  ASSUME AnswerSync
  PROVE  /\ ask.open /\ ask' = NoAsk /\ Tables /\ UNCHANGED <<serverVars, faults, clientVars>>
         /\ \/ /\ link' = "down" /\ wire' = <<>>
               /\ IF OnWire("contact_refresh") THEN drift' = "new" ELSE UNCHANGED drift
            \/ /\ wire' = wire \o <<Answer("message"), Answer("event")>>
               /\ UNCHANGED <<link, drift>>
<1>1. /\ Answer("message") = [kind |-> "history_messages", ids |-> Missing(said, ask.msg),
                              upto |-> Within(said, Missing(said, ask.msg))]
      /\ Answer("event") = [kind |-> "history_events", ids |-> Missing(told, ask.event),
                            upto |-> Within(told, Missing(told, ask.event))]
  BY DEF Answer, Batch
<1>2. Tables BY DEF AnswerSync, Tables, serverVars, socialVars, groupVars, clientVars
<1> QED BY <1>1, <1>2 DEF AnswerSync, OnWire, Drifts

LEMMA AnswerTyped ==
  ASSUME Typed, ask \in AskType, ask.open, NEW k \in Kind
  PROVE  /\ Answer(k) \in WireItem /\ Answer(k).kind = Batch(k)
         /\ \A s \in Session : /\ s \in Answer(k).ids <=> Fetchable(s) /\ Number(k, s) > Known(k, s)
                               /\ s \in Answer(k).ids => Answer(k).upto[s] = Number(k, s)
                               /\ Answer(k).upto[s] \in Nat /\ Answer(k).upto[s] <= Number(k, s)
<1> DEFINE S == IF k = "event" THEN Missing(told, ask.event) ELSE Missing(said, ask.msg)
           c == IF k = "event" THEN told ELSE said
<1>1. Answer(k) = [kind |-> Batch(k), ids |-> S, upto |-> Within(c, S)] BY DEF Answer
<1>2. S \in SUBSET Session BY DEF Missing
<1>3. c \in Counts /\ c \in [Session -> Nat] BY Counting, Numbers DEF Typed
<1>4. \A s \in Session : s \in S <=> Fetchable(s) /\ Number(k, s) > Known(k, s)
  BY DEF Missing, Number, Known
<1>5. \A s \in Session : c[s] = Number(k, s) BY DEF Number
<1>6. Batch(k) \in {"history_messages", "history_events"} BY DEF Batch
<1> HIDE DEF S, c
<1>7. Within(c, S) \in Counts BY <1>3, CountsTyped
<1>8. \A s \in Session : Within(c, S)[s] = IF s \in S THEN c[s] ELSE 0 BY DEF Within
<1>9. Answer(k) \in WireItem BY <1>1, <1>2, <1>6, <1>7 DEF WireItem
<1>10. \A s \in Session : Within(c, S)[s] \in Nat /\ Within(c, S)[s] <= c[s] BY <1>3, <1>8
<1> QED BY <1>1, <1>4, <1>5, <1>8, <1>9, <1>10

LEMMA AnswerNews ==
  ASSUME Typed, SyncOrder, AnswerSync PROVE Keeps \/ drift' = "new"
<1>1. /\ ask.open /\ Tables /\ out' = out BY AnswerSteps DEF serverVars
<1>2. CASE link' = "down" /\ wire' = <<>> /\
           IF OnWire("contact_refresh") THEN drift' = "new" ELSE UNCHANGED drift
  BY <1>1, <1>2, BrokenNews
<1>3. CASE wire' = wire \o <<Answer("message"), Answer("event")>> /\ UNCHANGED <<link, drift>>
  <2>1. "message" \in Kind /\ "event" \in Kind /\ ask \in AskType BY DEF Kind, SyncOrder
  <2>2. /\ Answer("message") \in WireItem /\ Answer("event") \in WireItem
        /\ Answer("message").kind = "history_messages" /\ Answer("event").kind = "history_events"
    BY <1>1, <2>1, AnswerTyped DEF Batch
  <2> DEFINE two == <<Answer("message"), Answer("event")>>
  <2>3. /\ two \in Seq(WireItem) /\ DOMAIN two = 1..2
        /\ two[1] = Answer("message") /\ two[2] = Answer("event")
    BY <2>2
  <2>4. wire \in Seq(WireItem) /\ wire' = wire \o two BY <1>3, WireTyped
  <2> HIDE DEF two
  <2>8. /\ \A i \in DOMAIN wire : i \in DOMAIN wire' /\ wire'[i] = wire[i]
        /\ \A j \in DOMAIN two : Len(wire) + j \in DOMAIN wire' /\ wire'[Len(wire) + j] = two[j]
    BY <2>3, <2>4, Extended
  <2>9. \A j \in {1, 2} : \E i \in DOMAIN wire' : wire'[i] = two[j] BY <2>3, <2>8
  <2>5. /\ \A i \in DOMAIN wire : i \in DOMAIN wire' /\ wire'[i] = wire[i]
        /\ \A k \in Kind : \E i \in DOMAIN wire' : wire'[i] = Answer(k)
    BY <2>3, <2>8, <2>9 DEF Kind
  <2>6. Announced => Announced' BY <1>1, <2>5 DEF Announced, OnWire
  <2>7. ASSUME NEW k \in Kind, NEW s \in Session, Fetchable(s), Due(k, s) PROVE Due(k, s)'
    <3>1. Number(k, s)' = Number(k, s) /\ Cursor(k, s)' = Cursor(k, s) BY <1>1, TablesDue
    <3>2. Cursor(k, s)' < Number(k, s)' BY <2>7, <3>1 DEF Due
    <3>3. CASE Known(k, s) < Number(k, s)
      <4>1. s \in Answer(k).ids /\ Answer(k).upto[s] = Number(k, s) /\ Answer(k).kind = Batch(k)
        <5>1. Known(k, s) \in Nat
          <6>1. ask \in [open : {TRUE}, msg : Counts, event : Counts]
            <7>1. ask # NoAsk BY <1>1 DEF NoAsk
            <7> QED BY <2>1, <7>1 DEF AskType
          <6>2. Count \subseteq Nat BY Bounds DEF Count
          <6> QED BY <6>1, <6>2 DEF Known, Counts
        <5> QED BY <1>1, <2>1, <2>7, <3>3, <5>1, Numbers, AnswerTyped
      <4>2. Carries(Answer(k), k, s, Number(k, s)') BY <3>1, <4>1 DEF Carries
      <4>3. PICK i \in DOMAIN wire' : wire'[i] = Answer(k) BY <2>5
      <4>4. Carries(wire'[i], k, s, Number(k, s)') BY <4>2, <4>3
      <4> QED BY <3>2, <4>4 DEF Due, Carries
    <3>4. CASE link = "down" BY <1>3, <3>2, <3>4 DEF Due
    <3>5. CASE OnWire("auth_ack") BY <1>1, <3>5 DEF SyncOrder
    <3>6. CASE One(k, s, Number(k, s)) \in out
      <4>1. One(k, s, Number(k, s))' = One(k, s, Number(k, s)) BY <1>1, TablesDue
      <4> QED BY <1>1, <3>2, <3>6, <4>1 DEF Due
    <3>7. ASSUME NEW i \in DOMAIN wire, Carries(wire[i], k, s, Number(k, s)) PROVE Due(k, s)'
      <4>1. Carries(wire'[i], k, s, Number(k, s)') BY <1>1, <2>5, <3>7, TablesDue
      <4> QED BY <2>5, <3>2, <4>1 DEF Due, Carries
    <3> QED BY <2>7, <3>3, <3>4, <3>5, <3>6, <3>7 DEF Due
  <2> QED BY <1>1, <2>6, <2>7, NetKeepsNews
<1> QED BY <1>2, <1>3, AnswerSteps

-----------------------------------------------------------------------------
(* The network holds what it may.                                          *)

LEMMA RestNumbers ==
  ASSUME Typed, Numbered, UNCHANGED <<owner, created, said, told>>, out' \subseteq out,
         \A k \in Kind, s \in Session : ~Dead(s) => Cursor(k, s)' <= Number(k, s),
         \A i \in DOMAIN wire' :
           \/ \E j \in DOMAIN wire : wire'[i] = wire[j]
           \/ \A k \in Kind, s \in Session : ~Dead(s) => AtMost(wire'[i], k, s, Number(k, s))
  PROVE  Numbered'
<1> SUFFICES ASSUME NEW k \in Kind, NEW s \in Session, ~Dead(s)'
             PROVE  /\ Cursor(k, s)' <= Number(k, s)'
                    /\ \A m \in out' : AtMost(m, k, s, Number(k, s)')
                    /\ \A i \in DOMAIN wire' : AtMost(wire'[i], k, s, Number(k, s)')
  BY DEF Numbered, AtMost, Batch, One, Event, Message
<1>1. Number(k, s)' = Number(k, s) BY DEF Number
<1>2. ~Dead(s) BY DEF Dead
<1>3. /\ \A m \in out : AtMost(m, k, s, Number(k, s))
      /\ \A i \in DOMAIN wire : AtMost(wire[i], k, s, Number(k, s))
  BY <1>2 DEF Numbered
<1> QED BY <1>1, <1>2, <1>3

\* one item more
LEMMA SendOrder ==
  ASSUME Typed, SyncOrder, NEW e \in WireItem, wire' = Append(wire, e),
         e.kind \notin {"auth_ack", "history_messages", "history_events"},
         link = "bound", link' = link, ask' = ask, held' = held
  PROVE  SyncOrder'
<1>1. wire \in Seq(WireItem) BY WireTyped
<1>2. /\ \A i \in DOMAIN wire : i \in DOMAIN wire' /\ wire'[i] = wire[i]
      /\ wire'[Len(wire) + 1] = e
      /\ \A i \in DOMAIN wire' : i \in DOMAIN wire \/ i = Len(wire) + 1
      /\ wire' # <<>> /\ Head(wire') = wire'[1]
      /\ wire # <<>> => 1 \in DOMAIN wire /\ Head(wire) = wire[1]
  BY <1>1, Added
<1>3. ASSUME NEW i \in DOMAIN wire', wire'[i].kind \in {"auth_ack", "history_messages", "history_events"}
      PROVE  i \in DOMAIN wire /\ wire'[i] = wire[i]
  BY <1>2, <1>3
<1>4. \A kind \in {"auth_ack", "history_messages", "history_events"} :
        OnWire(kind)' => OnWire(kind)
  BY <1>3 DEF OnWire
<1>5. held # {} => Head(wire') = Head(wire) BY <1>2 DEF SyncOrder
<1>6. ASSUME NEW i \in DOMAIN wire'
      PROVE  /\ wire'[i].kind = "auth_ack" => i = 1
             /\ wire'[i].kind = "history_messages" =>
                  /\ i + 1 \in DOMAIN wire' /\ wire'[i + 1].kind = "history_events"
                  /\ \A j \in DOMAIN wire' : wire'[j].kind = "history_messages" => j = i
  <2>1. wire'[i].kind = "auth_ack" => i = 1 BY <1>3 DEF SyncOrder
  <2>2. ASSUME wire'[i].kind = "history_messages"
        PROVE  /\ i + 1 \in DOMAIN wire' /\ wire'[i + 1].kind = "history_events"
               /\ \A j \in DOMAIN wire' : wire'[j].kind = "history_messages" => j = i
    <3>1. i \in DOMAIN wire /\ wire[i].kind = "history_messages" BY <1>3, <2>2
    <3>2. i + 1 \in DOMAIN wire /\ wire[i + 1].kind = "history_events" BY <3>1 DEF SyncOrder
    <3>3. \A j \in DOMAIN wire : wire[j].kind = "history_messages" => j = i BY <3>1 DEF SyncOrder
    <3>4. \A j \in DOMAIN wire' : wire'[j].kind = "history_messages" => j = i BY <1>3, <3>3
    <3> QED BY <1>2, <3>2, <3>4
  <2> QED BY <2>1, <2>2
<1> QED BY <1>2, <1>4, <1>5, <1>6 DEF SyncOrder

LEMMA BrokenOrder ==
  ASSUME wire' = <<>>, ask' = NoAsk, held' = {} PROVE SyncOrder'
<1>1. ~ask'.open BY DEF NoAsk
<1>2. DOMAIN wire' = {} OBVIOUS
<1> QED BY <1>1, <1>2 DEF SyncOrder, AskType, OnWire

LEMMA ConnectOrder ==
  ASSUME SyncOrder, Connect PROVE SyncOrder'
<1>1. link = "down" /\ wire' = <<[kind |-> "auth_ack"]>> /\ link' = "bound" /\ ask' = ask /\ held' = held
  BY DEF Connect, clientVars
<1>2. DOMAIN wire' = {1} /\ wire'[1].kind = "auth_ack" BY <1>1
<1> QED BY <1>1, <1>2 DEF SyncOrder, OnWire

LEMMA AnswerOrder ==
  ASSUME Typed, SyncOrder, AnswerSync PROVE SyncOrder'
<1>1. ask.open /\ ask' = NoAsk /\ held' = held /\ held = {}
  BY AnswerSteps DEF clientVars, SyncOrder
<1>2. CASE wire' = <<>> BY <1>1, <1>2, BrokenOrder
<1>3. CASE wire' = wire \o <<Answer("message"), Answer("event")>> /\ UNCHANGED <<link, drift>>
  <2>1. "message" \in Kind /\ "event" \in Kind /\ ask \in AskType BY DEF Kind, SyncOrder
  <2>2. /\ Answer("message") \in WireItem /\ Answer("event") \in WireItem
        /\ Answer("message").kind = "history_messages" /\ Answer("event").kind = "history_events"
    BY <1>1, <2>1, AnswerTyped DEF Batch
  <2> DEFINE two == <<Answer("message"), Answer("event")>>
  <2>3. /\ two \in Seq(WireItem) /\ DOMAIN two = 1..2
        /\ two[1] = Answer("message") /\ two[2] = Answer("event")
    BY <2>2
  <2>4. wire \in Seq(WireItem) /\ wire' = wire \o two BY <1>3, WireTyped
  <2>5. Len(wire) \in Nat BY <2>4
  <2> HIDE DEF two
  <2>a. two \in Seq(WireItem) BY <2>3
  <2>b. /\ \A i \in DOMAIN wire : i \in DOMAIN wire' /\ wire'[i] = wire[i]
        /\ \A j \in DOMAIN two : Len(wire) + j \in DOMAIN wire' /\ wire'[Len(wire) + j] = two[j]
    BY <2>a, <2>4, Extended
  <2>c. \A i \in DOMAIN (wire \o two) : i \in DOMAIN wire \/ \E j \in DOMAIN two : i = Len(wire) + j
    BY <2>a, <2>4, Extended
  <2>6. /\ \A i \in DOMAIN wire : i \in DOMAIN wire' /\ wire'[i] = wire[i]
        /\ \A j \in DOMAIN two : Len(wire) + j \in DOMAIN wire' /\ wire'[Len(wire) + j] = two[j]
        /\ \A i \in DOMAIN wire' : i \in DOMAIN wire \/ \E j \in DOMAIN two : i = Len(wire) + j
    BY <2>b, <2>c, <2>4
  <2>7. \A i \in DOMAIN wire :
          wire[i].kind \notin {"auth_ack", "history_messages", "history_events"}
    BY <1>1 DEF SyncOrder, OnWire
  <2>8. \A i \in DOMAIN wire' :
          \/ wire'[i].kind \notin {"auth_ack", "history_messages", "history_events"}
          \/ i = Len(wire) + 1 \/ i = Len(wire) + 2
    BY <2>3, <2>6, <2>7
  <2>9. /\ Len(wire) + 1 \in DOMAIN wire' /\ wire'[Len(wire) + 1].kind = "history_messages"
        /\ Len(wire) + 2 \in DOMAIN wire' /\ wire'[Len(wire) + 2].kind = "history_events"
    BY <2>2, <2>3, <2>6
  <2>10. ASSUME NEW i \in DOMAIN wire'
         PROVE  /\ wire'[i].kind # "auth_ack"
                /\ wire'[i].kind = "history_messages" => i = Len(wire) + 1
    BY <2>8, <2>9
  <2>11. (Len(wire) + 1) + 1 = Len(wire) + 2 BY <2>5
  <2>12. \A i \in DOMAIN wire' : wire'[i].kind = "history_messages" =>
           /\ i + 1 \in DOMAIN wire' /\ wire'[i + 1].kind = "history_events"
           /\ \A j \in DOMAIN wire' : wire'[j].kind = "history_messages" => j = i
    BY <2>9, <2>10, <2>11
  <2>13. ~ask'.open /\ link' # "down" /\ ~OnWire("auth_ack")'
    BY <1>1, <1>3, <2>10 DEF NoAsk, SyncOrder, OnWire
  <2> QED BY <1>1, <2>10, <2>12, <2>13 DEF SyncOrder, AskType
<1> QED BY <1>2, <1>3, AnswerSteps

LEMMA AskOrder ==
  ASSUME Typed, SyncOrder, AskSync PROVE SyncOrder'
<1>1. /\ wire # <<>> /\ wire' = Tail(wire) /\ Head(wire).kind = "auth_ack" /\ link' = link
      /\ held' = held /\ ask' = [open |-> TRUE, msg |-> msgCursor, event |-> eventCursor]
  BY DEF AskSync, clientVars
<1>2. wire \in Seq(WireItem) BY WireTyped
<1>3. /\ 1 \in DOMAIN wire /\ Head(wire) = wire[1]
      /\ \A i \in DOMAIN wire' : i + 1 \in DOMAIN wire /\ wire'[i] = wire[i + 1]
      /\ \A i \in DOMAIN wire' : i \in Nat /\ i + 1 # 1
  BY <1>1, <1>2, Dropped
<1>4. OnWire("auth_ack") BY <1>1, <1>3 DEF OnWire
<1>5. held = {} /\ ~OnWire("history_messages") /\ ~OnWire("history_events")
  BY <1>4 DEF SyncOrder
<1>6. \A i \in DOMAIN wire' : wire'[i].kind \notin {"auth_ack", "history_messages", "history_events"}
  BY <1>3, <1>5 DEF SyncOrder, OnWire
<1>7. ask' \in AskType BY <1>1 DEF AskType, Typed, ClientTypes
<1>8. link # "down" BY <1>1 DEF SyncOrder
<1> QED BY <1>1, <1>5, <1>6, <1>7, <1>8 DEF SyncOrder, OnWire

LEMMA NetKeepsOrder ==
  ASSUME Typed, SyncOrder, Net PROVE SyncOrder'
<1>1. ASSUME NEW m \in out, Send(m) PROVE SyncOrder'
  <2>1. UNCHANGED <<link, ask, held>> BY <1>1 DEF Send, clientVars
  <2>2. CASE link # "bound"
    <3>1. wire' = wire BY <1>1, <2>2 DEF Send
    <3> QED BY <2>1, <3>1 DEF SyncOrder, OnWire
  <2>3. CASE link = "bound"
    <3> DEFINE e == IF m.kind = "contact_refresh" THEN Refresh(0) ELSE m
    <3>1. wire' = Append(wire, e) BY <1>1, <2>3 DEF Send
    <3>2. e \in WireItem BY Kinds, Bounds DEF Typed, ServerTypes
    <3>3. e.kind \notin {"auth_ack", "history_messages", "history_events"}
      BY Bounds, Kinds DEF Typed, ServerTypes, Item
    <3> HIDE DEF e
    <3> QED BY <2>1, <2>3, <3>1, <3>2, <3>3, SendOrder
  <2> QED BY <2>2, <2>3
<1>2. CASE Break BY <1>2, BrokenOrder DEF Break
<1> QED BY <1>1, <1>2, ConnectOrder, AnswerOrder DEF Net

LEMMA NetKeepsNumbers ==
  ASSUME Typed, BaseInv, Net \/ AskSync PROVE Numbered'
<1>0. Numbered /\ SyncOrder BY DEF BaseInv
<1>1. /\ UNCHANGED <<owner, created, said, told, msgCursor, eventCursor>> /\ out' \subseteq out
  BY DEF Net, AskSync, Send, Connect, Break, AnswerSync, serverVars, groupVars, clientVars
<1>2. \A k \in Kind, s \in Session : ~Dead(s) => Cursor(k, s)' <= Number(k, s)
  BY <1>0, <1>1 DEF Cursor, Numbered
<1> DEFINE Old(x) == \E j \in DOMAIN wire : x = wire[j]
           Low(x) == \A k \in Kind, s \in Session : ~Dead(s) => AtMost(x, k, s, Number(k, s))
           Fine == \A i \in DOMAIN wire' : Old(wire'[i]) \/ Low(wire'[i])
<1>3. wire \in Seq(WireItem) BY WireTyped
<1>4. ASSUME NEW m \in out, Send(m) PROVE Fine
  <2>1. CASE wire' = wire BY <2>1
  <2>2. CASE wire' # wire
    <3> DEFINE e == IF m.kind = "contact_refresh" THEN Refresh(0) ELSE m
    <3>1. wire' = Append(wire, e) BY <1>4, <2>2 DEF Send
    <3>2. e \in WireItem BY Kinds, Bounds DEF Typed, ServerTypes
    <3>3. Low(e)
      <4>1. CASE m.kind = "contact_refresh"
        <5>1. e.kind = "contact_refresh" BY <4>1, ItemKinds DEF Refresh
        <5> HIDE DEF e
        <5> QED BY <5>1, RefreshAtMost
      <4>2. CASE m.kind # "contact_refresh" BY <1>0, <4>2 DEF Numbered
      <4> QED BY <4>1, <4>2
    <3> HIDE DEF e
    <3>4. /\ \A i \in DOMAIN wire : i \in DOMAIN wire' /\ wire'[i] = wire[i]
          /\ wire'[Len(wire) + 1] = e
          /\ \A i \in DOMAIN wire' : i \in DOMAIN wire \/ i = Len(wire) + 1
      BY <1>3, <3>1, <3>2, Added
    <3> HIDE DEF Low
    <3> QED BY <3>3, <3>4
  <2> QED BY <2>1, <2>2
<1>5. ASSUME Connect PROVE Fine
  <2>1. wire' = <<[kind |-> "auth_ack"]>> BY <1>5 DEF Connect
  <2>2. \A i \in DOMAIN wire' : wire'[i].kind = "auth_ack" BY <2>1
  <2>3. \A i \in DOMAIN wire' : Low(wire'[i]) BY <2>2, RefreshAtMost
  <2> QED BY <2>3
<1>6. ASSUME wire' = <<>> PROVE Fine
  <2>1. DOMAIN wire' = {} BY <1>6
  <2> QED BY <2>1
<1>7. ASSUME ask.open /\ wire' = wire \o <<Answer("message"), Answer("event")>> PROVE Fine
  <2>1. "message" \in Kind /\ "event" \in Kind /\ ask \in AskType BY <1>0 DEF Kind, SyncOrder
  <2>2. \A k \in Kind : Answer(k) \in WireItem BY <1>7, <2>1, AnswerTyped
  <2>3. ASSUME NEW l \in Kind PROVE Low(Answer(l))
    <3> SUFFICES ASSUME NEW k \in Kind, NEW s \in Session PROVE AtMost(Answer(l), k, s, Number(k, s))
      OBVIOUS
    <3>1. Answer(l).kind = Batch(l) BY <1>7, <2>1, AnswerTyped
    <3>2. \A a \in Count : Answer(l) # One(k, s, a)
      BY <3>1, ItemKinds DEF Kind
    <3>3. Answer(l).kind = Batch(k) => k = l BY <3>1 DEF Batch, Kind
    <3>4. Answer(l).upto[s] <= Number(l, s) BY <1>7, <2>1, AnswerTyped
    <3> QED BY <3>2, <3>3, <3>4 DEF AtMost
  <2> DEFINE two == <<Answer("message"), Answer("event")>>
  <2>4. /\ two \in Seq(WireItem) /\ DOMAIN two = 1..2
        /\ two[1] = Answer("message") /\ two[2] = Answer("event")
    BY <2>1, <2>2
  <2>5. wire' = wire \o two BY <1>7
  <2> HIDE DEF two, Low
  <2>a. two \in Seq(WireItem) BY <2>4
  <2>b. /\ \A i \in DOMAIN wire : i \in DOMAIN wire' /\ wire'[i] = wire[i]
        /\ \A j \in DOMAIN two : Len(wire) + j \in DOMAIN wire' /\ wire'[Len(wire) + j] = two[j]
    BY <1>3, <2>a, <2>5, Extended
  <2>c. \A i \in DOMAIN (wire \o two) : i \in DOMAIN wire \/ \E j \in DOMAIN two : i = Len(wire) + j
    BY <1>3, <2>a, <2>5, Extended
  <2>6. /\ \A i \in DOMAIN wire : i \in DOMAIN wire' /\ wire'[i] = wire[i]
        /\ \A j \in DOMAIN two : Len(wire) + j \in DOMAIN wire' /\ wire'[Len(wire) + j] = two[j]
        /\ \A i \in DOMAIN wire' : i \in DOMAIN wire \/ \E j \in DOMAIN two : i = Len(wire) + j
    BY <2>b, <2>c, <2>5
  <2>7. \A j \in DOMAIN two : Low(two[j])
    <3>1. Low(Answer("message")) /\ Low(Answer("event")) BY <2>1, <2>3
    <3> QED BY <2>4, <3>1
  <2> QED BY <2>6, <2>7
<1>8. ASSUME AskSync PROVE Fine
  <2>1. wire # <<>> /\ wire' = Tail(wire) BY <1>8 DEF AskSync
  <2> QED BY <1>3, <2>1, Dropped
<1>9. Fine
  <2> HIDE DEF Fine
  <2>1. CASE AnswerSync BY <1>6, <1>7, <2>1, AnswerSteps
  <2>2. CASE Break BY <1>6, <2>2 DEF Break
  <2> QED BY <1>4, <1>5, <1>8, <2>1, <2>2 DEF Net
<1> QED BY <1>0, <1>1, <1>2, <1>9, RestNumbers

-----------------------------------------------------------------------------
(* What is taken is introduced, or listed.                                 *)

LEMMA PassingIs ==
  ASSUME NEW J \in [Slot -> JobSet]
  PROVE  /\ Passing(J)["inbox"] = J["inbox"]
         /\ Passing(J)["ui"].do = J["ui"].do /\ Passing(J)["ui"].session = J["ui"].session
         /\ Passing(J)["ui"].st = J["ui"].st /\ Passing(J)["ui"].ids = J["ui"].ids
         /\ Passing(J)["ui"].said = J["ui"].said
         /\ Passing(J)["ui"].passed <=> (J["ui"].passed \/ J["ui"].st = "answered")
         /\ J["ui"] = NoJob => Passing(J)["ui"] = NoJob
<1>1. "ui" \in Slot /\ "inbox" \in Slot /\ J["ui"] \in JobSet BY DEF Slot
<1> DEFINE p == J["ui"].passed \/ J["ui"].st = "answered"
<1>2. Passing(J) = [J EXCEPT !["ui"] = [J["ui"] EXCEPT !.passed = p]] BY DEF Passing
<1>3. J["ui"] = NoJob => p = FALSE BY DEF NoJob
<1> HIDE DEF p
<1>4. Passing(J)["inbox"] = J["inbox"] /\ Passing(J)["ui"] = [J["ui"] EXCEPT !.passed = p]
  BY <1>1, <1>2
<1>5. [NoJob EXCEPT !.passed = FALSE] = NoJob
  <2>1. NoJob \in JobSet /\ NoJob.passed = FALSE BY NoJobTyped DEF NoJob
  <2> DEFINE j == NoJob
  <2> HIDE DEF j
  <2>2. [j EXCEPT !.passed = j.passed] = j BY <2>1 DEF j, JobSet
  <2> QED BY <2>1, <2>2 DEF j
<1>6. /\ [J["ui"] EXCEPT !.passed = p].do = J["ui"].do
      /\ [J["ui"] EXCEPT !.passed = p].session = J["ui"].session
      /\ [J["ui"] EXCEPT !.passed = p].st = J["ui"].st
      /\ [J["ui"] EXCEPT !.passed = p].ids = J["ui"].ids
      /\ [J["ui"] EXCEPT !.passed = p].said = J["ui"].said
      /\ [J["ui"] EXCEPT !.passed = p].passed = p
  BY <1>1 DEF JobSet
<1>7. J["ui"] = NoJob => Passing(J)["ui"] = NoJob BY <1>3, <1>4, <1>5
<1> QED BY <1>4, <1>6, <1>7 DEF p

\* the cursors follow what is taken
LEMMA AdvanceCursor ==
  ASSUME Typed, NEW x \in WireItem, Advance(x), NEW k \in Kind, NEW s \in Session
  PROVE  \/ Cursor(k, s)' = Cursor(k, s) /\ ~\E n \in Count : Carries(x, k, s, n)
         \/ \E n \in Count : Carries(x, k, s, n) /\ Cursor(k, s)' = Higher(Cursor(k, s), n)
<1>1. /\ x.kind = "chat_message" => x.session \in Session /\ x.n \in Count /\ x = Message(x.session, x.n)
      /\ x.kind = "group_profile_update" => x.session \in Session /\ x.n \in Count /\ x = Event(x.session, x.n)
      /\ x.kind \in {"history_messages", "history_events"} => x.upto \in Counts
  BY DEF WireItem, Item, Message, Event
<1>2. CASE k = "event"
  <2>1. CASE x.kind = "group_profile_update"
    <3>1. eventCursor' = [t \in Session |-> IF t \in {x.session} THEN Higher(eventCursor[t], x.n)
                                                                ELSE eventCursor[t]]
      BY <2>1 DEF Advance
    <3>2. CASE s = x.session
      <4>1. eventCursor'[s] = Higher(eventCursor[s], x.n) BY <3>1, <3>2
      <4>2. Carries(x, k, s, x.n) BY <1>1, <1>2, <2>1, <3>2 DEF Carries, One
      <4> QED BY <1>1, <1>2, <2>1, <4>1, <4>2 DEF Cursor
    <3>3. CASE s # x.session
      <4>1. eventCursor'[s] = eventCursor[s] BY <3>1, <3>3
      <4>2. ~\E n \in Count : Carries(x, k, s, n)
        BY <1>2, <2>1, <3>3 DEF Carries, One, Event, Batch
      <4> QED BY <1>2, <4>1, <4>2 DEF Cursor
    <3> QED BY <3>2, <3>3
  <2>2. CASE x.kind = "history_events"
    <3>1. eventCursor' = [t \in Session |-> IF t \in x.ids THEN Higher(eventCursor[t], x.upto[t])
                                                           ELSE eventCursor[t]]
      BY <2>2 DEF Advance
    <3>2. CASE s \in x.ids
      <4>1. eventCursor'[s] = Higher(eventCursor[s], x.upto[s]) BY <3>1, <3>2
      <4>2. Carries(x, k, s, x.upto[s]) /\ x.upto[s] \in Count
        BY <1>1, <1>2, <2>2, <3>2 DEF Carries, Batch, Counts
      <4> QED BY <1>2, <4>1, <4>2 DEF Cursor
    <3>3. CASE s \notin x.ids
      <4>1. eventCursor'[s] = eventCursor[s] BY <3>1, <3>3
      <4>2. ~\E n \in Count : Carries(x, k, s, n)
        BY <1>2, <2>2, <3>3 DEF Carries, One, Event, Batch
      <4> QED BY <1>2, <4>1, <4>2 DEF Cursor
    <3> QED BY <3>2, <3>3
  <2>3. CASE x.kind \notin {"group_profile_update", "history_events"}
    <3>1. eventCursor' = eventCursor BY <2>3 DEF Advance
    <3>2. ~\E n \in Count : Carries(x, k, s, n)
      BY <1>2, <2>3 DEF Carries, One, Event, Batch
    <3> QED BY <1>2, <3>1, <3>2 DEF Cursor
  <2> QED BY <2>1, <2>2, <2>3
<1>3. CASE k = "message"
  <2>1. CASE x.kind = "chat_message"
    <3>1. msgCursor' = [t \in Session |-> IF t \in {x.session} THEN Higher(msgCursor[t], x.n)
                                                              ELSE msgCursor[t]]
      BY <2>1 DEF Advance
    <3>2. CASE s = x.session
      <4>1. msgCursor'[s] = Higher(msgCursor[s], x.n) BY <3>1, <3>2
      <4>2. Carries(x, k, s, x.n) BY <1>1, <1>3, <2>1, <3>2 DEF Carries, One
      <4> QED BY <1>1, <1>3, <2>1, <4>1, <4>2 DEF Cursor
    <3>3. CASE s # x.session
      <4>1. msgCursor'[s] = msgCursor[s] BY <3>1, <3>3
      <4>2. ~\E n \in Count : Carries(x, k, s, n)
        BY <1>3, <2>1, <3>3 DEF Carries, One, Message, Batch
      <4> QED BY <1>3, <4>1, <4>2 DEF Cursor
    <3> QED BY <3>2, <3>3
  <2>2. CASE x.kind = "history_messages"
    <3>1. msgCursor' = [t \in Session |-> IF t \in x.ids THEN Higher(msgCursor[t], x.upto[t])
                                                         ELSE msgCursor[t]]
      BY <2>2 DEF Advance
    <3>2. CASE s \in x.ids
      <4>1. msgCursor'[s] = Higher(msgCursor[s], x.upto[s]) BY <3>1, <3>2
      <4>2. Carries(x, k, s, x.upto[s]) /\ x.upto[s] \in Count
        BY <1>1, <1>3, <2>2, <3>2 DEF Carries, Batch, Counts
      <4> QED BY <1>3, <4>1, <4>2 DEF Cursor
    <3>3. CASE s \notin x.ids
      <4>1. msgCursor'[s] = msgCursor[s] BY <3>1, <3>3
      <4>2. ~\E n \in Count : Carries(x, k, s, n)
        BY <1>3, <2>2, <3>3 DEF Carries, One, Message, Batch
      <4> QED BY <1>3, <4>1, <4>2 DEF Cursor
    <3> QED BY <3>2, <3>3
  <2>3. CASE x.kind \notin {"chat_message", "history_messages"}
    <3>1. msgCursor' = msgCursor BY <2>3 DEF Advance
    <3>2. ~\E n \in Count : Carries(x, k, s, n)
      BY <1>3, <2>3 DEF Carries, One, Message, Batch
    <3> QED BY <1>3, <3>1, <3>2 DEF Cursor
  <2> QED BY <2>1, <2>2, <2>3
<1> QED BY <1>2, <1>3 DEF Kind

LEMMA CarriesAtMost ==
  ASSUME NEW x, NEW k \in Kind, NEW s \in Session, NEW n \in Count, NEW N, Carries(x, k, s, n),
         AtMost(x, k, s, N)
  PROVE  n <= N
BY DEF Carries, AtMost

\* what Take does
Taken(x) ==
  /\ wire \in Seq(WireItem) /\ wire # <<>> /\ x = wire[1] /\ x \in WireItem /\ x.kind # "auth_ack"
  /\ wire' = Tail(wire) /\ Advance(x)
  /\ todo = {} /\ job["inbox"] = NoJob
  /\ UNCHANGED <<blocks, directs, members, owner, created, said, told, out, link, ask,
                 listed, hidden, drift>>
  /\ job'["inbox"] = IF x.kind = "contact_refresh" THEN Job("list", Chat, 0) ELSE NoJob
  /\ job["ui"].do = job'["ui"].do /\ job["ui"].session = job'["ui"].session
  /\ job["ui"].st = job'["ui"].st /\ job["ui"].ids = job'["ui"].ids
  /\ job'["ui"].passed <=> (job["ui"].passed \/ job["ui"].st = "answered")
  /\ job["ui"] = NoJob => job'["ui"] = NoJob
  /\ 1 \in DOMAIN wire
  /\ \A i \in DOMAIN wire' : i + 1 \in DOMAIN wire /\ wire'[i] = wire[i + 1]
  /\ \A i \in DOMAIN wire : i = 1 \/ (i - 1 \in DOMAIN wire' /\ wire'[i - 1] = wire[i])
  /\ \A i \in DOMAIN wire' : i \in Nat /\ i + 1 # 1

LEMMA TakeSteps == ASSUME Typed, Take PROVE Taken(Head(wire))
<1> DEFINE x == Head(wire)
<1>1. wire \in Seq(WireItem) /\ wire # <<>> /\ wire' = Tail(wire) BY WireTyped DEF Take
<1>2. /\ 1 \in DOMAIN wire /\ Head(wire) = wire[1] /\ Head(wire) \in WireItem
      /\ \A i \in DOMAIN wire' : i + 1 \in DOMAIN wire /\ wire'[i] = wire[i + 1]
      /\ \A i \in DOMAIN wire : i = 1 \/ (i - 1 \in DOMAIN wire' /\ wire'[i - 1] = wire[i])
      /\ \A i \in DOMAIN wire' : i \in Nat /\ i + 1 # 1
  BY <1>1, Dropped
<1>3. x.kind # "auth_ack" /\ Advance(x) /\ todo = {} /\ job["inbox"] = NoJob BY DEF Take, Ready
<1>4. UNCHANGED <<blocks, directs, members, owner, created, said, told, out, link, ask,
                  listed, hidden, drift>>
  BY DEF Take, serverVars, socialVars, groupVars
<1>5. job \in [Slot -> JobSet] /\ "inbox" \in Slot /\ "ui" \in Slot
  BY DEF Typed, ClientTypes, Slot
<1> DEFINE J == [job EXCEPT !["inbox"] = Job("list", Chat, 0)]
<1>6. CASE x.kind = "contact_refresh"
  <2>1. job' = Passing(J) BY <1>6 DEF Take
  <2>2. J \in [Slot -> JobSet] BY <1>5, JobTyped, Bounds, SlotTyped
  <2>3. J["ui"] = job["ui"] /\ J["inbox"] = Job("list", Chat, 0) BY <1>5
  <2> HIDE DEF J
  <2>4. /\ job'["inbox"] = Job("list", Chat, 0)
        /\ job["ui"].do = job'["ui"].do /\ job["ui"].session = job'["ui"].session
        /\ job["ui"].st = job'["ui"].st /\ job["ui"].ids = job'["ui"].ids
        /\ job'["ui"].passed <=> (job["ui"].passed \/ job["ui"].st = "answered")
        /\ job["ui"] = NoJob => job'["ui"] = NoJob
    BY <2>1, <2>2, <2>3, PassingIs
  <2> QED BY <1>1, <1>2, <1>3, <1>4, <1>6, <2>4 DEF Taken
<1>7. CASE x.kind # "contact_refresh"
  <2>1. job' = Passing(job) BY <1>7 DEF Take
  <2>4. /\ job'["inbox"] = NoJob
        /\ job["ui"].do = job'["ui"].do /\ job["ui"].session = job'["ui"].session
        /\ job["ui"].st = job'["ui"].st /\ job["ui"].ids = job'["ui"].ids
        /\ job'["ui"].passed <=> (job["ui"].passed \/ job["ui"].st = "answered")
        /\ job["ui"] = NoJob => job'["ui"] = NoJob
    BY <1>3, <1>5, <2>1, PassingIs
  <2> QED BY <1>1, <1>2, <1>3, <1>4, <1>7, <2>4 DEF Taken
<1> QED BY <1>6, <1>7

LEMMA TakeKeepsNumbers == ASSUME Typed, Numbered, Take PROVE Numbered'
<1> DEFINE x == Head(wire)
<1>1. Taken(x) BY TakeSteps
<1> HIDE DEF x
<1>2. ASSUME NEW k \in Kind, NEW s \in Session, ~Dead(s) PROVE Cursor(k, s)' <= Number(k, s)
  <2>1. AtMost(x, k, s, Number(k, s)) /\ Cursor(k, s) <= Number(k, s)
    BY <1>1, <1>2 DEF Taken, Numbered
  <2>2. \/ Cursor(k, s)' = Cursor(k, s)
        \/ \E n \in Count : Carries(x, k, s, n) /\ Cursor(k, s)' = Higher(Cursor(k, s), n)
    BY <1>1, AdvanceCursor DEF Taken
  <2>3. ASSUME NEW n \in Count, Carries(x, k, s, n), Cursor(k, s)' = Higher(Cursor(k, s), n)
        PROVE  Cursor(k, s)' <= Number(k, s)
    <3>1. n <= Number(k, s) BY <2>1, <2>3, CarriesAtMost
    <3> QED BY <2>1, <2>3, <3>1 DEF Higher
  <2> QED BY <2>1, <2>2, <2>3
<1>3. UNCHANGED <<owner, created, said, told, out>> BY <1>1 DEF Taken
<1>4. \A i \in DOMAIN wire' : \E j \in DOMAIN wire : wire'[i] = wire[j] BY <1>1 DEF Taken
<1> QED BY <1>2, <1>3, <1>4, RestNumbers

LEMMA TakeKeepsOrder == ASSUME Typed, SyncOrder, Take PROVE SyncOrder'
<1> DEFINE x == Head(wire)
<1>1. Taken(x) BY TakeSteps
<1>2. x.kind # "history_messages" => held' = {} \/ (held' = held /\ x.kind # "history_events")
  BY DEF Take
<1> HIDE DEF x
<1>3. Head(wire) = wire[1] BY <1>1, Dropped DEF Taken
<1>4. link' = link /\ link # "down" /\ ask' = ask BY <1>1 DEF Taken, SyncOrder
<1>5. ~OnWire("auth_ack") BY <1>1 DEF Taken, SyncOrder, OnWire
<1>6. \A kind : OnWire(kind)' => OnWire(kind) BY <1>1 DEF Taken, OnWire
<1>7. ASSUME x.kind = "history_messages"
      PROVE  /\ ~ask.open /\ ~OnWire("history_messages")'
             /\ wire' # <<>> /\ Head(wire').kind = "history_events"
  <2>1. OnWire("history_messages") BY <1>1, <1>7 DEF Taken, OnWire
  <2>2. /\ 1 + 1 \in DOMAIN wire /\ wire[1 + 1].kind = "history_events"
        /\ \A j \in DOMAIN wire : wire[j].kind = "history_messages" => j = 1
    BY <1>1, <1>7 DEF Taken, SyncOrder
  <2>3. ~OnWire("history_messages")' BY <1>1, <2>2 DEF Taken, OnWire
  <2>4. 1 \in DOMAIN wire' /\ wire'[1].kind = "history_events"
    <3>1. (1 + 1) - 1 = 1 /\ 1 + 1 # 1 OBVIOUS
    <3> QED BY <1>1, <2>2, <3>1 DEF Taken
  <2>5. wire' \in Seq(WireItem) BY <1>1 DEF Taken
  <2>6. wire' # <<>> BY <2>4
  <2>7. Head(wire') = wire'[1] BY <2>5, <2>6, Dropped
  <2> QED BY <2>1, <2>3, <2>4, <2>6, <2>7 DEF SyncOrder
<1>8. x.kind # "history_messages" => held' = {}
  <2>1. held # {} => x.kind = "history_events" BY <1>1, <1>3 DEF Taken, SyncOrder
  <2> QED BY <1>2, <2>1
<1>9. ask.open => held' = {} /\ ~OnWire("history_messages")' /\ ~OnWire("history_events")'
  BY <1>6, <1>7, <1>8 DEF SyncOrder
<1>10. ASSUME NEW i \in DOMAIN wire', wire'[i].kind = "history_messages"
       PROVE  /\ i + 1 \in DOMAIN wire' /\ wire'[i + 1].kind = "history_events"
              /\ \A j \in DOMAIN wire' : wire'[j].kind = "history_messages" => j = i
  <2>1. i + 1 \in DOMAIN wire /\ wire[i + 1].kind = "history_messages" /\ i \in Nat /\ i + 1 # 1
    BY <1>1, <1>10 DEF Taken
  <2>2. /\ (i + 1) + 1 \in DOMAIN wire /\ wire[(i + 1) + 1].kind = "history_events"
        /\ \A j \in DOMAIN wire : wire[j].kind = "history_messages" => j = i + 1
    BY <2>1 DEF SyncOrder
  <2>3. ((i + 1) + 1) - 1 = i + 1 /\ (i + 1) + 1 # 1 BY <2>1
  <2>4. i + 1 \in DOMAIN wire' /\ wire'[i + 1] = wire[(i + 1) + 1] BY <1>1, <2>2, <2>3 DEF Taken
  <2>5. ASSUME NEW j \in DOMAIN wire', wire'[j].kind = "history_messages" PROVE j = i
    <3>1. j + 1 = i + 1 /\ j \in Nat BY <1>1, <2>2, <2>5 DEF Taken
    <3> QED BY <2>1, <3>1
  <2> QED BY <2>2, <2>4, <2>5
<1>11. ~OnWire("auth_ack")' BY <1>5, <1>6
<1>12. \A i \in DOMAIN wire' : wire'[i].kind = "auth_ack" => i = 1 BY <1>11 DEF OnWire
<1>13. held' # {} => /\ wire' # <<>> /\ Head(wire').kind = "history_events"
                     /\ ~OnWire("history_messages")'
  BY <1>7, <1>8
<1>14. ask \in AskType BY DEF SyncOrder
<1> QED BY <1>4, <1>9, <1>10, <1>11, <1>12, <1>13, <1>14 DEF SyncOrder

LEMMA NoJobIs ==
  /\ NoJob.do = "none" /\ NoJob.st = "none" /\ ~NoJob.passed /\ NoJob.session = Chat
  /\ \A do, s, n : /\ Job(do, s, n).do = do /\ Job(do, s, n).st = "asked" /\ ~Job(do, s, n).passed
                   /\ Job(do, s, n).session = s /\ Job(do, s, n).n = n
                   /\ Job(do, s, n).ids = {}
BY DEF NoJob, Job

LEMMA TakeKeepsShape == ASSUME Typed, JobShape, Take PROVE JobShape'
<1>1. Taken(Head(wire)) BY TakeSteps
<1>2. job'["inbox"] = Job("list", Chat, 0) \/ job'["inbox"] = NoJob BY <1>1 DEF Taken
<1>3. "ui" \in Slot /\ \A slot \in Slot : slot \in {"inbox", "ui"} BY DEF Slot
<1>4. /\ job'["ui"].do \in {"none", "list", "open", "leave"}
      /\ job'["ui"].do = "none" => job'["ui"] = NoJob
      /\ job'["ui"].do \in {"event", "message", "open"} /\ job'["ui"].st = "answered" =>
            job'["ui"].ids = {job'["ui"].session}
  BY <1>1, <1>3 DEF Taken, JobShape
<1>5. /\ job'["inbox"].do \in {"none", "list"} /\ ~job'["inbox"].passed
      /\ job'["inbox"].do = "none" => job'["inbox"] = NoJob
  BY <1>2, NoJobIs
<1> QED BY <1>3, <1>4, <1>5 DEF JobShape

LEMMA TakeIntroduces ==
  ASSUME Typed, SyncOrder, Take, NEW k \in Kind, NEW s \in Session, ~Hidden(s, said[s]),
         Carries(Head(wire), k, s, Number(k, s)), hidden' = hidden
  PROVE  Introducing(s)'
<1> DEFINE x == Head(wire)
<1>1. \A i : i.session = s /\ i.why = "event" /\ i \in todo' => Introducing(s)'
  BY DEF Introducing
<1>2. \A i : i.session = s /\ i.why = "message" /\ i.n = said[s] /\ i \in todo' \cup held' =>
        Introducing(s)'
  BY DEF Introducing, Hidden
<1>3. CASE k = "event"
  <2>1. CASE x = Event(s, told[s])
    <3>1. x.kind = "group_profile_update" /\ x.session = s BY <2>1 DEF Event
    <3>2. [why |-> "event", session |-> s, n |-> 0] \in todo' BY <3>1 DEF Take
    <3> QED BY <1>1, <3>2
  <2>2. CASE x.kind = "history_events" /\ s \in x.ids
    <3>1. [why |-> "event", session |-> s, n |-> 0] \in todo' BY <2>2 DEF Take
    <3> QED BY <1>1, <3>1
  <2> QED BY <1>3, <2>1, <2>2 DEF Carries, One, Batch, Number
<1>4. CASE k = "message"
  <2>1. CASE x = Message(s, said[s])
    <3>1. x.kind = "chat_message" /\ x.session = s /\ x.n = said[s] BY <2>1 DEF Message
    <3>2. [why |-> "message", session |-> s, n |-> said[s]] \in todo' BY <3>1 DEF Take
    <3> QED BY <1>2, <3>2
  <2>2. CASE x.kind = "history_messages" /\ s \in x.ids /\ x.upto[s] = said[s]
    <3>1. [why |-> "message", session |-> s, n |-> said[s]] \in held' BY <2>2 DEF Take
    <3> QED BY <1>2, <3>1
  <2> QED BY <1>4, <2>1, <2>2 DEF Carries, One, Batch, Number
<1> QED BY <1>3, <1>4 DEF Kind

LEMMA TakeKeepsList == ASSUME Typed, BaseInv, ListInv, Take PROVE ListInv'
<1> DEFINE x == Head(wire)
<1>0. SyncOrder /\ Numbered BY DEF BaseInv
<1>1. Taken(x) BY TakeSteps
<1>a. x = Head(wire) OBVIOUS
<1>b. x.kind = "history_events" => held \subseteq todo' BY DEF Take
<1> HIDE DEF x
<1>2. "ui" \in Slot /\ "inbox" \in Slot /\ \A slot \in Slot : slot \in {"inbox", "ui"} BY DEF Slot
<1>3. \A s \in Session : /\ Fetchable(s)' <=> Fetchable(s)
                         /\ s \in Listable' <=> s \in Listable
                         /\ Wanted(s)' <=> Wanted(s)
  BY <1>1 DEF Taken, Fetchable, Unblocked, Listable, Wanted, Hidden
<1>4. x.kind # "contact_refresh" => (Announced => Announced')
  <2>1. ASSUME x.kind # "contact_refresh", NEW i \in DOMAIN wire, wire[i].kind = "contact_refresh"
        PROVE  OnWire("contact_refresh")'
    BY <1>1, <2>1 DEF Taken, OnWire
  <2> QED BY <1>1, <2>1 DEF Announced, OnWire, Taken
<1>5. x.kind = "contact_refresh" => Waits("inbox", "list", "asked")'
  BY <1>1, NoJobIs DEF Taken, Waits
<1>6. ~Waits("inbox", "list", "asked") /\ ~Waits("inbox", "list", "answered")
  BY <1>1, NoJobIs DEF Taken, Waits
<1>7. \A s \in Session : Leaving(s) => Leaving(s)'
  BY <1>3, <1>4, <1>5, <1>6 DEF Leaving, Purging
<1>8. listed \subseteq Session BY DEF Typed, ClientTypes
<1>9. GoneLeave' BY <1>1, <1>7, <1>8 DEF ListInv, GoneLeave, Taken
\* no answer is both current and kept
<1>10. ASSUME NEW slot \in Slot, job'[slot].st = "answered" PROVE job'[slot].passed
  <2>1. slot # "inbox" BY <1>1, <1>10, NoJobIs DEF Taken
  <2>2. slot = "ui" BY <1>2, <2>1
  <2> QED BY <1>1, <1>10, <2>2 DEF Taken
<1>11. AnswersLeave' BY <1>10 DEF AnswersLeave, Current
<1>12. ListsCome' BY <1>10 DEF ListsCome, Waits
<1>13. WantedCome'
  <2> SUFFICES ASSUME drift = "none", NEW s \in Session, Wanted(s) PROVE Coming(s)'
    BY <1>1, <1>3 DEF WantedCome, Taken
  <2>1. CASE x.kind = "contact_refresh" BY <1>5, <2>1 DEF Coming, Listing
  <2>2. CASE x.kind # "contact_refresh"
    <3>1. Coming(s) BY DEF ListInv, WantedCome
    <3>2. ~Listing(s) BY <1>6 DEF Listing
    <3>3. CASE Introducing(s)
      <4>1. PICK i \in held : i.session = s /\ i.why = "message" /\ ~Hidden(s, i.n)
        BY <1>1, <3>3, NoJobIs DEF Introducing, Taken, Waits
      <4>2. Head(wire).kind = "history_events" BY <1>0, <4>1 DEF SyncOrder
      <4>3. i \in todo' BY <1>a, <1>b, <4>1, <4>2
      <4>4. ~Hidden(s, i.n)' BY <1>1, <4>1 DEF Hidden, Taken
      <4> QED BY <4>1, <4>3, <4>4 DEF Coming, Introducing
    <3>4. CASE Announced BY <1>4, <2>2, <3>4 DEF Coming, AnyDue
    <3>5. ASSUME NEW k \in Kind, Due(k, s) PROVE Coming(s)'
      <4>1. ~Hidden(s, said[s]) /\ Fetchable(s) BY DEF Wanted, Listable
      <4>2. CASE Carries(x, k, s, Number(k, s))
        <5>1. Introducing(s)' BY <1>0, <1>1, <1>a, <4>1, <4>2, TakeIntroduces DEF Taken
        <5> QED BY <5>1 DEF Coming
      <4>3. CASE ~Carries(x, k, s, Number(k, s))
        <5>1. ~Dead(s)
          <6>1. created \subseteq Group BY DEF Typed, IInv, GroupsInv, GroupsTypeOK
          <6> QED BY <4>1, <6>1, DeadGroups DEF Dead
        <5>2. AtMost(x, k, s, Number(k, s)) BY <1>0, <1>1, <5>1 DEF Taken, Numbered
        <5>3. Cursor(k, s) < Number(k, s) BY <3>5 DEF Due
        <5>4. Number(k, s) \in Nat /\ Cursor(k, s) \in Nat /\ Count \subseteq Nat BY Numbers
        <5>5. \/ Cursor(k, s)' = Cursor(k, s)
              \/ \E n \in Count : Carries(x, k, s, n) /\ Cursor(k, s)' = Higher(Cursor(k, s), n)
          BY <1>1, AdvanceCursor DEF Taken
        <5>6. ASSUME NEW n \in Count, Carries(x, k, s, n) PROVE n < Number(k, s)
          <6>1. n <= Number(k, s) BY <5>2, <5>6, CarriesAtMost
          <6>2. n # Number(k, s) BY <4>3, <5>6
          <6>3. n \in Nat BY <5>4
          <6> QED BY <5>4, <6>1, <6>2, <6>3
        <5>7. Cursor(k, s)' < Number(k, s) BY <5>3, <5>5, <5>6 DEF Higher
        <5>8. Number(k, s)' = Number(k, s) /\ Known(k, s)' = Known(k, s)
          BY <1>1 DEF Taken, Number, Known
        <5>9. One(k, s, Number(k, s))' = One(k, s, Number(k, s)) BY <5>8 DEF One, Event, Message
        <5>10. \A y : Carries(y, k, s, Number(k, s))' <=> Carries(y, k, s, Number(k, s))
          BY <5>8, <5>9 DEF Carries, Batch
        <5>11. link # "down" /\ ~OnWire("auth_ack")
          BY <1>0, <1>1 DEF Taken, SyncOrder, OnWire
        <5>12. ASSUME NEW i \in DOMAIN wire, Carries(wire[i], k, s, Number(k, s))
               PROVE  \E j \in DOMAIN wire' : Carries(wire'[j], k, s, Number(k, s)')
          <6>1. i # 1 BY <1>1, <4>3, <5>12 DEF Taken
          <6>2. i - 1 \in DOMAIN wire' /\ wire'[i - 1] = wire[i] BY <1>1, <6>1 DEF Taken
          <6>3. Carries(wire'[i - 1], k, s, Number(k, s)')
            BY <5>8, <5>12, <6>2 DEF Carries, Batch, One, Event, Message
          <6> QED BY <6>2, <6>3
        <5>13. Due(k, s)'
          BY <1>1, <3>5, <5>7, <5>8, <5>9, <5>11, <5>12 DEF Due, Taken, Carries
        <5> QED BY <5>13 DEF Coming, AnyDue
      <4> QED BY <4>2, <4>3
    <3> QED BY <3>1, <3>2, <3>3, <3>4, <3>5 DEF Coming, AnyDue
  <2> QED BY <2>1, <2>2
<1> QED BY <1>9, <1>11, <1>12, <1>13 DEF ListInv

-----------------------------------------------------------------------------
(* Steps that leave the dispatcher alone.                                  *)

LEMMA DriftsList == ASSUME drift' = "new" PROVE ListInv'
BY DEF ListInv, GoneLeave, AnswersLeave, WantedCome, ListsCome

LEMMA Slots == /\ "ui" \in Slot /\ "inbox" \in Slot /\ "ui" # "inbox"
               /\ \A slot \in Slot : slot = "inbox" \/ slot = "ui"
BY DEF Slot

\* what the user waits for is as before, shows what is there, or is no answer
UiAsks ==
  /\ Current("ui")' => \/ \A s \in job'["ui"].ids : Fetchable(s)'
                       \/ Current("ui") /\ job'["ui"].ids = job["ui"].ids
  /\ Waits("ui", "list", "answered")' /\ ~job'["ui"].passed =>
       /\ Waits("ui", "list", "answered") /\ ~job["ui"].passed
       /\ job'["ui"].ids = job["ui"].ids /\ job'["ui"].said = job["ui"].said

LEMMA QuietList ==
  ASSUME Typed, ListInv, Keeps, UNCHANGED <<listed, hidden, todo, held, drift>>,
         job'["inbox"] = job["inbox"], UiAsks
  PROVE  ListInv'
<1>1. \A s : Purging(s)' <=> Purging(s) BY DEF Purging, Waits
<1>2. \A s \in Session : Leaving(s) => Leaving(s)' BY <1>1 DEF Leaving, Keeps
<1>3. listed \subseteq Session /\ \A slot \in Slot : job[slot].ids \subseteq Session
  BY DEF Typed, ClientTypes, JobSet
<1>4. GoneLeave' BY <1>2, <1>3 DEF ListInv, GoneLeave
<1>5. AnswersLeave'
  <2> SUFFICES ASSUME drift # "new", NEW slot \in Slot, Current(slot)', NEW s \in job'[slot].ids
               PROVE  Leaving(s)'
    BY DEF AnswersLeave
  <2>1. CASE slot = "inbox"
    <3>1. Current(slot) /\ s \in job[slot].ids BY <2>1 DEF Current
    <3> QED BY <1>2, <1>3, <3>1 DEF ListInv, AnswersLeave
  <2>2. CASE slot = "ui"
    <3>1. Fetchable(s)' \/ (Current(slot) /\ s \in job[slot].ids) BY <2>2 DEF UiAsks
    <3> QED BY <1>2, <1>3, <3>1 DEF ListInv, AnswersLeave, Leaving
  <2> QED BY <2>1, <2>2, Slots
<1>6. WantedCome'
  <2> SUFFICES ASSUME drift = "none", NEW s \in Session, Wanted(s)' PROVE Coming(s)'
    BY DEF WantedCome
  <2>1. Introducing(s)' <=> Introducing(s)
    BY DEF Introducing, Waits, Hidden
  <2>2. Listing(s)' <=> Listing(s) BY DEF Listing, Waits, Hidden
  <2>3. s \in Listable' BY DEF Wanted
  <2>4. CASE AnyDue(s)' BY <2>4 DEF Coming
  <2>5. CASE s \in Listable /\ said'[s] = said[s]
    <3>1. Wanted(s) BY <2>5 DEF Wanted, Hidden
    <3>2. Coming(s) BY <3>1 DEF ListInv, WantedCome
    <3> QED BY <2>1, <2>2, <2>3, <3>2 DEF Coming, Keeps
  <2> QED BY <2>3, <2>4, <2>5 DEF Keeps
<1>7. ListsCome'
  <2> SUFFICES ASSUME drift # "new", NEW slot \in Slot, Waits(slot, "list", "answered")',
                      ~job'[slot].passed, NEW s \in Listable',
                      s \notin job'[slot].ids \/ job'[slot].said[s] # said'[s]
               PROVE  AnyDue(s)'
    BY DEF ListsCome
  <2>1. s \in Session BY DEF Listable
  <2>2. CASE s \in Listable /\ said'[s] = said[s]
    <3>1. /\ Waits(slot, "list", "answered") /\ ~job[slot].passed
          /\ job'[slot].ids = job[slot].ids /\ job'[slot].said = job[slot].said
      BY Slots DEF UiAsks, Waits
    <3>2. AnyDue(s) BY <2>2, <3>1 DEF ListInv, ListsCome
    <3> QED BY <2>1, <3>2 DEF Keeps
  <2> QED BY <2>1, <2>2 DEF Keeps
<1> QED BY <1>4, <1>5, <1>6, <1>7 DEF ListInv

LEMMA UiRests == ASSUME job'["ui"] = job["ui"] PROVE UiAsks
BY DEF UiAsks, Current, Waits

\* while the server and the network rest
LEMMA RestIs ==
  ASSUME Typed, ClientTypes', Rests
  PROVE  /\ Keeps /\ said' = said
         /\ \A s \in Session : /\ Fetchable(s)' <=> Fetchable(s)
                               /\ s \in Listable' <=> s \in Listable
                               /\ s \in Listable /\ AnyDue(s) => AnyDue(s)'
         /\ Announced' <=> Announced
<1>1. Keeps BY RestNews
<1>2. \A s \in Session : /\ Fetchable(s)' <=> Fetchable(s)
                         /\ s \in Listable' <=> s \in Listable
  BY DEF Rests, Fetchable, Listable, Unblocked
<1>3. Announced' <=> Announced BY DEF Rests, Announced, OnWire
<1>4. \A s \in Session : s \in Listable /\ AnyDue(s) => AnyDue(s)' BY <1>1, <1>2 DEF Keeps
<1> QED BY <1>1, <1>2, <1>3, <1>4 DEF Rests

LEMMA ServerKeepsList ==
  ASSUME Typed, BaseInv, ListInv, Server PROVE ListInv'
<1>1. Aside /\ Operation /\ UNCHANGED <<clientVars, drift>> BY DEF Server, Aside, Operation, clientVars
<1>2. Keeps BY <1>1, OperationTells, OperationNews
<1> QED BY <1>1, <1>2, UiRests, QuietList DEF clientVars

LEMMA NetKeepsList ==
  ASSUME Typed, BaseInv, ListInv, Net \/ AskSync PROVE ListInv'
<1>0. SyncOrder BY DEF BaseInv
<1>1. Keeps \/ drift' = "new"
  BY <1>0, SendNews, ConnectNews, BreakNews, AnswerNews, AskNews DEF Net
<1>2. drift' = drift \/ drift' = "new"
  BY DEF Net, AskSync, Send, Connect, Break, AnswerSync, Drifts
<1>3. UNCHANGED <<listed, hidden, todo, job>>
  BY DEF Net, AskSync, Send, Connect, Break, AnswerSync, clientVars
<1>4. held' = held \/ drift' = "new"
  BY DEF Net, AskSync, Send, Connect, Break, AnswerSync, clientVars, Drifts
<1> QED BY <1>1, <1>2, <1>3, <1>4, UiRests, QuietList, DriftsList

\* what is asked for, answered or given up
Answers(slot) ==
  /\ Current(slot)' => \/ \A s \in job'[slot].ids : Fetchable(s)
                       \/ Current(slot) /\ job'[slot].ids = job[slot].ids
  /\ Waits(slot, "list", "answered")' /\ ~job'[slot].passed =>
       \/ /\ Waits(slot, "list", "answered") /\ ~job[slot].passed
          /\ job'[slot].ids = job[slot].ids /\ job'[slot].said = job[slot].said
       \/ job'[slot].ids = Listable /\ job'[slot].said = Within(said, Listable)

LEMMA StoredList ==
  ASSUME Typed, ClientTypes', ListInv, Rests, UNCHANGED drift,
         \A s \in listed' : s \in listed \/ (drift = "none" => Leaving(s)),
         \A s \in Session : Wanted(s)' => Wanted(s),
         \A slot \in Slot : Answers(slot),
         \A s \in Session : Purging(s) => Leaving(s)',
         \A s \in Session : Wanted(s)' /\ (Introducing(s) \/ Listing(s)) => Coming(s)'
  PROVE  ListInv'
<1>1. /\ Keeps /\ said' = said
      /\ \A s \in Session : /\ Fetchable(s)' <=> Fetchable(s)
                            /\ s \in Listable' <=> s \in Listable
                            /\ s \in Listable /\ AnyDue(s) => AnyDue(s)'
      /\ Announced' <=> Announced
  BY RestIs
<1>2. \A s \in Session : Leaving(s) => Leaving(s)' BY <1>1 DEF Leaving
<1>3. /\ listed \subseteq Session /\ listed' \subseteq Session
      /\ \A slot \in Slot : job[slot].ids \subseteq Session /\ job'[slot].ids \subseteq Session
  BY DEF Typed, ClientTypes, JobSet
<1>4. GoneLeave' BY <1>2, <1>3 DEF ListInv, GoneLeave
<1>5. AnswersLeave'
  <2> SUFFICES ASSUME drift # "new", NEW slot \in Slot, Current(slot)', NEW s \in job'[slot].ids
               PROVE  Leaving(s)'
    BY DEF AnswersLeave
  <2>1. s \in Session BY <1>3
  <2>2. Fetchable(s) \/ (Current(slot) /\ s \in job[slot].ids) BY DEF Answers
  <2>3. Fetchable(s) => Leaving(s)' BY <1>1, <2>1 DEF Leaving
  <2> QED BY <1>2, <2>1, <2>2, <2>3 DEF ListInv, AnswersLeave
<1>6. WantedCome'
  <2> SUFFICES ASSUME drift = "none", NEW s \in Session, Wanted(s)' PROVE Coming(s)'
    BY DEF WantedCome
  <2>1. Wanted(s) OBVIOUS
  <2>2. s \in Listable BY <2>1 DEF Wanted
  <2>3. Coming(s) BY <2>1 DEF ListInv, WantedCome
  <2>4. AnyDue(s) => Coming(s)' BY <1>1, <2>2 DEF Coming
  <2> QED BY <2>1, <2>3, <2>4 DEF Coming
<1>7. ListsCome'
  <2> SUFFICES ASSUME drift # "new", NEW slot \in Slot, Waits(slot, "list", "answered")',
                      ~job'[slot].passed, NEW s \in Session, s \in Listable,
                      s \notin job'[slot].ids \/ job'[slot].said[s] # said[s]
               PROVE  AnyDue(s)'
    BY <1>1 DEF ListsCome, Listable
  <2>1. CASE job'[slot].ids = Listable /\ job'[slot].said = Within(said, Listable)
    BY <2>1 DEF Within
  <2>2. CASE /\ Waits(slot, "list", "answered") /\ ~job[slot].passed
             /\ job'[slot].ids = job[slot].ids /\ job'[slot].said = job[slot].said
    BY <1>1, <2>2 DEF ListInv, ListsCome
  <2> QED BY <2>1, <2>2 DEF Answers
<1> QED BY <1>4, <1>5, <1>6, <1>7 DEF ListInv

LEMMA RestList ==
  ASSUME Typed, ClientTypes', ListInv, Rests, UNCHANGED <<listed, hidden, drift>>,
         \A slot \in Slot : Answers(slot),
         \A s \in Session : Purging(s) => Leaving(s)',
         \A s \in Session : Wanted(s) /\ (Introducing(s) \/ Listing(s)) => Coming(s)'
  PROVE  ListInv'
<1>1. said' = said /\ \A s \in Session : s \in Listable' <=> s \in Listable BY RestIs
<1>2. \A s \in Session : Wanted(s)' => Wanted(s) BY <1>1 DEF Wanted, Hidden
<1> QED BY <1>2, StoredList

LEMMA IntroduceKeepsList ==
  ASSUME Typed, ClientTypes', JobShape, ListInv, NEW i \in todo, Introduce(i)
  PROVE  ListInv' /\ JobShape'
<1>1. /\ job["inbox"] = NoJob /\ todo' = todo \ {i}
      /\ UNCHANGED <<listed, hidden, held, drift>>
      /\ UNCHANGED <<blocks, directs, members, said, told, out, wire, link, ask, msgCursor, eventCursor>>
  BY DEF Introduce, netVars, serverVars, socialVars, groupVars
<1>2. Rests BY <1>1, Numbers DEF Rests, Cursor
<1>3. /\ i.session \in Session /\ i.why \in {"event", "message"} /\ job \in [Slot -> JobSet]
      /\ todo \subseteq Intro
  BY DEF Typed, ClientTypes, Intro
<1>4. ~Waits("inbox", "list", "asked") /\ ~Waits("inbox", "list", "answered")
  BY <1>1, NoJobIs DEF Waits
<1>5. \A s : ~Purging(s) /\ ~Listing(s) BY <1>4 DEF Purging, Listing
<1>6. ASSUME NEW s \in Session, Introducing(s)
      PROVE  Introducing(s)' \/ i.session = s
  BY <1>1, <1>6, NoJobIs DEF Introducing, Waits, Hidden
<1>7. CASE i.session \in listed /\ job' = Passing(job)
  <2>1. /\ job'["inbox"] = NoJob /\ job'["ui"].do = job["ui"].do /\ job'["ui"].st = job["ui"].st
        /\ job'["ui"].ids = job["ui"].ids /\ job'["ui"].said = job["ui"].said
        /\ job'["ui"].session = job["ui"].session
        /\ job["ui"].passed => job'["ui"].passed
        /\ job["ui"] = NoJob => job'["ui"] = NoJob
    BY <1>1, <1>3, <1>7, PassingIs
  <2>2. Answers("inbox") BY <2>1, NoJobIs DEF Answers, Current, Waits
  <2>3. Answers("ui") BY <2>1 DEF Answers, Current, Waits
  <2>4. \A s \in Session : Wanted(s) /\ Introducing(s) => Coming(s)'
    BY <1>6, <1>7 DEF Wanted, Coming
  <2>5. ListInv' BY <1>1, <1>2, <1>5, <2>2, <2>3, <2>4, Slots, RestList
  <2>6. JobShape'
    <3>1. /\ job'["inbox"].do = "none" /\ ~job'["inbox"].passed BY <2>1, NoJobIs
    <3>2. /\ job'["ui"].do \in {"none", "list", "open", "leave"}
          /\ job'["ui"].do = "none" => job'["ui"] = NoJob
          /\ job'["ui"].do \in {"event", "message", "open"} /\ job'["ui"].st = "answered" =>
               job'["ui"].ids = {job'["ui"].session}
      BY <2>1, Slots DEF JobShape
    <3> QED BY <2>1, <3>1, <3>2, Slots DEF JobShape
  <2> QED BY <2>5, <2>6
<1>8. ASSUME NEW do \in {"join", "event", "message"}, do # "join" => do = i.why,
             do = "join" => /\ i.why = "message" /\ job["ui"].do = "open"
                            /\ job["ui"].session = i.session,
             job' = [job EXCEPT !["inbox"] = Job(do, i.session, i.n)]
      PROVE  ListInv' /\ JobShape'
  <2>1. job'["inbox"] = Job(do, i.session, i.n) /\ job'["ui"] = job["ui"]
    BY <1>3, <1>8, Slots
  <2>2. /\ job'["inbox"].do = do /\ job'["inbox"].st = "asked" /\ ~job'["inbox"].passed
        /\ job'["inbox"].session = i.session /\ job'["inbox"].n = i.n
    BY <2>1, NoJobIs
  <2>3. Answers("inbox") BY <2>2 DEF Answers, Current, Waits
  <2>4. Answers("ui") BY <2>1 DEF Answers, Current, Waits
  <2>5. ASSUME NEW s \in Session, Introducing(s) PROVE Introducing(s)'
    <3>1. hidden' = hidden /\ \A n : Hidden(s, n)' <=> Hidden(s, n) BY <1>1 DEF Hidden
    <3>2. CASE \E o \in todo : o.session = s /\ o.why = "event"
      <4>1. PICK o \in todo : o.session = s /\ o.why = "event" BY <3>2
      <4>2. CASE o = i
        <5>1. do = "event" BY <1>8, <4>1, <4>2
        <5> QED BY <2>2, <4>1, <4>2, <5>1 DEF Introducing, Waits
      <4>3. CASE o # i
        <5>1. o \in todo' BY <1>1, <4>3
        <5> QED BY <4>1, <5>1 DEF Introducing
      <4> QED BY <4>2, <4>3
    <3>3. CASE \E o \in todo \cup held : o.session = s /\ o.why = "message" /\ ~Hidden(s, o.n)
      <4>1. PICK o \in todo \cup held : o.session = s /\ o.why = "message" /\ ~Hidden(s, o.n)
        BY <3>3
      <4>2. CASE o = i
        <5>1. do \in {"message", "join"} BY <1>8, <4>1, <4>2
        <5>2. ~Hidden(s, job'["inbox"].n) BY <2>2, <4>1, <4>2
        <5>3. ~Hidden(s, job["inbox"].n)' BY <3>1, <5>2 DEF Hidden
        <5> QED BY <2>2, <4>1, <4>2, <5>1, <5>3 DEF Introducing
      <4>3. CASE o # i
        <5>1. o \in todo' \cup held' BY <1>1, <4>1, <4>3
        <5>2. ~Hidden(s, o.n)' BY <3>1, <4>1 DEF Hidden
        <5> QED BY <4>1, <5>1, <5>2 DEF Introducing
      <4> QED BY <4>2, <4>3
    <3> QED BY <1>1, <2>5, <3>2, <3>3, NoJobIs DEF Introducing, Waits
  <2>6. \A s \in Session : Wanted(s) /\ Introducing(s) => Coming(s)' BY <2>5 DEF Coming
  <2>7. ListInv' BY <1>1, <1>2, <1>5, <2>3, <2>4, <2>6, Slots, RestList
  <2>8. JobShape'
    <3>1. do = "join" => job["ui"].do = "open" /\ job["ui"].session = i.session
      BY <1>8
    <3>2. /\ job["ui"].do \in {"none", "list", "open", "leave"}
          /\ job["ui"].do = "none" => job["ui"] = NoJob
          /\ job["ui"].do \in {"event", "message", "open"} /\ job["ui"].st = "answered" =>
               job["ui"].ids = {job["ui"].session}
      BY Slots DEF JobShape
    <3> QED BY <2>1, <2>2, <3>1, <3>2, Slots DEF JobShape
  <2> QED BY <2>7, <2>8
<1>9. \/ i.session \in listed /\ job' = Passing(job)
      \/ /\ i.why = "message" /\ job["ui"].do = "open" /\ job["ui"].session = i.session
         /\ job' = [job EXCEPT !["inbox"] = Job("join", i.session, i.n)]
      \/ job' = [job EXCEPT !["inbox"] = Job(i.why, i.session, i.n)]
  BY DEF Introduce
<1> QED BY <1>3, <1>7, <1>8, <1>9

-----------------------------------------------------------------------------
(* Answers to requests.                                                    *)

\* the job of a slot goes on
GoesOn(slot) ==
  /\ \A other \in Slot : other # slot => job'[other] = job[other]
  /\ job'[slot].do = job[slot].do /\ job'[slot].session = job[slot].session
  /\ job'[slot].n = job[slot].n /\ job'[slot].passed = job[slot].passed

LEMMA AnsweredIs ==
  ASSUME job \in [Slot -> JobSet], NEW slot \in Slot
  PROVE  /\ \A ids : Answered(slot, ids) =>
              /\ GoesOn(slot) /\ job'[slot].st = "answered" /\ job'[slot].ids = ids
              /\ job'[slot].said = Within(said, ids)
         /\ Failed(slot) => GoesOn(slot) /\ job'[slot].st = "failed"
<1> DEFINE j == job[slot]
<1>1. j \in JobSet OBVIOUS
<1>2. ASSUME NEW ids, Answered(slot, ids)
      PROVE  /\ GoesOn(slot) /\ job'[slot].st = "answered" /\ job'[slot].ids = ids
             /\ job'[slot].said = Within(said, ids)
  <2> DEFINE a == [j EXCEPT !.st = "answered", !.ids = ids, !.said = Within(said, ids)]
  <2>1. job' = [job EXCEPT ![slot] = a] BY <1>2 DEF Answered
  <2>2. /\ a.do = j.do /\ a.session = j.session /\ a.n = j.n /\ a.passed = j.passed
        /\ a.st = "answered" /\ a.ids = ids /\ a.said = Within(said, ids)
    <3> HIDE DEF j
    <3> QED BY <1>1 DEF JobSet
  <2> HIDE DEF a
  <2>3. job'[slot] = a /\ \A other \in Slot : other # slot => job'[other] = job[other]
    BY <2>1
  <2> QED BY <2>2, <2>3 DEF GoesOn
<1>3. ASSUME Failed(slot) PROVE GoesOn(slot) /\ job'[slot].st = "failed"
  <2> DEFINE a == [j EXCEPT !.st = "failed"]
  <2>1. job' = [job EXCEPT ![slot] = a] BY <1>3 DEF Failed
  <2>2. a.do = j.do /\ a.session = j.session /\ a.n = j.n /\ a.passed = j.passed /\ a.st = "failed"
    <3> HIDE DEF j
    <3> QED BY <1>1 DEF JobSet
  <2> HIDE DEF a
  <2>3. job'[slot] = a /\ \A other \in Slot : other # slot => job'[other] = job[other]
    BY <2>1
  <2> QED BY <2>2, <2>3 DEF GoesOn
<1> QED BY <1>2, <1>3

LEMMA GoesOnShape ==
  ASSUME JobShape, NEW slot \in Slot, GoesOn(slot), job[slot].st = "asked",
         job'[slot].do \in {"event", "message", "open"} /\ job'[slot].st = "answered" =>
           job'[slot].ids = {job'[slot].session}
  PROVE  JobShape'
<1>1. job[slot].do # "none" BY NoJobIs DEF JobShape
<1>2. \A o \in Slot : /\ job'[o].do = job[o].do /\ job'[o].session = job[o].session
                      /\ job'[o].passed = job[o].passed
                      /\ o # slot => job'[o] = job[o]
  BY DEF GoesOn
<1>3. ASSUME NEW o \in Slot
      PROVE  /\ job'[o].do = "none" => job'[o] = NoJob
             /\ job'[o].do \in {"event", "message", "open"} /\ job'[o].st = "answered" =>
                  job'[o].ids = {job'[o].session}
  BY <1>1, <1>2 DEF JobShape
<1> QED BY <1>2, <1>3, Slots DEF JobShape

\* everything else rests
LEMMA ServingRests ==
  ASSUME Typed, Serving, UNCHANGED serverVars
  PROVE  Rests /\ UNCHANGED <<listed, hidden, todo, held>>
BY Numbers DEF Serving, serverVars, socialVars, groupVars, netVars, Rests, Cursor

LEMMA ServeListKeepsList ==
  ASSUME Typed, ClientTypes', JobShape, ListInv, NEW slot \in Slot, ServeList(slot)
  PROVE  ListInv' /\ JobShape'
<1>0. job \in [Slot -> JobSet] BY DEF Typed, ClientTypes
<1>1. job[slot].do = "list" /\ job[slot].st = "asked" BY DEF ServeList
<1>2. Rests /\ UNCHANGED <<listed, hidden, todo, held>> BY ServingRests DEF ServeList
<1>3. CASE Raises
  <2>1. drift' = "new" /\ GoesOn(slot) BY <1>0, <1>3, AnsweredIs DEF ServeList, Drifts
  <2>2. job'[slot].do = "list" BY <1>1, <2>1 DEF GoesOn
  <2> QED BY <1>1, <2>1, <2>2, DriftsList, GoesOnShape
<1>4. CASE ~Raises
  <2>1. /\ GoesOn(slot) /\ job'[slot].st = "answered" /\ job'[slot].ids = Listable
        /\ job'[slot].said = Within(said, Listable)
    BY <1>0, <1>4, AnsweredIs DEF ServeList
  <2>2. job'[slot].do = "list" BY <1>1, <2>1 DEF GoesOn
  <2>3. JobShape' BY <1>1, <2>1, <2>2, GoesOnShape
  <2>a. \A o \in Slot : o # slot => o = Other(slot) BY Slots DEF Other
  <2>4. CASE drift' = drift
    <3>1. \A s \in Listable : Fetchable(s) BY DEF Listable
    <3>2. \A o \in Slot : Answers(o) BY <2>1, <3>1 DEF Answers, GoesOn, Current, Waits
    <3>3. ASSUME NEW s \in Session, Purging(s) PROVE Leaving(s)'
      <4>1. CASE slot = "inbox"
        <5>1. Waits("inbox", "list", "answered")' BY <2>1, <2>2, <4>1 DEF Waits
        <5>2. s \in Listable => Fetchable(s)' BY <1>2, <3>1, RestIs
        <5> QED BY <2>1, <4>1, <5>1, <5>2 DEF Leaving, Purging
      <4>2. CASE slot = "ui"
        <5>1. job'["inbox"] = job["inbox"] BY <2>1, <4>2, Slots DEF GoesOn
        <5> QED BY <3>3, <5>1 DEF Leaving, Purging, Waits
      <4> QED BY <4>1, <4>2, Slots
    <3>4. ASSUME NEW s \in Session, Wanted(s), Introducing(s) \/ Listing(s) PROVE Coming(s)'
      <4>0. \A n : Hidden(s, n)' <=> Hidden(s, n) BY <1>2 DEF Hidden
      <4>1. CASE slot = "inbox"
        <5>1. s \in Listable /\ ~Hidden(s, said[s]) BY <3>4 DEF Wanted
        <5>2. job'["inbox"].said[s] = said[s] BY <2>1, <4>1, <5>1 DEF Within, Listable
        <5>3. ~Hidden(s, job["inbox"].said[s])' BY <1>2, <5>1, <5>2 DEF Hidden
        <5>4. Waits("inbox", "list", "answered")' BY <2>1, <2>2, <4>1 DEF Waits
        <5> QED BY <2>1, <4>1, <5>1, <5>3, <5>4 DEF Coming, Listing
      <4>2. CASE slot = "ui"
        <5>1. job'["inbox"] = job["inbox"] BY <2>1, <4>2, Slots DEF GoesOn
        <5>2. Introducing(s)' <=> Introducing(s)
          BY <1>2, <5>1 DEF Introducing, Waits, Hidden
        <5>3. Listing(s)' <=> Listing(s) BY <1>2, <5>1 DEF Listing, Waits, Hidden
        <5> QED BY <3>4, <5>2, <5>3 DEF Coming
      <4> QED BY <4>1, <4>2, Slots
    <3>5. ListInv' BY <1>2, <2>4, <3>2, <3>3, <3>4, RestList
    <3> QED BY <2>3, <3>5
  <2>5. CASE drift' = "old" /\ job[Other(slot)] = NoJob
    <3>1. ASSUME NEW o \in Slot, job'[o].st = "answered" PROVE o = slot
      BY <2>1, <2>5, <2>a, <3>1, NoJobIs DEF GoesOn
    <3>2. GoneLeave' /\ WantedCome' BY <2>5 DEF GoneLeave, WantedCome
    <3>3. \A s \in Listable : s \in Session /\ Fetchable(s) BY DEF Listable
    <3>4. \A s \in Listable : Fetchable(s)' BY <1>2, <3>3, RestIs
    <3>5. AnswersLeave' BY <2>1, <3>1, <3>4 DEF AnswersLeave, Current, Leaving
    <3>6. ListsCome'
      <4>1. \A s \in Listable' : s \in Listable /\ said'[s] = said[s]
            /\ Within(said, Listable)[s] = said[s]
        BY <1>2, <3>3, RestIs DEF Listable, Within
      <4> QED BY <2>1, <3>1, <4>1 DEF ListsCome, Waits
    <3> QED BY <2>3, <3>2, <3>5, <3>6 DEF ListInv
  <2>6. drift' = drift \/ (drift' = "old" /\ job[Other(slot)] = NoJob)
    BY <1>4 DEF ServeList
  <2> QED BY <2>4, <2>5, <2>6
<1> QED BY <1>3, <1>4

\* the answer to a request for one session, or none
LEMMA OneAnswer ==
  ASSUME Typed, ClientTypes', JobShape, ListInv, NEW slot \in Slot, Rests,
         UNCHANGED <<listed, hidden, todo, held, drift>>, job[slot].st = "asked",
         GoesOn(slot), job[slot].do # "list",
         \/ /\ job'[slot].st = "answered" /\ job'[slot].ids = {job[slot].session}
            /\ Fetchable(job[slot].session)
            /\ job'[slot].said = Within(said, {job[slot].session})
         \/ /\ job'[slot].st = "failed"
            /\ job[slot].do = "event" => ~Fetchable(job[slot].session)
  PROVE  ListInv' /\ JobShape'
<1>1. JobShape' BY GoesOnShape DEF GoesOn
<1>2. job'[slot].do # "list" BY DEF GoesOn
<1>3. \A o \in Slot : Answers(o)
  BY <1>2 DEF Answers, GoesOn, Current, Waits
<1>4. \A s \in Session : Purging(s) => Leaving(s)'
  <2>1. CASE slot = "inbox" BY <2>1 DEF Purging, Waits
  <2>2. CASE slot = "ui"
    <3>1. job'["inbox"] = job["inbox"] BY <2>2, Slots DEF GoesOn
    <3> QED BY <3>1 DEF Leaving, Purging, Waits
  <2> QED BY <2>1, <2>2, Slots
<1>5. ASSUME NEW s \in Session, Wanted(s), Introducing(s) \/ Listing(s) PROVE Coming(s)'
  <2>1. CASE slot = "ui"
    <3>1. job'["inbox"] = job["inbox"] BY <2>1, Slots DEF GoesOn
    <3>2. Introducing(s)' <=> Introducing(s)
      BY <3>1 DEF Introducing, Waits, Hidden
    <3>3. Listing(s)' <=> Listing(s) BY <3>1 DEF Listing, Waits, Hidden
    <3> QED BY <1>5, <3>2, <3>3 DEF Coming
  <2>2. CASE slot = "inbox"
    <3>0. ~Listing(s) BY <2>2 DEF Listing, Waits
    <3>1. /\ job'["inbox"].do = job["inbox"].do /\ job'["inbox"].session = job["inbox"].session
          /\ job'["inbox"].n = job["inbox"].n
      BY <2>2 DEF GoesOn
    <3>2. CASE \E i \in todo : i.session = s /\ i.why = "event" BY <3>2 DEF Coming, Introducing
    <3>3. CASE \E i \in todo \cup held : i.session = s /\ i.why = "message" /\ ~Hidden(s, i.n)
      BY <3>3 DEF Coming, Introducing, Hidden
    <3>4. CASE job["inbox"].session = s /\ job["inbox"].do \in {"message", "join"}
               /\ ~Hidden(s, job["inbox"].n)
      <4>1. ~Hidden(s, job["inbox"].n)' BY <3>1, <3>4 DEF Hidden
      <4> QED BY <3>1, <3>4, <4>1 DEF Coming, Introducing
    <3>5. CASE job["inbox"].session = s /\ job["inbox"].do = "event"
      <4>1. Fetchable(s) /\ ~Hidden(s, said[s]) BY <1>5 DEF Wanted, Listable
      <4>2. job'["inbox"].st = "answered" /\ job'["inbox"].said = Within(said, {s})
        BY <2>2, <3>5, <4>1
      <4>3. job'["inbox"].said[s] = said[s] BY <4>2 DEF Within
      <4>4. ~Hidden(s, job["inbox"].said[s])' BY <4>1, <4>3 DEF Hidden
      <4> QED BY <3>1, <3>5, <4>2, <4>4 DEF Coming, Introducing, Waits
    <3> QED BY <1>5, <3>0, <3>2, <3>3, <3>4, <3>5 DEF Introducing, Waits
  <2> QED BY <2>1, <2>2, Slots
<1>6. ListInv' BY <1>3, <1>4, <1>5, RestList
<1> QED BY <1>1, <1>6

LEMMA ServeFetchKeepsList ==
  ASSUME Typed, ClientTypes', JobShape, ListInv, NEW slot \in Slot, ServeFetch(slot) \/ FailHttp(slot)
  PROVE  ListInv' /\ JobShape'
<1>0. job \in [Slot -> JobSet] BY DEF Typed, ClientTypes
<1>1. job[slot].st = "asked" /\ Serving /\ UNCHANGED serverVars BY DEF ServeFetch, FailHttp
<1>2. Rests /\ UNCHANGED <<listed, hidden, todo, held>> BY <1>1, ServingRests
<1>3. CASE ServeFetch(slot)
  <2>1. job[slot].do # "list" /\ drift' = drift BY <1>3 DEF ServeFetch
  <2>2. \/ Fetchable(job[slot].session) /\ Answered(slot, {job[slot].session})
        \/ ~Fetchable(job[slot].session) /\ Failed(slot)
    BY <1>3 DEF ServeFetch
  <2> QED BY <1>0, <1>1, <1>2, <2>1, <2>2, AnsweredIs, OneAnswer
<1>4. CASE FailHttp(slot)
  <2>1. GoesOn(slot) /\ job'[slot].st = "failed" BY <1>0, <1>4, AnsweredIs DEF FailHttp
  <2>2. CASE job[slot].do \in {"list", "event"}
    <3>1. drift' = "new" BY <1>4, <2>2 DEF FailHttp, Drifts
    <3> QED BY <1>1, <2>1, <3>1, DriftsList, GoesOnShape
  <2>3. CASE job[slot].do \notin {"list", "event"}
    <3>1. drift' = drift BY <1>4, <2>3 DEF FailHttp
    <3> QED BY <1>1, <1>2, <2>1, <2>3, <3>1, OneAnswer
  <2> QED BY <2>2, <2>3
<1> QED BY <1>3, <1>4

\* an operation on the server, on behalf of the user
LEMMA OwnOperation ==
  ASSUME Typed, BaseInv, ListInv, Operation, Serving, UNCHANGED drift, NEW s,
         job["ui"].st = "asked", Answered("ui", {s}),
         job["ui"].do = "leave" \/ (job["ui"].do = "open" /\ s = job["ui"].session /\ Fetchable(s)')
  PROVE  ListInv' /\ JobShape'
<1>1. job \in [Slot -> JobSet] /\ JobShape BY DEF Typed, ClientTypes, BaseInv
<1>2. GoesOn("ui") /\ job'["ui"].st = "answered" /\ job'["ui"].ids = {s}
  BY <1>1, AnsweredIs, Slots
<1>3. JobShape' BY <1>1, <1>2, Slots, GoesOnShape DEF GoesOn
<1>4. Aside /\ UNCHANGED <<listed, hidden, todo, held>> BY DEF Serving, Aside
<1>5. Keeps BY <1>4, OperationTells, OperationNews
<1>6. job'["inbox"] = job["inbox"] BY <1>2, Slots DEF GoesOn
<1>7. UiAsks BY <1>2 DEF UiAsks, GoesOn, Current, Waits
<1> QED BY <1>3, <1>4, <1>5, <1>6, <1>7, QuietList

LEMMA HttpServer ==
  ASSUME Typed, Http
  PROVE  /\ Serving
         /\ UNCHANGED serverVars \/ Operation
<1>1. ASSUME NEW slot \in Slot, ServeList(slot) \/ ServeFetch(slot) \/ FailHttp(slot)
      PROVE  Serving /\ UNCHANGED serverVars
  BY <1>1 DEF ServeList, ServeFetch, FailHttp
<1>2. CASE ServeOpen
  <2>1. CASE OpenDirect(Me, Peer)
    <3>1. Opens BY <1>2, <2>1 DEF ServeOpen, Opens
    <3> QED BY <1>2, <3>1 DEF ServeOpen, Operation
  <2>2. CASE UNCHANGED socialVars BY <1>2, <2>2 DEF ServeOpen, serverVars
  <2> QED BY <1>2, <2>1, <2>2 DEF ServeOpen
<1>3. CASE ServeLeave
  <2>1. job["ui"].session \in Group BY <1>3, Slots DEF ServeLeave, Typed, IInv, JobInv, Jobs, IsJob
  <2>2. \/ EndGroup(job["ui"].session) \/ LeaveGroup(job["ui"].session) \/ UNCHANGED serverVars
    BY <1>3 DEF ServeLeave
  <2> QED BY <1>3, <2>1, <2>2 DEF ServeLeave, Operation
<1> QED BY <1>1, <1>2, <1>3 DEF Http

LEMMA HttpKeepsList ==
  ASSUME Typed, ClientTypes', BaseInv, ListInv, Http PROVE ListInv' /\ JobShape'
<1>0. JobShape BY DEF BaseInv
<1>1. ASSUME NEW slot \in Slot, ServeList(slot) \/ ServeFetch(slot) \/ FailHttp(slot)
      PROVE  ListInv' /\ JobShape'
  BY <1>0, <1>1, ServeListKeepsList, ServeFetchKeepsList
<1>2. CASE ServeOpen
  <2>1. CASE Unblocked(Me, Peer)
    <3>1. OpenDirect(Me, Peer) /\ Answered("ui", {Chat}) BY <1>2, <2>1 DEF ServeOpen
    <3>2. Opens BY <1>2, <3>1 DEF ServeOpen, Opens
    <3>3. Fetchable(Chat)' BY <2>1, <3>1 DEF OpenDirect, Fetchable, Unblocked
    <3>4. /\ Serving /\ UNCHANGED drift /\ job["ui"].st = "asked" /\ job["ui"].do = "open"
          /\ job["ui"].session = Chat
      BY <1>2 DEF ServeOpen
    <3>5. Operation BY <3>2 DEF Operation
    <3> QED BY <3>1, <3>3, <3>4, <3>5, OwnOperation
  <2>2. CASE ~Unblocked(Me, Peer)
    <3>1. Failed("ui") /\ Serving /\ UNCHANGED serverVars /\ UNCHANGED drift
      BY <1>2, <2>2 DEF ServeOpen, serverVars
    <3>2. job["ui"].st = "asked" /\ job["ui"].do = "open" BY <1>2 DEF ServeOpen
    <3>3. Rests /\ UNCHANGED <<listed, hidden, todo, held>> BY <3>1, ServingRests
    <3>4. GoesOn("ui") /\ job'["ui"].st = "failed"
      BY <3>1, AnsweredIs, Slots DEF Typed, ClientTypes
    <3> QED BY <1>0, <3>1, <3>2, <3>3, <3>4, Slots, OneAnswer
  <2> QED BY <2>1, <2>2
<1>3. CASE ServeLeave
  <2> DEFINE g == job["ui"].session
  <2>1. g \in Group BY <1>3, Slots DEF ServeLeave, Typed, IInv, JobInv, Jobs, IsJob
  <2>2. Serving /\ UNCHANGED drift /\ job["ui"].st = "asked" /\ job["ui"].do = "leave"
    BY <1>3 DEF ServeLeave
  <2>3. CASE Me \in members[g]
    <3>1. (EndGroup(g) \/ LeaveGroup(g)) /\ Answered("ui", {g}) BY <1>3, <2>3 DEF ServeLeave
    <3>2. Operation BY <2>1, <3>1 DEF Operation
    <3> QED BY <2>2, <3>1, <3>2, OwnOperation
  <2>4. CASE Me \notin members[g]
    <3>1. Failed("ui") /\ UNCHANGED serverVars BY <1>3, <2>4 DEF ServeLeave
    <3>3. Rests /\ UNCHANGED <<listed, hidden, todo, held>> BY <2>2, <3>1, ServingRests
    <3>4. GoesOn("ui") /\ job'["ui"].st = "failed"
      BY <3>1, AnsweredIs, Slots DEF Typed, ClientTypes
    <3> QED BY <1>0, <2>2, <3>1, <3>3, <3>4, Slots, OneAnswer
  <2> QED BY <2>3, <2>4
<1> QED BY <1>1, <1>2, <1>3 DEF Http

-----------------------------------------------------------------------------
(* What is done with an answer.                                            *)

LEMMA OverIs ==
  ASSUME job \in [Slot -> JobSet], NEW slot \in Slot, Over(slot)
  PROVE  /\ slot = "ui" => /\ job'["ui"] = NoJob
                           /\ job'["inbox"] = IF job["inbox"].do = "join" THEN NoJob ELSE job["inbox"]
         /\ slot = "inbox" =>
              /\ job'["inbox"] = NoJob
              /\ job'["ui"].do = job["ui"].do /\ job'["ui"].session = job["ui"].session
              /\ job'["ui"].st = job["ui"].st /\ job'["ui"].ids = job["ui"].ids
              /\ job'["ui"].said = job["ui"].said
              /\ job'["ui"].passed <=> (job["ui"].passed \/ job["ui"].st = "answered")
              /\ job["ui"] = NoJob => job'["ui"] = NoJob
<1> DEFINE rest == [job EXCEPT ![slot] = NoJob]
<1>1. rest \in [Slot -> JobSet] BY NoJobTyped, SlotTyped
<1>2. rest[slot] = NoJob /\ \A o \in Slot : o # slot => rest[o] = job[o] OBVIOUS
<1>3. job' = IF slot = "inbox" THEN Passing(rest)
             ELSE IF rest["inbox"].do = "join"
             THEN [rest EXCEPT !["inbox"] = NoJob] ELSE rest
  BY DEF Over
<1> HIDE DEF rest
<1>4. CASE slot = "ui"
  <2>1. rest["ui"] = NoJob /\ rest["inbox"] = job["inbox"] BY <1>2, <1>4, Slots
  <2>2. job' = IF job["inbox"].do = "join" THEN [rest EXCEPT !["inbox"] = NoJob] ELSE rest
    BY <1>3, <1>4, <2>1
  <2>3. job'["ui"] = NoJob BY <1>1, <2>1, <2>2, Slots
  <2>4. job'["inbox"] = IF job["inbox"].do = "join" THEN NoJob ELSE job["inbox"]
    BY <1>1, <2>1, <2>2, Slots
  <2> QED BY <1>4, <2>3, <2>4
<1>5. CASE slot = "inbox"
  <2>1. rest["inbox"] = NoJob /\ rest["ui"] = job["ui"] BY <1>2, <1>5, Slots
  <2>2. job' = Passing(rest) BY <1>3, <1>5
  <2>3. /\ job'["inbox"] = NoJob
        /\ job'["ui"].do = job["ui"].do /\ job'["ui"].session = job["ui"].session
        /\ job'["ui"].st = job["ui"].st /\ job'["ui"].ids = job["ui"].ids
        /\ job'["ui"].said = job["ui"].said
        /\ job'["ui"].passed <=> (job["ui"].passed \/ job["ui"].st = "answered")
        /\ job["ui"] = NoJob => job'["ui"] = NoJob
    BY <1>1, <2>1, <2>2, PassingIs
  <2> QED BY <1>5, <2>3
<1> QED BY <1>4, <1>5, Slots

LEMMA OverShape ==
  ASSUME job \in [Slot -> JobSet], JobShape, NEW slot \in Slot, Over(slot) PROVE JobShape'
<1>1. CASE slot = "ui"
  <2>1. /\ job'["ui"] = NoJob
        /\ job'["inbox"] = IF job["inbox"].do = "join" THEN NoJob ELSE job["inbox"]
    BY <1>1, OverIs
  <2>2. job'["inbox"] = NoJob \/ (job'["inbox"] = job["inbox"] /\ job["inbox"].do # "join")
    BY <2>1
  <2>3. /\ job'["inbox"].do \in {"none", "list", "event", "message"} /\ ~job'["inbox"].passed
        /\ job'["inbox"].do = "none" => job'["inbox"] = NoJob
        /\ job'["inbox"].do \in {"event", "message", "open"} /\ job'["inbox"].st = "answered" =>
             job'["inbox"].ids = {job'["inbox"].session}
    BY <2>2, NoJobIs, Slots DEF JobShape
  <2> QED BY <2>1, <2>3, NoJobIs, Slots DEF JobShape
<1>2. CASE slot = "inbox"
  <2>1. /\ job'["inbox"] = NoJob
        /\ job'["ui"].do = job["ui"].do /\ job'["ui"].session = job["ui"].session
        /\ job'["ui"].st = job["ui"].st /\ job'["ui"].ids = job["ui"].ids
        /\ job["ui"] = NoJob => job'["ui"] = NoJob
    BY <1>2, OverIs
  <2>2. /\ job'["ui"].do \in {"none", "list", "open", "leave"}
        /\ job'["ui"].do = "none" => job'["ui"] = NoJob
        /\ job'["ui"].do \in {"event", "message", "open"} /\ job'["ui"].st = "answered" =>
             job'["ui"].ids = {job'["ui"].session}
    BY <2>1, Slots DEF JobShape
  <2> QED BY <2>1, <2>2, NoJobIs, Slots DEF JobShape
<1> QED BY <1>1, <1>2, Slots

LEMMA ForgottenIs ==
  ASSUME NEW c \in [Session -> Nat], NEW S
  PROVE  \A s \in Session : Forgotten(c, S)[s] <= c[s]
BY DEF Forgotten, Within

LEMMA OverRests ==
  ASSUME Typed, NEW slot \in Slot, Over(slot),
         Storing \/ \E S : msgCursor' = Forgotten(msgCursor, S) /\ eventCursor' = Forgotten(eventCursor, S)
  PROVE  Rests /\ UNCHANGED <<todo, held>>
<1>1. UNCHANGED <<serverVars, netVars, todo, held>> BY DEF Over
<1>2. \A s \in Session : msgCursor'[s] <= msgCursor[s] /\ eventCursor'[s] <= eventCursor[s]
  <2>1. CASE Storing BY <2>1, Numbers DEF Storing
  <2>2. ASSUME NEW S, msgCursor' = Forgotten(msgCursor, S), eventCursor' = Forgotten(eventCursor, S)
        PROVE  \A s \in Session : msgCursor'[s] <= msgCursor[s] /\ eventCursor'[s] <= eventCursor[s]
    BY <2>2, Numbers, ForgottenIs
  <2> QED BY <2>1, <2>2
<1>3. \A k \in Kind, s \in Session : Cursor(k, s)' <= Cursor(k, s) BY <1>2 DEF Cursor
<1> QED BY <1>1, <1>3 DEF Rests, serverVars, socialVars, groupVars, netVars

\* the dispatcher is done, and so is what the user waits for, or it is passed
LEMMA DonePasses ==
  ASSUME job \in [Slot -> JobSet], Over("inbox")
  PROVE  AnswersLeave' /\ ListsCome'
<1>1. \A slot \in Slot : job'[slot].st = "answered" => job'[slot].passed
  BY OverIs, Slots, NoJobIs
<1> QED BY <1>1 DEF AnswersLeave, ListsCome, Current, Waits

LEMMA StoreListKeepsList ==
  ASSUME Typed, ClientTypes', JobShape, ListInv, NEW slot \in Slot, StoreList(slot)
  PROVE  ListInv'
<1>0. job \in [Slot -> JobSet] BY DEF Typed, ClientTypes
<1>1. job[slot].do = "list" /\ Over(slot) /\ job[slot].st \in {"answered", "failed"}
  BY DEF StoreList, Over
<1>2. \/ job[slot].st = "failed" /\ UNCHANGED <<msgCursor, eventCursor>>
      \/ \E S : msgCursor' = Forgotten(msgCursor, S) /\ eventCursor' = Forgotten(eventCursor, S)
  BY <1>1 DEF StoreList
<1>3. Rests /\ UNCHANGED <<todo, held>>
  <2>1. CASE UNCHANGED <<msgCursor, eventCursor>>
    <3>1. UNCHANGED <<serverVars, netVars, todo, held>> BY <1>1 DEF Over
    <3> QED BY <2>1, <3>1, Numbers DEF Rests, Cursor, serverVars, socialVars, groupVars, netVars
  <2> QED BY <1>1, <1>2, <2>1, OverRests
<1>4. job["inbox"].do = "join" => slot = "inbox" BY <1>1, Slots DEF JobShape
<1>5. slot = "ui" => job'["inbox"] = job["inbox"] /\ job'["ui"] = NoJob BY <1>0, <1>1, <1>4, OverIs
<1>6. slot = "inbox" => job'["inbox"] = NoJob BY <1>0, <1>1, OverIs
<1>7. CASE job[slot].st = "failed"
  <2>1. UNCHANGED <<listed, hidden, drift>> BY <1>7 DEF StoreList
  <2>2. \A o \in Slot : Answers(o)
    <3>1. slot = "inbox" => Answers("ui") BY <1>0, <1>1, OverIs DEF Answers, Current, Waits
    <3>2. slot = "ui" => Answers("inbox") BY <1>5 DEF Answers, Current, Waits
    <3>3. Answers(slot) BY <1>5, <1>6, NoJobIs, Slots DEF Answers, Current, Waits
    <3> QED BY <3>1, <3>2, <3>3, Slots
  <2>3. \A s \in Session : Purging(s) => Leaving(s)'
    BY <1>1, <1>5, <1>7, Slots DEF Purging, Waits, Leaving
  <2>4. ASSUME NEW s \in Session, Wanted(s), Introducing(s) \/ Listing(s) PROVE Coming(s)'
    <3>1. CASE slot = "ui"
      <4>1. Introducing(s)' <=> Introducing(s) BY <1>3, <1>5, <2>1, <3>1 DEF Introducing, Waits, Hidden
      <4>2. Listing(s)' <=> Listing(s) BY <1>5, <2>1, <3>1 DEF Listing, Waits, Hidden
      <4> QED BY <2>4, <4>1, <4>2 DEF Coming
    <3>2. CASE slot = "inbox"
      <4>1. ~Listing(s) BY <1>7, <3>2 DEF Listing, Waits
      <4>2. \/ \E i \in todo : i.session = s /\ i.why = "event"
            \/ \E i \in todo \cup held : i.session = s /\ i.why = "message" /\ ~Hidden(s, i.n)
        BY <1>1, <2>4, <3>2, <4>1 DEF Introducing, Waits
      <4>3. Introducing(s)' BY <1>3, <2>1, <4>2 DEF Introducing, Hidden
      <4> QED BY <4>3 DEF Coming
    <3> QED BY <3>1, <3>2, Slots
  <2> QED BY <1>3, <2>1, <2>2, <2>3, <2>4, RestList
<1>8. CASE job[slot].st = "answered"
  <2> DEFINE shown == {s \in job[slot].ids : ~Hidden(s, job[slot].said[s])}
  <2>1. /\ listed' = shown
        /\ hidden' = [s \in Session |-> IF s \in shown THEN NotHidden ELSE hidden[s]]
        /\ drift' = IF job[slot].passed THEN "new" ELSE IF drift = "old" THEN "none" ELSE drift
    BY <1>8 DEF StoreList
  <2>2. CASE drift' = "new" BY <2>2, DriftsList
  <2>3. CASE drift' # "new"
    <3>1. ~job[slot].passed /\ drift # "new" BY <2>1, <2>3
    <3>2. Current(slot) /\ Waits(slot, "list", "answered") BY <1>1, <1>8, <3>1 DEF Current, Waits
    <3>3. /\ \A s \in Session : /\ Fetchable(s)' <=> Fetchable(s)
                                /\ s \in Listable' <=> s \in Listable
                                /\ s \in Listable /\ AnyDue(s) => AnyDue(s)'
          /\ Announced' <=> Announced
          /\ said' = said
      BY <1>3, RestIs
    <3>4. job[slot].ids \subseteq Session BY <1>0 DEF JobSet
    <3>5. ASSUME NEW s \in Session, Leaving(s), slot = "inbox" => s \in job[slot].ids
          PROVE  Leaving(s)'
      <4>1. CASE slot = "ui"
        <5>1. Purging(s)' <=> Purging(s) BY <1>5, <4>1 DEF Purging, Waits
        <5> QED BY <3>3, <3>5, <5>1 DEF Leaving
      <4>2. CASE slot = "inbox"
        <5>1. ~Purging(s) BY <3>2, <3>5, <4>2 DEF Purging, Waits
        <5> QED BY <3>3, <3>5, <5>1 DEF Leaving
      <4> QED BY <4>1, <4>2, Slots
    <3>6. GoneLeave'
      <4>1. \A s \in job[slot].ids : s \in Session /\ Leaving(s)
        BY <3>1, <3>2, <3>4 DEF ListInv, AnswersLeave
      <4> QED BY <2>1, <3>5, <4>1 DEF GoneLeave
    <3>7. WantedCome'
      <4> SUFFICES ASSUME NEW s \in Session, Wanted(s)' PROVE AnyDue(s)'
        BY DEF WantedCome, Coming
      <4>1. s \in Listable /\ s \notin shown /\ ~Hidden(s, said[s])' BY <2>1, <3>3 DEF Wanted
      <4>2. hidden'[s] = hidden[s] BY <2>1, <4>1
      <4>3. ~Hidden(s, said[s]) BY <3>3, <4>1, <4>2 DEF Hidden
      <4>4. s \notin job[slot].ids \/ job[slot].said[s] # said[s] BY <4>1, <4>3
      <4>5. AnyDue(s) BY <3>1, <3>2, <4>1, <4>4 DEF ListInv, ListsCome
      <4> QED BY <3>3, <4>1, <4>5
    <3>8. CASE slot = "inbox"
      <4>1. AnswersLeave' /\ ListsCome' BY <1>0, <1>1, <3>8, DonePasses
      <4> QED BY <3>6, <3>7, <4>1 DEF ListInv
    <3>9. CASE slot = "ui"
      <4>1. AnswersLeave'
        <5>1. \A o \in Slot : Current(o)' => o = "inbox" /\ Current(o) /\ job'[o].ids = job[o].ids
          BY <1>5, <3>9, NoJobIs, Slots DEF Current
        <5>2. job["inbox"].ids \subseteq Session BY <1>0, Slots DEF JobSet
        <5>3. \A s \in Session : Leaving(s) => Leaving(s)' BY <3>5, <3>9, Slots
        <5> QED BY <3>1, <5>1, <5>2, <5>3 DEF ListInv, AnswersLeave
      <4>2. ListsCome'
        <5>1. \A o \in Slot : Waits(o, "list", "answered")' =>
                 /\ o = "inbox" /\ Waits(o, "list", "answered") /\ job'[o] = job[o]
          BY <1>5, <3>9, NoJobIs, Slots DEF Waits
        <5>2. \A s \in Listable : s \in Session BY DEF Listable
        <5>3. \A s \in Listable' : s \in Listable /\ said'[s] = said[s] BY <3>3 DEF Listable
        <5> QED BY <3>1, <3>3, <5>1, <5>2, <5>3 DEF ListInv, ListsCome
      <4> QED BY <3>6, <3>7, <4>1, <4>2 DEF ListInv
    <3> QED BY <3>8, <3>9, Slots
  <2> QED BY <2>2, <2>3
<1> QED BY <1>1, <1>7, <1>8

LEMMA CacheIs ==
  ASSUME hidden \in [Session -> 0..NotHidden], NEW s \in Session, NEW n, Cache(s, n)
  PROVE  /\ Hidden(s, n) => UNCHANGED <<listed, hidden>>
         /\ ~Hidden(s, n) => listed' = listed \cup {s}
         /\ \A t \in Session : t # s => hidden'[t] = hidden[t]
         /\ listed' \subseteq listed \cup {s} /\ listed \subseteq listed'
BY DEF Cache

\* one session is stored, or none
LEMMA OneStored ==
  ASSUME Typed, ClientTypes', ListInv, Rests, UNCHANGED <<todo, held, drift>>,
         NEW s \in Session, listed \subseteq listed', listed' \subseteq listed \cup {s},
         s \in listed \/ s \notin listed' \/ (drift = "none" => Leaving(s)),
         \A t \in Session : t # s => hidden'[t] = hidden[t],
         s \notin listed' => hidden'[s] = hidden[s],
         \A slot \in Slot : Answers(slot),
         \A t \in Session : Purging(t) => Purging(t)',
         \A t \in Session : Listing(t) /\ Wanted(t)' => Coming(t)',
         \A t \in Session : Wanted(t)' /\ job["inbox"].session = t => 
           \/ job'["inbox"] = job["inbox"]
           \/ job["inbox"].do = "event" /\ (job["inbox"].st = "failed" \/ Hidden(t, job["inbox"].said[t]))
           \/ job["inbox"].do \in {"message", "join"} /\ Hidden(t, job["inbox"].n)
           \/ job["inbox"].do \notin {"event", "message", "join"},
         job["inbox"].do = "event" /\ job["inbox"].st = "asked" => job'["inbox"] = job["inbox"]
  PROVE  ListInv'
<1>1. said' = said /\ \A t \in Session : t \in Listable' <=> t \in Listable BY RestIs
<1>2. ASSUME NEW t \in Session, Wanted(t)'
      PROVE  Wanted(t) /\ \A n : Hidden(t, n)' <=> Hidden(t, n)
  <2>1. t \notin listed' /\ hidden'[t] = hidden[t] BY <1>2 DEF Wanted
  <2>2. \A n : Hidden(t, n)' <=> Hidden(t, n) BY <2>1 DEF Hidden
  <2>3. t \notin listed BY <2>1
  <2>4. t \in Listable /\ ~Hidden(t, said[t]) BY <1>1, <1>2, <2>1 DEF Wanted, Hidden
  <2> QED BY <2>2, <2>3, <2>4 DEF Wanted
<1>3. \A t \in listed' : t \in listed \/ (drift = "none" => Leaving(t)) OBVIOUS
<1>4. \A t \in Session : Purging(t) => Leaving(t)' BY DEF Leaving
<1>5. ASSUME NEW t \in Session, Wanted(t)', Introducing(t) PROVE Introducing(t)'
  <2>1. \A n : Hidden(t, n)' <=> Hidden(t, n) BY <1>2, <1>5
  <2>2. CASE \E i \in todo : i.session = t /\ i.why = "event" BY <2>2 DEF Introducing
  <2>3. CASE \E i \in todo \cup held : i.session = t /\ i.why = "message" /\ ~Hidden(t, i.n)
    <3>1. PICK i \in todo \cup held : i.session = t /\ i.why = "message" /\ ~Hidden(t, i.n)
      BY <2>3
    <3>2. ~Hidden(t, i.n)' /\ i \in todo' \cup held'
      <4>1. hidden'[t] = hidden[t] BY <1>5 DEF Wanted
      <4> QED BY <3>1, <4>1 DEF Hidden
    <3> QED BY <3>1, <3>2 DEF Introducing
  <2>4. CASE job'["inbox"] = job["inbox"]
    <3>1. hidden'[t] = hidden[t] BY <1>5 DEF Wanted
    <3> QED BY <1>5, <2>4, <3>1 DEF Introducing, Waits, Hidden
  <2>5. CASE job'["inbox"] # job["inbox"] /\ job["inbox"].session = t
    <3>1. ~Waits("inbox", "event", "asked") BY <2>5 DEF Waits
    <3>2. \/ ~Waits("inbox", "event", "answered")
          \/ Hidden(t, job["inbox"].said[t])
      BY <1>5, <2>5 DEF Waits
    <3>3. job["inbox"].do \in {"message", "join"} => Hidden(t, job["inbox"].n)
      BY <1>5, <2>5
    <3> QED BY <1>5, <2>2, <2>3, <3>1, <3>2, <3>3 DEF Introducing
  <2>6. CASE job["inbox"].session # t BY <1>5, <2>2, <2>3, <2>6 DEF Introducing
  <2> QED BY <2>4, <2>5, <2>6
<1>6. \A t \in Session : Wanted(t)' /\ (Introducing(t) \/ Listing(t)) => Coming(t)'
  BY <1>2, <1>5 DEF Coming
<1> QED BY <1>2, <1>3, <1>4, <1>6, StoredList

\* the dispatcher is done with a fetch
LEMMA InboxOverList ==
  ASSUME Typed, ClientTypes', JobShape, ListInv, Over("inbox"), Storing, drift' = drift,
         job["inbox"].do \in {"event", "message"},
         LET s == job["inbox"].session
         IN  /\ listed \subseteq listed' /\ listed' \subseteq listed \cup {s}
             /\ s \in listed \/ s \notin listed' \/ job["inbox"].st = "answered" \/ Fetchable(s)
             /\ \A t \in Session : t # s => hidden'[t] = hidden[t]
             /\ s \notin listed' =>
                  /\ hidden'[s] = hidden[s]
                  /\ job["inbox"].do = "event" =>
                       job["inbox"].st = "failed" \/ Hidden(s, job["inbox"].said[s])
                  /\ job["inbox"].do = "message" => Hidden(s, job["inbox"].n)
  PROVE  ListInv'
<1> DEFINE s == job["inbox"].session
<1>1. job \in [Slot -> JobSet] /\ s \in Session
  BY Slots DEF Typed, ClientTypes, JobSet
<1>2. Rests /\ UNCHANGED <<todo, held>> BY Slots, OverRests
<1>3. /\ job'["inbox"] = NoJob
      /\ job'["ui"].do = job["ui"].do /\ job'["ui"].st = job["ui"].st
      /\ job'["ui"].ids = job["ui"].ids /\ job'["ui"].said = job["ui"].said
      /\ job["ui"].passed => job'["ui"].passed
  BY <1>1, Slots, OverIs
<1>4. \A slot \in Slot : Answers(slot)
  <2>1. Answers("inbox") BY <1>3, NoJobIs DEF Answers, Current, Waits
  <2>2. Answers("ui") BY <1>3 DEF Answers, Current, Waits
  <2> QED BY <2>1, <2>2, Slots
<1>5. job["inbox"].st = "answered" => (drift = "none" => Leaving(s))
  <2>1. ASSUME job["inbox"].st = "answered", drift = "none" PROVE Leaving(s)
    <3>1. Current("inbox") /\ job["inbox"].ids = {s} BY <2>1, Slots DEF Current, JobShape
    <3> QED BY <2>1, <3>1, Slots DEF ListInv, AnswersLeave
  <2> QED BY <2>1
<1>6. s \in listed \/ s \notin listed' \/ (drift = "none" => Leaving(s)) BY <1>5 DEF Leaving
<1>7. ~Waits("inbox", "list", "asked") /\ ~Waits("inbox", "list", "answered") BY DEF Waits
<1>8. \A t \in Session : ~Purging(t) /\ ~Listing(t) BY <1>7 DEF Purging, Listing
<1>9. job["inbox"].st # "asked" BY DEF Over
<1>10. \A t \in Session : Wanted(t)' => t \notin listed' BY DEF Wanted
<1>11. /\ listed \subseteq listed' /\ listed' \subseteq listed \cup {s}
       /\ \A t \in Session : t # s => hidden'[t] = hidden[t]
       /\ s \notin listed' => hidden'[s] = hidden[s]
  OBVIOUS
<1>12. \A t \in Session : Wanted(t)' /\ s = t =>
         \/ job["inbox"].do = "event" /\ (job["inbox"].st = "failed" \/ Hidden(t, job["inbox"].said[t]))
         \/ job["inbox"].do \in {"message", "join"} /\ Hidden(t, job["inbox"].n)
  BY <1>10
<1> HIDE DEF s
<1> QED BY <1>1, <1>2, <1>4, <1>6, <1>8, <1>9, <1>11, <1>12, OneStored DEF s

LEMMA StoreEventKeepsList ==
  ASSUME Typed, ClientTypes', JobShape, ListInv, StoreEvent PROVE ListInv'
<1> DEFINE s == job["inbox"].session
           n == job["inbox"].said[s]
<1>1. s \in Session /\ hidden \in [Session -> 0..NotHidden]
  BY Slots DEF Typed, ClientTypes, JobSet
<1>2. job["inbox"].do = "event" /\ Over("inbox") /\ drift' = drift /\ Storing BY DEF StoreEvent
<1>3. job["inbox"].st \in {"answered", "failed"} BY <1>2 DEF Over
<1>4. CASE job["inbox"].st = "answered"
  <2>1. Cache(s, n) BY <1>4 DEF StoreEvent
  <2>2. /\ Hidden(s, n) => UNCHANGED <<listed, hidden>>
        /\ ~Hidden(s, n) => listed' = listed \cup {s}
        /\ \A t \in Session : t # s => hidden'[t] = hidden[t]
        /\ listed' \subseteq listed \cup {s} /\ listed \subseteq listed'
    BY <1>1, <2>1, CacheIs
  <2> QED BY <1>2, <1>4, <2>2, InboxOverList
<1>5. CASE job["inbox"].st = "failed"
  <2>1. UNCHANGED <<listed, hidden>> BY <1>5 DEF StoreEvent
  <2> QED BY <1>2, <1>5, <2>1, InboxOverList
<1> QED BY <1>3, <1>4, <1>5

LEMMA StoreMessageKeepsList ==
  ASSUME Typed, ClientTypes', JobShape, ListInv, StoreMessage PROVE ListInv'
<1> DEFINE s == job["inbox"].session
           k == job["inbox"].n
           n == IF job["inbox"].st = "answered" THEN Higher(job["inbox"].said[s], k) ELSE k
<1>1. s \in Session /\ hidden \in [Session -> 0..NotHidden] /\ k \in Nat /\ job["inbox"].said[s] \in Nat
  <2>1. job["inbox"] \in JobSet BY Slots DEF Typed, ClientTypes
  <2>2. s \in Session /\ k \in Count /\ job["inbox"].said \in Counts BY <2>1 DEF JobSet
  <2>3. Count \subseteq Nat BY Numbers
  <2> HIDE DEF s
  <2>4. job["inbox"].said[s] \in Count BY <2>2 DEF Counts
  <2>5. hidden \in [Session -> 0..NotHidden] BY DEF Typed, ClientTypes
  <2> QED BY <2>2, <2>3, <2>4, <2>5
<1>2. /\ job["inbox"].do = "message" /\ Over("inbox") /\ Storing
      /\ IF s \in listed THEN UNCHANGED <<listed, hidden>> ELSE Cache(s, n)
      /\ IF job["inbox"].st = "failed" /\ ~Fetchable(s) THEN drift' = "new" ELSE drift' = drift
  BY DEF StoreMessage, Drifts
<1>3. job["inbox"].st \in {"answered", "failed"} BY <1>2 DEF Over
<1>4. Hidden(s, n) => Hidden(s, k)
  <2>1. k <= n /\ n \in Nat BY <1>1 DEF Higher
  <2>2. hidden[s] \in Nat BY <1>1, Bounds
  <2> HIDE DEF n, k
  <2> QED BY <1>1, <2>1, <2>2 DEF Hidden
<1> HIDE DEF n
<1>5. /\ listed \subseteq listed' /\ listed' \subseteq listed \cup {s}
      /\ \A t \in Session : t # s => hidden'[t] = hidden[t]
      /\ s \notin listed' => hidden'[s] = hidden[s] /\ Hidden(s, k)
  <2>1. CASE s \in listed BY <1>2, <2>1
  <2>2. CASE s \notin listed
    <3>1. /\ Hidden(s, n) => UNCHANGED <<listed, hidden>>
          /\ ~Hidden(s, n) => listed' = listed \cup {s}
          /\ \A t \in Session : t # s => hidden'[t] = hidden[t]
          /\ listed' \subseteq listed \cup {s} /\ listed \subseteq listed'
      BY <1>1, <1>2, <2>2, CacheIs
    <3> QED BY <1>4, <2>2, <3>1
  <2> QED BY <2>1, <2>2
<1>6. CASE drift' = "new" BY <1>6, DriftsList
<1>7. CASE drift' # "new"
  <2>1. drift' = drift /\ (job["inbox"].st = "answered" \/ Fetchable(s)) BY <1>2, <1>3, <1>7
  <2> QED BY <1>2, <1>5, <2>1, InboxOverList
<1> QED BY <1>6, <1>7

LEMMA StoreOpenKeepsList ==
  ASSUME Typed, ClientTypes', JobShape, ListInv, StoreOpen PROVE ListInv'
<1> DEFINE s == job["ui"].session
<1>1. /\ job \in [Slot -> JobSet] /\ s \in Session /\ hidden \in [Session -> 0..NotHidden]
  BY Slots DEF Typed, ClientTypes, JobSet
<1>2. job["ui"].do = "open" /\ Over("ui") /\ Storing /\ job["ui"].st \in {"answered", "failed"}
  BY DEF StoreOpen, Over
<1>3. Rests /\ UNCHANGED <<todo, held>> BY <1>2, Slots, OverRests
<1>4. /\ job'["ui"] = NoJob
      /\ job'["inbox"] = IF job["inbox"].do = "join" THEN NoJob ELSE job["inbox"]
  BY <1>1, <1>2, Slots, OverIs
<1>5. CASE drift' = "new" BY <1>5, DriftsList
<1>6. CASE drift' # "new"
  <2>1. /\ drift' = drift /\ drift # "new"
        /\ job["ui"].st = "answered" =>
             listed' = listed \cup {s} /\ hidden' = [hidden EXCEPT ![s] = NotHidden] /\ ~job["ui"].passed
        /\ job["ui"].st = "failed" =>
             UNCHANGED <<listed, hidden>> /\ (job["inbox"].do = "join" => ~Fetchable(s))
    BY <1>2, <1>6 DEF StoreOpen, Drifts
  <2>2. job["ui"].st = "answered" => Leaving(s)
    <3>1. ASSUME job["ui"].st = "answered" PROVE Leaving(s)
      <4>1. Current("ui") /\ job["ui"].ids = {s} BY <1>2, <2>1, <3>1, Slots DEF Current, JobShape
      <4> QED BY <2>1, <4>1, Slots DEF ListInv, AnswersLeave
    <3> QED BY <3>1
  <2>3. /\ listed \subseteq listed' /\ listed' \subseteq listed \cup {s}
        /\ s \in listed \/ s \notin listed' \/ (drift = "none" => Leaving(s))
        /\ \A t \in Session : t # s => hidden'[t] = hidden[t]
        /\ s \notin listed' => hidden'[s] = hidden[s]
    <3>1. CASE job["ui"].st = "answered" BY <1>1, <2>1, <2>2, <3>1
    <3>2. CASE job["ui"].st = "failed" BY <2>1, <3>2
    <3> QED BY <1>2, <3>1, <3>2
  <2>4. \A slot \in Slot : Answers(slot)
    <3>1. Answers("ui") BY <1>4, NoJobIs DEF Answers, Current, Waits
    <3>2. Answers("inbox") BY <1>4, NoJobIs DEF Answers, Current, Waits
    <3> QED BY <3>1, <3>2, Slots
  <2>5. job["inbox"].do # "join" => job'["inbox"] = job["inbox"] BY <1>4
  <2>6. ASSUME NEW t \in Session, Purging(t) PROVE Purging(t)'
    <3>1. job["inbox"].do = "list" BY <2>6 DEF Purging, Waits
    <3> QED BY <2>5, <2>6, <3>1 DEF Purging, Waits
  <2>7. ASSUME NEW t \in Session, Listing(t), t \notin listed' PROVE Listing(t)'
    <3>1. job["inbox"].do = "list" BY <2>7 DEF Listing, Waits
    <3>2. hidden'[t] = hidden[t] BY <2>3, <2>7
    <3> QED BY <2>5, <2>7, <3>1, <3>2 DEF Listing, Waits, Hidden
  <2>8. ASSUME NEW t \in Session, Wanted(t)', job["inbox"].session = t
        PROVE  job'["inbox"] = job["inbox"]
    <3>1. SUFFICES job["inbox"].do = "join" => FALSE BY <2>5
    <3>2. ASSUME job["inbox"].do = "join" PROVE FALSE
      <4>1. t = s BY <2>8, <3>2 DEF JobShape
      <4>2. t \notin listed' /\ Fetchable(t)' BY <2>8 DEF Wanted, Listable
      <4>3. Fetchable(t) BY <1>3, <4>2, RestIs
      <4> QED BY <1>2, <2>1, <3>2, <4>1, <4>2, <4>3
    <3> QED BY <3>2
  <2>9. job["inbox"].do = "event" /\ job["inbox"].st = "asked" => job'["inbox"] = job["inbox"]
    BY <2>5
  <2> HIDE DEF s
  <2>10. /\ s \in Session /\ listed \subseteq listed' /\ listed' \subseteq listed \cup {s}
         /\ s \in listed \/ s \notin listed' \/ (drift = "none" => Leaving(s))
         /\ \A t \in Session : t # s => hidden'[t] = hidden[t]
         /\ s \notin listed' => hidden'[s] = hidden[s]
    BY <1>1, <2>3 DEF s
  <2>11. UNCHANGED <<todo, held, drift>> /\ Rests BY <1>3, <2>1
  <2>12. \A t \in Session : Purging(t) => Purging(t)' BY <2>6
  <2>13. \A t \in Session : Listing(t) /\ Wanted(t)' => Coming(t)' BY <2>7 DEF Coming, Wanted
  <2> QED BY <2>8, <2>9, <2>10, <2>11, <2>12, <2>13, <2>4, OneStored
<1> QED BY <1>5, <1>6

\* what the user hides is not wanted: nothing was said since
LEMMA HideKeepsList ==
  ASSUME Typed, ClientTypes', JobShape, ListInv, NEW s \in Session, Hide(s),
         job["ui"].do # "open"
  PROVE  ListInv' /\ JobShape'
<1> DEFINE cancelled == job["inbox"].do = "message" /\ job["inbox"].session = s
<1>1. /\ listed' = listed \ {s} /\ hidden' = [hidden EXCEPT ![s] = said[s]]
      /\ job' = [job EXCEPT !["ui"] = NoJob, !["inbox"] = IF cancelled THEN NoJob ELSE @]
      /\ todo' = IF cancelled THEN {} ELSE todo
      /\ IF cancelled /\ todo # {} THEN drift' = "new" ELSE drift' = drift
      /\ UNCHANGED <<serverVars, netVars, held>>
      /\ \/ UNCHANGED <<msgCursor, eventCursor>>
         \/ msgCursor' = Forgotten(msgCursor, {s}) /\ eventCursor' = Forgotten(eventCursor, {s})
  BY DEF Hide, Drifts
<1>2. job \in [Slot -> JobSet] /\ hidden \in [Session -> 0..NotHidden] /\ said \in Counts
  BY Counting DEF Typed, ClientTypes
<1>3. job'["ui"] = NoJob /\ job'["inbox"] = IF cancelled THEN NoJob ELSE job["inbox"]
  BY <1>1, <1>2, Slots
<1>4. job["inbox"].do # "join" BY DEF JobShape
<1>5. JobShape'
  <2>1. job'["inbox"] = NoJob \/ job'["inbox"] = job["inbox"] BY <1>3
  <2>2. /\ job'["inbox"].do \in {"none", "list", "event", "message"} /\ ~job'["inbox"].passed
        /\ job'["inbox"].do = "none" => job'["inbox"] = NoJob
        /\ job'["inbox"].do \in {"event", "message", "open"} /\ job'["inbox"].st = "answered" =>
             job'["inbox"].ids = {job'["inbox"].session}
    BY <1>4, <2>1, NoJobIs, Slots DEF JobShape
  <2> QED BY <1>3, <2>2, NoJobIs, Slots DEF JobShape
<1>6. Rests
  <2>1. \A t \in Session : msgCursor'[t] <= msgCursor[t] /\ eventCursor'[t] <= eventCursor[t]
    BY <1>1, Numbers, ForgottenIs
  <2>2. \A k \in Kind, t \in Session : Cursor(k, t)' <= Cursor(k, t) BY <2>1 DEF Cursor
  <2> QED BY <1>1, <2>2 DEF Rests, serverVars, socialVars, groupVars, netVars
<1>7. CASE drift' = "new" BY <1>5, <1>7, DriftsList
<1>8. CASE drift' # "new"
  <2>1. drift' = drift /\ todo' = todo BY <1>1, <1>8
  <2>2. hidden'[s] = said[s] /\ \A t \in Session : t # s => hidden'[t] = hidden[t] BY <1>1, <1>2
  <2>3. ASSUME NEW t \in Session, Wanted(t)' PROVE t # s /\ Wanted(t)
    <3>1. said' = said /\ (t \in Listable' <=> t \in Listable) BY <1>6, RestIs
    <3>2. said[s] \in 0..(MaxBefore + MaxOps + 1) BY <1>2 DEF Counts, Count
    <3>3. said[s] # NotHidden /\ said[s] <= said[s]
      <4> DEFINE n == said[s]
      <4>1. n \in 0..(MaxBefore + MaxOps + 1) BY <3>2
      <4> HIDE DEF n
      <4>2. n # NotHidden /\ n <= n BY <4>1, Bounds DEF NotHidden
      <4> QED BY <4>2 DEF n
    <3>4. Hidden(s, said[s])' BY <2>2, <3>1, <3>3 DEF Hidden
    <3>5. t # s BY <2>3, <3>4 DEF Wanted
    <3>6. t \notin listed BY <1>1, <2>3, <3>5 DEF Wanted
    <3>7. ~Hidden(t, said[t]) BY <2>2, <2>3, <3>1, <3>5 DEF Wanted, Hidden
    <3> QED BY <2>3, <3>1, <3>5, <3>6, <3>7 DEF Wanted
  <2>4. \A slot \in Slot : Answers(slot)
    <3>1. Answers("ui") BY <1>3, NoJobIs DEF Answers, Current, Waits
    <3>2. Answers("inbox") BY <1>3, NoJobIs DEF Answers, Current, Waits
    <3> QED BY <3>1, <3>2, Slots
  <2>5. ASSUME NEW t \in Session, Purging(t) PROVE Leaving(t)'
    <3>1. ~cancelled BY <2>5 DEF Purging, Waits
    <3> QED BY <1>3, <2>5, <3>1 DEF Purging, Waits, Leaving
  <2>6. ASSUME NEW t \in Session, Wanted(t)', Introducing(t) \/ Listing(t) PROVE Coming(t)'
    <3>1. t # s /\ hidden'[t] = hidden[t] BY <2>2, <2>3, <2>6
    <3>2. todo' \cup held' = todo \cup held BY <1>1, <2>1
    <3>3. \A n : Hidden(t, n)' <=> Hidden(t, n) BY <3>1 DEF Hidden
    <3>4. CASE Listing(t)
      <4>1. ~cancelled BY <3>4 DEF Listing, Waits
      <4> QED BY <1>3, <3>1, <3>4, <4>1 DEF Listing, Waits, Hidden, Coming
    <3>5. CASE Introducing(t)
      <4>1. job["inbox"].session = t => job'["inbox"] = job["inbox"] BY <1>3, <3>1
      <4> QED BY <2>1, <3>1, <3>2, <3>5, <4>1 DEF Introducing, Waits, Hidden, Coming
    <3> QED BY <2>6, <3>4, <3>5
  <2>7. \A t \in listed' : t \in listed \/ (drift = "none" => Leaving(t)) BY <1>1
  <2>8. ListInv' BY <1>6, <2>1, <2>3, <2>4, <2>5, <2>6, <2>7, StoredList
  <2> QED BY <1>5, <2>8
<1> QED BY <1>7, <1>8

LEMMA StoreLeaveKeepsList ==
  ASSUME Typed, ClientTypes', JobShape, ListInv, StoreLeave PROVE ListInv' /\ JobShape'
<1>1. job \in [Slot -> JobSet] /\ job["ui"].session \in Session
  BY Slots DEF Typed, ClientTypes, JobSet
<1>2. job["ui"].do = "leave" BY DEF StoreLeave
<1>3. CASE Hide(job["ui"].session) BY <1>1, <1>2, <1>3, HideKeepsList
<1>4. CASE Over("ui") /\ UNCHANGED <<listed, hidden, drift>> /\ Storing
  <2>1. JobShape' BY <1>1, <1>4, Slots, OverShape
  <2>2. job["inbox"].do # "join" BY <1>2 DEF JobShape
  <2>3. job'["ui"] = NoJob /\ job'["inbox"] = job["inbox"] BY <1>1, <1>4, <2>2, Slots, OverIs
  <2>4. Rests /\ UNCHANGED <<todo, held>> BY <1>4, Slots, OverRests
  <2>5. \A slot \in Slot : Answers(slot) BY <2>3, NoJobIs, Slots DEF Answers, Current, Waits
  <2>6. \A s \in Session : Purging(s) => Leaving(s)' BY <2>3 DEF Purging, Waits, Leaving
  <2>7. \A s \in Session : Introducing(s) \/ Listing(s) => Coming(s)'
    BY <1>4, <2>3, <2>4 DEF Introducing, Listing, Waits, Hidden, Coming
  <2>8. ListInv' BY <1>4, <2>4, <2>5, <2>6, <2>7, RestList
  <2> QED BY <2>1, <2>8
<1> QED BY <1>3, <1>4 DEF StoreLeave

LEMMA StoreKeepsList ==
  ASSUME Typed, ClientTypes', JobShape, ListInv, Store PROVE ListInv' /\ JobShape'
<1>0. job \in [Slot -> JobSet] BY DEF Typed, ClientTypes
<1>1. ASSUME NEW slot \in Slot, StoreList(slot) PROVE ListInv' /\ JobShape'
  BY <1>0, <1>1, StoreListKeepsList, OverShape DEF StoreList
<1>2. CASE StoreEvent BY <1>0, <1>2, StoreEventKeepsList, OverShape, Slots DEF StoreEvent
<1>3. CASE StoreMessage BY <1>0, <1>3, StoreMessageKeepsList, OverShape, Slots DEF StoreMessage
<1>4. CASE StoreOpen BY <1>0, <1>4, StoreOpenKeepsList, OverShape, Slots DEF StoreOpen
<1>5. CASE StoreLeave BY <1>5, StoreLeaveKeepsList
<1> QED BY <1>1, <1>2, <1>3, <1>4, <1>5 DEF Store

-----------------------------------------------------------------------------
(* The user.                                                               *)

\* the user asks for something
LEMMA BeginsIs ==
  ASSUME Typed, JobShape, NEW do \in {"list", "open", "leave"}, NEW s \in Session, Begins(do, s)
  PROVE  /\ JobShape' /\ UiAsks /\ Keeps /\ job'["inbox"] = job["inbox"]
         /\ ~Current("ui")' /\ ~Waits("ui", "list", "answered")'
         /\ UNCHANGED <<listed, hidden, todo, held>>
<1>1. job["ui"] = NoJob /\ job' = [job EXCEPT !["ui"] = Job(do, s, 0)] BY DEF Begins
<1>2. job \in [Slot -> JobSet] BY DEF Typed, ClientTypes
<1>3. job'["ui"] = Job(do, s, 0) /\ job'["inbox"] = job["inbox"] BY <1>1, <1>2, Slots
<1>4. job'["ui"].do = do /\ job'["ui"].st = "asked" BY <1>3, NoJobIs
<1>5. job["inbox"].do # "join" BY <1>1, NoJobIs DEF JobShape
<1>6. /\ job["inbox"].do \in {"none", "list", "event", "message"} /\ ~job["inbox"].passed
      /\ job["inbox"].do = "none" => job["inbox"] = NoJob
      /\ job["inbox"].do \in {"event", "message", "open"} /\ job["inbox"].st = "answered" =>
           job["inbox"].ids = {job["inbox"].session}
  BY <1>5, Slots DEF JobShape
<1>7. JobShape' BY <1>3, <1>4, <1>6, Slots DEF JobShape
<1>8. UiAsks /\ ~Current("ui")' /\ ~Waits("ui", "list", "answered")' BY <1>4 DEF UiAsks, Current, Waits
<1>9. Aside /\ UNCHANGED <<socialVars, groupVars, said, told, out>> BY DEF Begins, Aside
<1>10. Keeps
  <2>1. Announced' <=> Announced BY <1>9 DEF Aside, netVars, Announced, OnWire
  <2>2. \A t \in Session : /\ Fetchable(t)' <=> Fetchable(t)
                           /\ t \in Listable' <=> t \in Listable
    BY <1>9 DEF Fetchable, Unblocked, Listable, socialVars, groupVars
  <2>3. \A k \in Kind, t \in Session : Due(k, t)' <=> Due(k, t)
    <3> SUFFICES ASSUME NEW k \in Kind, NEW t \in Session PROVE Due(k, t)' <=> Due(k, t)
      OBVIOUS
    <3>1. /\ Number(k, t)' = Number(k, t) /\ Cursor(k, t)' = Cursor(k, t)
          /\ Known(k, t)' = Known(k, t)
      BY <1>9 DEF Aside, netVars, Number, Cursor, Known
    <3>2. One(k, t, Number(k, t))' = One(k, t, Number(k, t)) BY <3>1 DEF One, Event, Message
    <3> QED BY <1>9, <3>1, <3>2 DEF Aside, netVars, Due, OnWire, Carries, One, Event, Message
  <2>4. \A t \in Session : AnyDue(t)' <=> AnyDue(t) BY <2>1, <2>3 DEF AnyDue
  <2> QED BY <1>9, <2>1, <2>2, <2>4 DEF Keeps
<1> QED BY <1>3, <1>7, <1>8, <1>10 DEF Begins

\* a client that is started for the first time connects afterwards
LEMMA FirstStart ==
  ASSUME Typed, BaseInv, before, Start PROVE ListInv'
<1>1. Begins("list", Chat) BY DEF Start
<1>2. Unstarted /\ Founded /\ JobShape BY DEF BaseInv
<1>3. /\ link = "down" /\ listed = {} /\ job["inbox"] = NoJob
      /\ \A k \in Kind, s \in Session : Cursor(k, s) = 0
  BY <1>2, Slots DEF Unstarted
<1>4. /\ ~Current("ui")' /\ ~Waits("ui", "list", "answered")' /\ listed' = listed
      /\ job'["inbox"] = NoJob
  BY <1>1, <1>2, <1>3, Sessions, BeginsIs
<1>5. ~Current("inbox")' /\ ~Waits("inbox", "list", "answered")'
  BY <1>4, NoJobIs DEF Current, Waits
<1>6. GoneLeave' /\ AnswersLeave' /\ ListsCome'
  BY <1>3, <1>4, <1>5, Slots DEF GoneLeave, AnswersLeave, ListsCome
<1>7. ASSUME NEW s \in Session, Wanted(s)' PROVE AnyDue(s)'
  <2>1. UNCHANGED <<directs, blocks, members, owner, said, told, link, msgCursor, eventCursor>>
    BY <1>1 DEF Begins, netVars, socialVars, groupVars
  <2>2. s \in Listable BY <1>7, <2>1 DEF Wanted, Listable, Fetchable, Unblocked
  <2>3. \E k \in Kind : Number(k, s) > 0
    <3>1. CASE s = Chat BY <2>2, <3>1 DEF Listable, Number, Kind
    <3>2. CASE s # Chat
      <4>1. s \in Group /\ Fetchable(s) BY <2>2, <3>2, Sessions DEF Listable
      <4>2. owner[s] # None BY <4>1, DeadGroups
      <4>3. told[s] > 0 BY <1>2, <4>1, <4>2 DEF Founded
      <4> QED BY <4>3 DEF Number, Kind
    <3> QED BY <3>1, <3>2
  <2>4. PICK k \in Kind : Number(k, s) > 0 BY <2>3
  <2>5. Cursor(k, s)' = 0 /\ Number(k, s)' = Number(k, s)
    BY <1>3, <2>1 DEF Cursor, Number
  <2>6. Number(k, s) \in Nat BY Numbers
  <2> DEFINE np == Number(k, s)'
             cp == Cursor(k, s)'
  <2>7. np \in Nat /\ np > 0 /\ cp = 0 BY <2>4, <2>5, <2>6
  <2> HIDE DEF np, cp
  <2>8. cp < np BY <2>7
  <2> QED BY <1>3, <2>1, <2>8 DEF np, cp, Due, AnyDue
<1> QED BY <1>6, <1>7 DEF WantedCome, Coming, ListInv

LEMMA UserKeepsList ==
  ASSUME Typed, ClientTypes', BaseInv, ListInv, UserStep PROVE ListInv' /\ JobShape'
<1>0. JobShape BY DEF BaseInv
<1>1. ASSUME NEW do \in {"list", "open", "leave"}, NEW s \in Session, Begins(do, s), drift' = drift
      PROVE  ListInv' /\ JobShape'
  BY <1>0, <1>1, BeginsIs, QuietList
<1>2. CASE Start
  <2>1. Begins("list", Chat) BY <1>2 DEF Start
  <2>2. JobShape' BY <1>0, <2>1, Sessions, BeginsIs
  <2>3. CASE before BY <1>2, <2>2, <2>3, FirstStart
  <2>4. CASE ~before
    <3>1. drift' = drift BY <1>2, <2>4 DEF Start
    <3> QED BY <1>1, <2>1, <3>1, Sessions
  <2> QED BY <2>3, <2>4
<1>3. ASSUME NEW do \in {"list", "open", "leave"}, NEW s \in Session, Asks(do, s)
      PROVE  ListInv' /\ JobShape'
  BY <1>1, <1>3 DEF Asks
<1>4. CASE RefreshList BY <1>3, <1>4, Sessions DEF RefreshList
<1>5. CASE Restart
  <2>1. drift' = "new" /\ job' = [slot \in Slot |-> NoJob] BY <1>5 DEF Restart, Drifts
  <2>2. JobShape' BY <2>1, NoJobIs, Slots DEF JobShape
  <2> QED BY <2>1, <2>2, DriftsList
<1>6. ASSUME NEW s \in Session, OpenSession(s) PROVE ListInv' /\ JobShape'
  BY <1>3, <1>6 DEF OpenSession
<1>7. ASSUME NEW s \in Session, HideSession(s) PROVE ListInv' /\ JobShape'
  <2>1. Hide(s) /\ job["ui"] = NoJob BY <1>7 DEF HideSession
  <2> QED BY <1>0, <2>1, NoJobIs, HideKeepsList
<1>8. ASSUME NEW g \in Group, Leave(g) PROVE ListInv' /\ JobShape'
  BY <1>3, <1>8, Sessions DEF Leave
<1> QED BY <1>2, <1>4, <1>5, <1>6, <1>7, <1>8 DEF UserStep

-----------------------------------------------------------------------------
(* Every step.                                                             *)

LEMMA OrderStep ==
  ASSUME Typed, BaseInv, [Next]_vars PROVE SyncOrder'
<1>0. SyncOrder BY DEF BaseInv
<1>1. ASSUME UNCHANGED <<wire, link, ask, held>> PROVE SyncOrder' BY <1>0, <1>1 DEF SyncOrder, OnWire
<1>2. CASE Server \/ UNCHANGED vars
  BY <1>1, <1>2 DEF Server, vars, netVars, clientVars
<1>3. CASE Net BY <1>0, <1>3, NetKeepsOrder
<1>4. CASE Inbox
  <2>1. CASE AskSync BY <1>0, <2>1, AskOrder
  <2>2. CASE Take BY <1>0, <2>2, TakeKeepsOrder
  <2>3. ASSUME NEW i \in todo, Introduce(i) PROVE SyncOrder' BY <1>1, <2>3 DEF Introduce, netVars
  <2> QED BY <1>4, <2>1, <2>2, <2>3 DEF Inbox
<1>5. CASE Http
  <2>1. Serving BY <1>5, HttpServer
  <2> QED BY <1>1, <2>1 DEF Serving, netVars
<1>6. CASE Store
  <2>1. ASSUME NEW slot \in Slot, Over(slot) PROVE SyncOrder' BY <1>1, <2>1 DEF Over, netVars
  <2>2. ASSUME NEW s, Hide(s) PROVE SyncOrder' BY <1>1, <2>2 DEF Hide, netVars
  <2> QED BY <1>6, <2>1, <2>2, Slots DEF Store, StoreList, StoreEvent, StoreMessage, StoreOpen, StoreLeave
<1>7. CASE UserStep
  <2>1. ASSUME NEW do, NEW s, Begins(do, s) PROVE SyncOrder' BY <1>1, <2>1 DEF Begins, netVars
  <2>2. ASSUME NEW s, Hide(s) PROVE SyncOrder' BY <1>1, <2>2 DEF Hide, netVars
  <2>3. CASE Restart BY <2>3, BrokenOrder DEF Restart
  <2> QED BY <1>7, <2>1, <2>2, <2>3
     DEF UserStep, Start, RefreshList, OpenSession, HideSession, Leave, Asks
<1> QED BY <1>2, <1>3, <1>4, <1>5, <1>6, <1>7 DEF Next

\* what the client does beside the network
LEMMA RestNumbersToo ==
  ASSUME Typed, Numbered, UNCHANGED <<owner, created, said, told, out>>,
         wire' = wire \/ wire' = <<>>,
         \A s \in Session : msgCursor'[s] <= msgCursor[s] /\ eventCursor'[s] <= eventCursor[s],
         msgCursor' \in [Session -> Nat], eventCursor' \in [Session -> Nat]
  PROVE  Numbered'
<1>1. ASSUME NEW k \in Kind, NEW s \in Session, ~Dead(s) PROVE Cursor(k, s)' <= Number(k, s)
  <2> DEFINE c == Cursor(k, s)'
  <2>1. c \in Nat /\ c <= Cursor(k, s) BY DEF Cursor
  <2>2. Cursor(k, s) <= Number(k, s) BY <1>1 DEF Numbered
  <2>3. Cursor(k, s) \in Nat /\ Number(k, s) \in Nat BY Numbers
  <2> HIDE DEF c
  <2>4. c <= Number(k, s) BY <2>1, <2>2, <2>3
  <2> QED BY <2>4 DEF c
<1>2. \A i \in DOMAIN wire' : \E j \in DOMAIN wire : wire'[i] = wire[j]
  <2>1. DOMAIN <<>> = {} OBVIOUS
  <2> QED BY <2>1
<1> QED BY <1>1, <1>2, RestNumbers

LEMMA NumberStep ==
  ASSUME Typed, BaseInv, ServerTypes', ClientTypes', [Next]_vars PROVE Numbered'
<1>0. Numbered BY DEF BaseInv
<1>a. /\ msgCursor \in [Session -> Nat] /\ eventCursor \in [Session -> Nat]
      /\ msgCursor' \in [Session -> Nat] /\ eventCursor' \in [Session -> Nat]
  <2>1. Count \subseteq Nat BY Numbers
  <2>2. msgCursor' \in Counts /\ eventCursor' \in Counts BY DEF ClientTypes
  <2>3. msgCursor' \in [Session -> Nat] /\ eventCursor' \in [Session -> Nat] BY <2>1, <2>2 DEF Counts
  <2> QED BY <2>3, Numbers
<1>1. ASSUME UNCHANGED <<owner, created, said, told, out, msgCursor, eventCursor>>,
             wire' = wire \/ wire' = <<>>
      PROVE  Numbered'
  BY <1>0, <1>a, <1>1, RestNumbersToo
<1>2. CASE Server
  <2>1. Aside /\ Operation BY <1>2 DEF Server, Aside, Operation, clientVars
  <2> QED BY <2>1, OperationKeeps
<1>3. CASE Net \/ AskSync BY <1>3, NetKeepsNumbers
<1>4. CASE Take BY <1>0, <1>4, TakeKeepsNumbers
<1>5. ASSUME NEW i \in todo, Introduce(i) PROVE Numbered'
  BY <1>1, <1>5 DEF Introduce, serverVars, groupVars, netVars
<1>6. CASE Http
  <2>1. Serving /\ (UNCHANGED serverVars \/ Operation) BY <1>6, HttpServer
  <2>2. CASE UNCHANGED serverVars BY <1>1, <2>1, <2>2 DEF Serving, serverVars, groupVars, netVars
  <2>3. CASE Operation
    <3>1. Aside BY <2>1 DEF Serving, Aside
    <3> QED BY <2>3, <3>1, OperationKeeps
  <2> QED BY <2>1, <2>2, <2>3
<1>7. ASSUME NEW s, Hide(s) PROVE Numbered'
  <2>1. \/ UNCHANGED <<msgCursor, eventCursor>>
        \/ msgCursor' = Forgotten(msgCursor, {s}) /\ eventCursor' = Forgotten(eventCursor, {s})
    BY <1>7 DEF Hide
  <2>2. \A t \in Session : msgCursor'[t] <= msgCursor[t] /\ eventCursor'[t] <= eventCursor[t]
    BY <1>a, <2>1, ForgottenIs
  <2>3. UNCHANGED <<owner, created, said, told, out, wire>>
    BY <1>7 DEF Hide, serverVars, groupVars, netVars
  <2> QED BY <1>0, <1>a, <2>2, <2>3, RestNumbersToo
<1>8. CASE Store
  <2>1. ASSUME NEW slot \in Slot, Over(slot),
               \/ UNCHANGED <<msgCursor, eventCursor>>
               \/ \E S : msgCursor' = Forgotten(msgCursor, S) /\ eventCursor' = Forgotten(eventCursor, S)
        PROVE  Numbered'
    <3>1. \A t \in Session : msgCursor'[t] <= msgCursor[t] /\ eventCursor'[t] <= eventCursor[t]
      BY <1>a, <2>1, ForgottenIs
    <3>2. UNCHANGED <<owner, created, said, told, out, wire>>
      BY <2>1 DEF Over, serverVars, groupVars, netVars
    <3> QED BY <1>0, <1>a, <3>1, <3>2, RestNumbersToo
  <2>2. ASSUME NEW slot \in Slot, StoreList(slot) PROVE Numbered'
    <3>1. \/ UNCHANGED <<msgCursor, eventCursor>>
          \/ \E S : msgCursor' = Forgotten(msgCursor, S) /\ eventCursor' = Forgotten(eventCursor, S)
      BY <2>2 DEF StoreList
    <3> QED BY <2>1, <2>2, <3>1 DEF StoreList
  <2>3. CASE StoreEvent \/ StoreMessage \/ StoreOpen
    BY <2>1, <2>3, Slots DEF StoreEvent, StoreMessage, StoreOpen, Storing
  <2>4. CASE StoreLeave BY <1>7, <2>1, <2>4, Slots DEF StoreLeave, Storing
  <2> QED BY <1>8, <2>2, <2>3, <2>4 DEF Store
<1>9. CASE UserStep
  <2>1. ASSUME NEW do, NEW s, Begins(do, s) PROVE Numbered' BY <1>1, <2>1 DEF Begins, netVars, groupVars
  <2>2. CASE Restart BY <1>1, <2>2 DEF Restart, serverVars, groupVars
  <2> QED BY <1>7, <1>9, <2>1, <2>2
     DEF UserStep, Start, RefreshList, OpenSession, HideSession, Leave, Asks
<1>10. CASE UNCHANGED vars BY <1>1, <1>10 DEF vars, serverVars, groupVars, netVars, clientVars
<1> QED BY <1>2, <1>3, <1>4, <1>5, <1>6, <1>8, <1>9, <1>10 DEF Next, Inbox

LEMMA FoundedStep ==
  ASSUME Typed, BaseInv, ServerTypes', [Next]_vars PROVE Founded'
<1>0. Founded BY DEF BaseInv
<1>1. ASSUME UNCHANGED <<owner, created, said, told, directs>> PROVE Founded'
  BY <1>0, <1>1 DEF Founded
<1>2. CASE Server
  <2>1. Aside /\ Operation BY <1>2 DEF Server, Aside, Operation, clientVars
  <2> QED BY <2>1, OperationKeeps
<1>3. CASE Net \/ Inbox
  BY <1>1, <1>3 DEF Net, Inbox, Send, Connect, Break, AnswerSync, AskSync, Take, Introduce,
                    serverVars, socialVars, groupVars
<1>4. CASE Http
  <2>1. Serving /\ (UNCHANGED serverVars \/ Operation) BY <1>4, HttpServer
  <2>2. CASE UNCHANGED serverVars BY <1>1, <2>2 DEF serverVars, socialVars, groupVars
  <2>3. CASE Operation
    <3>1. Aside BY <2>1 DEF Serving, Aside
    <3> QED BY <2>3, <3>1, OperationKeeps
  <2> QED BY <2>1, <2>2, <2>3
<1>5. ASSUME NEW s, Hide(s) PROVE Founded'
  BY <1>1, <1>5 DEF Hide, serverVars, socialVars, groupVars
<1>6. CASE Store
  <2>1. ASSUME NEW slot \in Slot, Over(slot) PROVE Founded'
    BY <1>1, <2>1 DEF Over, serverVars, socialVars, groupVars
  <2> QED BY <1>5, <1>6, <2>1, Slots
     DEF Store, StoreList, StoreEvent, StoreMessage, StoreOpen, StoreLeave
<1>7. CASE UserStep
  <2>1. ASSUME NEW do, NEW s, Begins(do, s) PROVE Founded'
    BY <1>1, <2>1 DEF Begins, socialVars, groupVars
  <2>2. CASE Restart BY <1>1, <2>2 DEF Restart, serverVars, socialVars, groupVars
  <2> QED BY <1>5, <1>7, <2>1, <2>2
     DEF UserStep, Start, RefreshList, OpenSession, HideSession, Leave, Asks
<1>8. CASE UNCHANGED vars BY <1>1, <1>8 DEF vars, serverVars, socialVars, groupVars
<1> QED BY <1>2, <1>3, <1>4, <1>6, <1>7, <1>8 DEF Next

\* before it is started, nothing but the server moves
LEMMA UnstartedStep ==
  ASSUME Typed, BaseInv, [Next]_vars PROVE Unstarted'
<1> SUFFICES ASSUME before' PROVE Unstarted' BY DEF Unstarted
<1>0. Unstarted BY DEF BaseInv
<1>1. before
  <2>1. \A s : Hide(s) => before' = before BY DEF Hide
  <2>2. ASSUME NEW do, NEW s, Asks(do, s) PROVE before' = before
    <3>1. UNCHANGED <<before, ops, drift>> BY <2>2, Zenon DEF Asks
    <3> QED BY <3>1, Zenon
  <2> QED BY <2>1, <2>2
     DEF Next, Server, Net, Send, Connect, Break, AnswerSync, Inbox, AskSync, Take, Introduce, Http,
         ServeList, ServeFetch, ServeOpen, ServeLeave, FailHttp, Serving, Store, StoreList, StoreEvent,
         StoreMessage, StoreOpen, StoreLeave, Over, UserStep, Start, RefreshList, OpenSession,
         HideSession, Leave, Restart, vars, clientVars
<1>2. /\ ~started /\ link = "down" /\ wire = <<>> /\ ask = NoAsk
      /\ todo = {} /\ held = {} /\ job = [slot \in Slot |-> NoJob] /\ listed = {}
      /\ \A k \in Kind, s \in Session : Cursor(k, s) = 0
  BY <1>0, <1>1 DEF Unstarted
<1>3. \A slot \in Slot : job[slot].do = "none" /\ job[slot].st = "none" BY <1>2, NoJobIs
<1>4. CASE UNCHANGED <<netVars, clientVars>>
  BY <1>1, <1>2, <1>4 DEF Unstarted, netVars, clientVars, Cursor
<1>5. CASE Server \/ UNCHANGED vars BY <1>4, <1>5 DEF Server, vars
<1>6. ASSUME NEW m \in out, Send(m) PROVE Unstarted' BY <1>2, <1>4, <1>6 DEF Send, netVars
<1>7. CASE Net BY <1>2, <1>6, <1>7 DEF Net, Connect, Break, AnswerSync, NoAsk
<1>8. ~Inbox BY <1>2 DEF Inbox, AskSync, Take
<1>9. ~Http BY <1>3, Slots DEF Http, ServeList, ServeFetch, ServeOpen, ServeLeave, FailHttp
<1>10. ~Store BY <1>3, Slots DEF Store, StoreList, StoreEvent, StoreMessage, StoreOpen, StoreLeave
<1>11. ~UserStep
  BY <1>1, <1>2 DEF UserStep, Start, RefreshList, OpenSession, HideSession, Leave, Restart, Asks, Act
<1> QED BY <1>5, <1>7, <1>8, <1>9, <1>10, <1>11 DEF Next

LEMMA ListStep ==
  ASSUME Typed, ClientTypes', BaseInv, ListInv, [Next]_vars PROVE ListInv' /\ JobShape'
<1>0. JobShape BY DEF BaseInv
<1>1. job' = job => JobShape' BY <1>0 DEF JobShape
<1>2. CASE Server
  <2>1. job' = job BY <1>2 DEF Server, clientVars
  <2> QED BY <1>1, <1>2, <2>1, ServerKeepsList
<1>3. CASE Net \/ AskSync
  <2>1. job' = job BY <1>3 DEF Net, AskSync, Send, Connect, Break, AnswerSync, clientVars
  <2> QED BY <1>1, <1>3, <2>1, NetKeepsList
<1>4. CASE Take BY <1>0, <1>4, TakeKeepsList, TakeKeepsShape
<1>5. ASSUME NEW i \in todo, Introduce(i) PROVE ListInv' /\ JobShape'
  BY <1>0, <1>5, IntroduceKeepsList
<1>6. CASE Http BY <1>6, HttpKeepsList
<1>7. CASE Store BY <1>0, <1>7, StoreKeepsList
<1>8. CASE UserStep BY <1>8, UserKeepsList
<1>9. CASE UNCHANGED vars
  <2>1. Rests BY <1>9, Numbers DEF vars, serverVars, socialVars, groupVars, netVars, clientVars, Rests, Cursor
  <2>2. Keeps /\ Idles BY <1>9, <2>1, RestNews DEF vars, clientVars, Idles
  <2> QED BY <1>1, <2>2, IdleList DEF Idles
<1> QED BY <1>2, <1>3, <1>4, <1>5, <1>6, <1>7, <1>8, <1>9 DEF Next, Inbox

Inv == Typed /\ BaseInv /\ ListInv

LEMMA InvInit == Init => Inv
<1> SUFFICES ASSUME Init PROVE Inv OBVIOUS
<1>1. Typed BY InitInv, TypesInit DEF Typed
<1>2. /\ said = [s \in Session |-> 0] /\ told = [s \in Session |-> 0]
      /\ out = {} /\ wire = <<>> /\ link = "down" /\ ask = NoAsk
      /\ todo = {} /\ job = [slot \in Slot |-> NoJob] /\ held = {} /\ listed = {}
      /\ msgCursor = [s \in Session |-> 0] /\ eventCursor = [s \in Session |-> 0]
      /\ ~started
  BY DEF Init
<1>3. \A slot \in Slot : job[slot] = NoJob BY <1>2
<1>4. DOMAIN wire = {} BY <1>2
<1>5. \A k \in Kind, s \in Session : Cursor(k, s) = 0 /\ Number(k, s) = 0
  BY <1>2 DEF Cursor, Number
<1>6. SyncOrder BY <1>2, <1>4 DEF SyncOrder, AskType, OnWire, NoAsk
<1>7. Numbered BY <1>2, <1>4, <1>5 DEF Numbered
<1>8. Founded
  <2>1. \A g \in Group : owner[g] = None BY DEF Init, GroupsInit
  <2>2. said[Chat] = 0 BY <1>2, Sessions
  <2> QED BY <2>1, <2>2 DEF Founded
<1>9. Unstarted BY <1>2, <1>5 DEF Unstarted
<1>10. JobShape BY <1>3, Slots, NoJobIs DEF JobShape
<1>11. ListInv
  <2>1. GoneLeave BY <1>2 DEF GoneLeave
  <2>2. AnswersLeave /\ ListsCome
    BY <1>3, NoJobIs DEF AnswersLeave, ListsCome, Current, Waits
  <2>3. WantedCome
    <3>1. \A s \in Session : ~Fetchable(s)
      <4>1. ASSUME NEW s \in Session, s # Chat PROVE ~Fetchable(s)
        <5>1. s \in Group BY <4>1, Sessions
        <5>2. members[s] = {} BY <5>1 DEF Init, GroupsInit
        <5> QED BY <4>1, <5>2 DEF Fetchable
      <4>2. ~Fetchable(Chat) BY DEF Fetchable, Init, SocialInit
      <4> QED BY <4>1, <4>2
    <3> QED BY <3>1 DEF WantedCome, Wanted, Listable
  <2> QED BY <2>1, <2>2, <2>3 DEF ListInv
<1> QED BY <1>1, <1>6, <1>7, <1>8, <1>9, <1>10, <1>11 DEF Inv, BaseInv

LEMMA InvStep == Inv /\ [Next]_vars => Inv'
<1> SUFFICES ASSUME Inv, [Next]_vars PROVE Inv' OBVIOUS
<1>1. Typed /\ BaseInv /\ ListInv BY DEF Inv
<1>2. IInv /\ ServerTypes /\ ClientTypes /\ JobInv BY <1>1 DEF Typed, IInv
<1>3. IInv' /\ ServerTypes' /\ ClientTypes' BY <1>2, NextInv, ServerTypesStep, ClientTypesStep
<1>4. Typed' BY <1>3 DEF Typed
<1>5. SyncOrder' /\ Numbered' /\ Founded' /\ Unstarted'
  BY <1>1, <1>3, OrderStep, NumberStep, FoundedStep, UnstartedStep
<1>6. ListInv' /\ JobShape' BY <1>1, <1>3, ListStep
<1> QED BY <1>4, <1>5, <1>6 DEF Inv, BaseInv

LEMMA InvConverges == Inv => Converges
<1> SUFFICES ASSUME Inv, Quiet, drift = "none"
             PROVE  /\ \A s \in listed : Fetchable(s)
                    /\ \A s \in Listable \ listed : Hidden(s, said[s])
  BY DEF Converges
<1>1. /\ link = "bound" /\ wire = <<>> /\ out = {} /\ ~ask.open
      /\ todo = {} /\ held = {} /\ job = [slot \in Slot |-> NoJob]
  BY DEF Quiet
<1>2. DOMAIN wire = {} BY <1>1
<1>3. ~Announced BY <1>1, <1>2 DEF Announced, OnWire
<1>4. job["inbox"].do = "none" BY <1>1, NoJobIs, Slots
<1>5. \A s : ~Purging(s) /\ ~Listing(s) BY <1>4 DEF Purging, Listing, Waits
<1>6. \A s : ~Introducing(s) BY <1>1, <1>4 DEF Introducing, Waits
<1>7. \A k, s : ~Due(k, s) BY <1>1, <1>2 DEF Due, OnWire
<1>8. \A s : ~Coming(s) BY <1>3, <1>5, <1>6, <1>7 DEF Coming, AnyDue
<1>9. GoneLeave /\ WantedCome BY DEF Inv, ListInv
<1>10. \A s \in Listable : s \in Session BY DEF Listable
<1> QED BY <1>3, <1>5, <1>8, <1>9, <1>10 DEF GoneLeave, WantedCome, Leaving, Wanted

(* A client that is connected and has nothing left to do shows what the    *)
(* server shows, but for what drift names and the user has hidden          *)
(* (session_manager.py, refresh_remote_sessions, _ensure_session_exists,   *)
(* remove_session), whatever the numbers of operations, faults and actions *)
(* of the user: GoneLeave and WantedCome say what is on the way until then.*)
THEOREM ListConverges == Spec => []Converges
<1> QED BY InvInit, InvStep, InvConverges, PTL DEF Spec
=============================================================================
