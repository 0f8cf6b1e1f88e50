-------------------------- MODULE TokenStoreProofs --------------------------
(***************************************************************************)
(* Proofs about TokenStore: its types, that requests carry tokens of the   *)
(* current sign-in, that a restart finds whole pairs, and that the disk    *)
(* follows the memory but for the two ways the model records, for any      *)
(* number of sign-ins, refreshes and restarts.                             *)
(*                                                                         *)
(* Three things carry the argument.  A refresh that still counts was begun *)
(* with the tokens in memory (Flights).  Of the foreground and the saver   *)
(* one at most is in the middle of a write, and what the client reads is   *)
(* what that one has put there (Writers).  As long as no refresh ends      *)
(* while the foreground works, the saver rests meanwhile (Followed).       *)
(***************************************************************************)
EXTENDS TokenStore, TLAPS

OpState == {Idle} \cup [st : Writing \cup {"apply", "closing"},
                        kind : {"commit", "restore", "clear"}, tok : Maybe]
SaverState == {Idle} \cup [st : Writing, kind : {"save", "clear"}, tok : Maybe]
Pair == [access : Maybe, refresh : Maybe]

\* what a job writes, and that a refresh under way has room to count
Shapes ==
  /\ op # Idle => IF op.kind = "clear" THEN op.tok = None ELSE op.tok \in Token
  /\ saver # Idle /\ saver.kind = "clear" => saver.tok = None
  /\ \A f \in flight : f.tok.n < MaxRefresh

Types == TypeOK /\ Shapes

\* a refresh that counts presented what is in memory; a restore writes it back
Flights ==
  /\ \A f \in flight : f.current => f.tok = mem /\ mem # None
  /\ op # Idle /\ op.kind = "restore" =>
       phase = "restoring" /\ (mem # None => mem.g = op.tok.g)

MemInv == Flights /\ TokensOfThisLogin

Middle == {"begun", "half", "put"}
Wrote(job) == /\ job.st = "half" => seen.access = job.tok
              /\ job.st = "put" => seen = Both(job.tok)
Writers ==
  /\ op.st \notin Middle \/ saver.st \notin Middle
  /\ Wrote(op) /\ Wrote(saver)
  /\ ~leaked /\ op.st # "half" /\ saver.st # "half" => seen.access = seen.refresh

DiskInv == Writers /\ KeptIsWhole

\* what the foreground has written when it is through
Through ==
  op.st \in {"apply", "closing"} =>
    seen = Both(op.tok) /\ (~leaked => kept = Both(op.tok))
Followed ==
  /\ phase = "start" => /\ op = Idle /\ saver = Idle /\ mem = None
                        /\ seen = kept
  /\ phase \in {"out", "aside"} => mem = None
  /\ phase = "in" => login # None
  /\ phase \in {"start", "restoring"} => login = None
  /\ phase = "restoring" /\ mem # None /\ op = Idle => saver = Idle
  /\ op # Idle /\ ~crossed => saver = Idle /\ Through
  /\ op # Idle /\ ~crossed /\ (op.kind = "restore" \/ op.st = "closing") => op.tok = mem
  /\ op = Idle /\ saver # Idle /\ phase \in {"in", "out"} /\ ~crossed => saver.tok = mem

IInv == Types /\ MemInv /\ DiskInv /\ Followed /\ DiskFollowsMemory

-----------------------------------------------------------------------------
(* Types.                                                                  *)

LEMMA PutIsTyped ==
  ASSUME Types, NEW job \in (OpState \cup SaverState) \ {Idle}
  PROVE  Put(job) \in Pair
<1>1. job.tok \in Maybe BY DEF OpState, SaverState
<1>2. seen \in Pair BY DEF Types, TypeOK, Pair
<1> QED BY <1>1, <1>2 DEF Put, Pair, Both, Maybe

\* what cancelling the saver does to the disk
LEMMA CancelIsTyped ==
  ASSUME Types, Cancel
  PROVE  seen' \in Pair /\ kept' \in Pair /\ leaked' \in BOOLEAN
<1>1. seen \in Pair /\ kept \in Pair /\ leaked \in BOOLEAN /\ saver \in SaverState
  BY DEF Types, TypeOK, Pair, SaverState
<1>2. saver.st \notin {"idle", "waiting"} => Put(saver) \in Pair
  BY <1>1, PutIsTyped DEF Idle
<1> QED BY <1>1, <1>2 DEF Cancel, CancelWriting, Release, diskVars

LEMMA TypesStep ==
  ASSUME Types, Next PROVE Types'
<1> USE GrantBounds
<1>0. /\ phase \in {"start", "restoring", "in", "out", "aside"} /\ mem \in Maybe
      /\ flight \subseteq [tok : Token, current : BOOLEAN]
      /\ op \in OpState /\ saver \in SaverState /\ seen \in Pair /\ kept \in Pair
      /\ leaked \in BOOLEAN /\ grants \in 0..MaxGrant /\ restarts \in 0..MaxRestart
      /\ login \in Grant \cup {None} /\ crossed \in BOOLEAN
  BY DEF Types, TypeOK, OpState, SaverState, Pair
<1> DEFINE Fine ==
      /\ phase' \in {"start", "restoring", "in", "out", "aside"} /\ mem' \in Maybe
      /\ flight' \subseteq [tok : Token, current : BOOLEAN]
      /\ op' \in OpState /\ saver' \in SaverState /\ seen' \in Pair /\ kept' \in Pair
      /\ leaked' \in BOOLEAN /\ grants' \in 0..MaxGrant /\ restarts' \in 0..MaxRestart
      /\ login' \in Grant \cup {None} /\ crossed' \in BOOLEAN
      /\ Shapes'
<1> SUFFICES Fine BY DEF Types, TypeOK, OpState, SaverState, Pair
<1>a. /\ op # Idle => IF op.kind = "clear" THEN op.tok = None ELSE op.tok \in Token
      /\ saver # Idle /\ saver.kind = "clear" => saver.tok = None
      /\ \A f \in flight : f.tok.n < MaxRefresh
  BY DEF Types, Shapes
<1>b. ASSUME NEW kind \in {"commit", "restore"}, NEW t \in Token
      PROVE  Job(kind, t) \in OpState /\ Job(kind, t).kind = kind /\ Job(kind, t).tok = t
  BY DEF Job, OpState, Writing, Maybe
<1>c. /\ Job("clear", None) \in OpState \cap SaverState
      /\ Job("clear", None).kind = "clear" /\ Job("clear", None).tok = None
      /\ \A t \in Token : Job("save", t) \in SaverState /\ Job("save", t).kind = "save"
      /\ Idle \in OpState /\ Idle \in SaverState
  BY DEF Job, OpState, SaverState, Writing, Maybe
<1>d. \A F \in SUBSET flight : LET G == {[g EXCEPT !.current = FALSE] : g \in F}
        IN G \subseteq [tok : Token, current : BOOLEAN] /\ \A g \in G : g.tok.n < MaxRefresh
  <2> SUFFICES ASSUME NEW g \in flight
               PROVE  /\ [g EXCEPT !.current = FALSE] \in [tok : Token, current : BOOLEAN]
                      /\ [g EXCEPT !.current = FALSE].tok.n < MaxRefresh
    OBVIOUS
  <2>1. g \in [tok : Token, current : BOOLEAN] /\ g.tok.n < MaxRefresh BY <1>0, <1>a
  <2> QED BY <2>1
<1>e. ASSUME NEW f \in flight
      PROVE  [f.tok EXCEPT !.n = @ + 1] \in Token
  <2>1. f.tok \in Token /\ f.tok.n < MaxRefresh BY <1>0, <1>a
  <2> QED BY <2>1 DEF Token
<1>f. Cancel => seen' \in Pair /\ kept' \in Pair /\ leaked' \in BOOLEAN
  BY CancelIsTyped
<1>1. CASE SaverStep
  <2>1. saver # Idle BY <1>1 DEF SaverStep, Idle
  <2>2. Put(saver) \in Pair BY <1>0, <2>1, PutIsTyped
  <2>3. saver' \in SaverState /\ (saver' # Idle => saver'.kind = saver.kind /\ saver'.tok = saver.tok)
    BY <1>0, <1>1, <2>1 DEF SaverStep, SaverState, NextSt, Writing
  <2> QED BY <1>0, <1>1, <1>a, <2>1, <2>2, <2>3
      DEF SaverStep, Release, diskVars, memVars, countVars, historyVars, Shapes
<1>2. CASE OpWrites
  <2>1. op # Idle BY <1>2 DEF OpWrites, Idle
  <2>2. Put(op) \in Pair BY <1>0, <2>1, PutIsTyped
  <2>3. op' \in OpState /\ op'.kind = op.kind /\ op'.tok = op.tok
    BY <1>0, <1>2, <2>1 DEF OpWrites, OpState, NextSt, Writing
  <2> QED BY <1>0, <1>2, <1>a, <2>1, <2>2, <2>3
      DEF OpWrites, Release, diskVars, memVars, countVars, historyVars, Shapes
<1>3. CASE RefreshBegin
  <2>1. mem \in Token /\ mem.n < MaxRefresh BY <1>0, <1>3 DEF RefreshBegin, Maybe
  <2>2. /\ flight' = flight \cup {[tok |-> mem, current |-> TRUE]}
        /\ UNCHANGED <<phase, mem, op, saver, seen, kept, leaked, grants, restarts, login, crossed>>
    BY <1>3 DEF RefreshBegin, diskVars, countVars, historyVars
  <2>3. ASSUME NEW g \in flight'
        PROVE  g \in [tok : Token, current : BOOLEAN] /\ g.tok.n < MaxRefresh
    <3>1. CASE g \in flight BY <1>0, <1>a, <3>1
    <3>2. CASE g = [tok |-> mem, current |-> TRUE] BY <2>1, <3>2
    <3> QED BY <2>2, <3>1, <3>2
  <2> QED BY <1>0, <1>a, <2>2, <2>3 DEF Shapes
<1>4. ASSUME NEW f \in flight, Refreshed(f) \/ RefreshRefused(f) \/ RefreshIgnored(f)
      PROVE  Fine
  <2>1. flight' \subseteq [tok : Token, current : BOOLEAN] /\ \A g \in flight' : g.tok.n < MaxRefresh
    <3>1. CASE RefreshIgnored(f) BY <1>0, <1>a, <3>1 DEF RefreshIgnored
    <3>2. CASE ~RefreshIgnored(f)
      <4>1. flight' = {[g EXCEPT !.current = FALSE] : g \in flight \ {f}}
        BY <1>4, <3>2 DEF Refreshed, RefreshRefused
      <4> QED BY <1>d, <4>1
    <3> QED BY <3>1, <3>2
  <2>2. CASE Refreshed(f)
    <3> DEFINE t == [f.tok EXCEPT !.n = @ + 1]
    <3>1. t \in Token /\ t \in Maybe /\ mem' = t BY <1>e, <2>2 DEF Refreshed, Maybe
    <3>2. CASE login # None
      <4>1. /\ Cancel /\ saver' = Job("save", t)
            /\ UNCHANGED <<phase, op, grants, restarts, login>>
            /\ crossed' = (crossed \/ op # Idle)
        BY <2>2, <3>2 DEF Refreshed, Follow, countVars
      <4> HIDE DEF t
      <4>2. saver' \in SaverState /\ saver'.kind = "save" BY <1>c, <3>1, <4>1
      <4> QED BY <1>0, <1>a, <1>f, <2>1, <3>1, <4>1, <4>2 DEF Shapes
    <3>3. CASE login = None
      <4>1. /\ UNCHANGED <<phase, op, saver, seen, kept, leaked, grants, restarts, login>>
            /\ crossed' = (crossed \/ op # Idle)
        BY <2>2, <3>3 DEF Refreshed, countVars, diskVars
      <4> HIDE DEF t
      <4> QED BY <1>0, <1>a, <2>1, <3>1, <4>1 DEF Shapes
    <3> QED BY <3>2, <3>3
  <2>3. CASE RefreshRefused(f)
    BY <1>0, <1>a, <1>c, <1>f, <2>1, <2>3
    DEF RefreshRefused, Follow, countVars, Maybe, Shapes
  <2>4. CASE RefreshIgnored(f)
    BY <1>0, <1>a, <2>1, <2>4 DEF RefreshIgnored, diskVars, countVars, historyVars, Shapes
  <2> QED BY <1>4, <2>2, <2>3, <2>4
<1>5. CASE CommitBegin
  <2>1. [g |-> grants + 1, n |-> 0] \in Token /\ grants' \in 0..MaxGrant
    BY <1>0, <1>5 DEF CommitBegin, Token, Grant
  <2> QED BY <1>0, <1>5, <1>a, <1>b, <1>c, <1>f, <2>1
      DEF CommitBegin, Foreground, memVars, Shapes
<1>g. ASSUME NEW t \in Maybe, SetTokens(t)
      PROVE  /\ mem' \in Maybe /\ flight' \subseteq [tok : Token, current : BOOLEAN]
             /\ \A g \in flight' : g.tok.n < MaxRefresh
  BY <1>d, <1>g DEF SetTokens, Stale
<1>6. CASE CommitEnd \/ RestoreEnd
  <2>1. op # Idle /\ op.kind # "clear" /\ op.tok \in Token
    BY <1>6, <1>a DEF CommitEnd, RestoreEnd, Idle
  <2>2. op.tok.g \in Grant /\ op.tok \in Maybe BY <2>1 DEF Token, Maybe
  <2>3. CASE CommitEnd
    BY <1>0, <1>a, <1>c, <1>g, <2>2, <2>3 DEF CommitEnd, diskVars, countVars, Shapes
  <2>4. CASE RestoreEnd
    BY <1>0, <1>a, <1>c, <2>2, <2>4 DEF RestoreEnd, diskVars, countVars, Shapes
  <2> QED BY <1>6, <2>3, <2>4
<1>7. CASE ClearBegin \/ RestoreRefused
  BY <1>0, <1>7, <1>a, <1>c, <1>f
  DEF ClearBegin, RestoreRefused, Foreground, memVars, countVars, Shapes
<1>8. CASE ClearMemory
  <2>1. op # Idle /\ op.kind = "clear" BY <1>8 DEF ClearMemory, Idle
  <2>2. op' \in OpState /\ op'.kind = "clear" /\ op'.tok = op.tok
    BY <1>0, <1>8, <2>1 DEF ClearMemory, OpState
  <2>3. None \in Maybe BY DEF Maybe
  <2> QED BY <1>0, <1>8, <1>a, <1>g, <2>1, <2>2, <2>3
      DEF ClearMemory, diskVars, countVars, Shapes
<1>9. CASE ClearEnd
  BY <1>0, <1>9, <1>a, <1>c, <1>f DEF ClearEnd, memVars, countVars, historyVars, Shapes
<1>10. CASE RestoreBegin
  <2>1. seen.refresh \in Maybe BY <1>0 DEF Pair
  <2>2. CASE None \in {seen.access, seen.refresh}
    BY <1>0, <1>10, <1>a, <1>c, <1>f, <2>2
    DEF RestoreBegin, Foreground, diskVars, countVars, Shapes
  <2>3. CASE None \notin {seen.access, seen.refresh}
    <3>1. /\ phase' = "restoring" /\ SetTokens(seen.refresh) /\ Cancel /\ saver' = Idle
          /\ UNCHANGED <<op, crossed, grants, restarts, login>>
      BY <1>10, <2>3 DEF RestoreBegin, countVars
    <3> QED BY <1>0, <1>a, <1>c, <1>f, <1>g, <2>1, <3>1 DEF Shapes
  <2> QED BY <2>2, <2>3
<1>11. CASE RestoreAccepted
  <2>1. mem \in Token BY <1>0, <1>11 DEF RestoreAccepted, Maybe
  <2> QED BY <1>0, <1>11, <1>a, <1>b, <2>1
      DEF RestoreAccepted, memVars, diskVars, countVars, Shapes
<1>12. CASE RestoreOffline
  <2>1. None \in Maybe BY DEF Maybe
  <2> QED BY <1>0, <1>12, <1>a, <1>g, <2>1
      DEF RestoreOffline, diskVars, countVars, historyVars, Shapes
<1>13. CASE Restart
  <2>1. None \in Maybe BY DEF Maybe
  <2>2. restarts' \in 0..MaxRestart BY <1>0, <1>13 DEF Restart
  <2>3. /\ phase' = "start" /\ mem' = None /\ flight' = {} /\ op' = Idle /\ saver' = Idle
        /\ seen' = kept /\ leaked' = FALSE /\ login' = None /\ crossed' = FALSE
        /\ UNCHANGED <<kept, grants>>
    BY <1>13 DEF Restart
  <2> QED BY <1>0, <1>c, <2>1, <2>2, <2>3 DEF Shapes
<1> QED BY <1>1, <1>2, <1>3, <1>4, <1>5, <1>6, <1>7, <1>8, <1>9, <1>10, <1>11, <1>12, <1>13
        DEF Next

-----------------------------------------------------------------------------
(* Tokens in memory.                                                       *)

\* new tokens, and no refresh counts any more
LEMMA MemStep ==
  ASSUME Types, MemInv, Next PROVE MemInv'
<1>0. /\ mem \in Maybe /\ flight \subseteq [tok : Token, current : BOOLEAN]
      /\ op \in OpState
  BY DEF Types, TypeOK, OpState
<1>a. /\ \A f \in flight : f.current => f.tok = mem /\ mem # None
      /\ op # Idle /\ op.kind = "restore" =>
           phase = "restoring" /\ (mem # None => mem.g = op.tok.g)
      /\ mem # None /\ phase # "restoring" => mem.g = login
  BY DEF MemInv, Flights, TokensOfThisLogin
\* what counts, and the rest, when the memory stays
<1>b. ASSUME UNCHANGED mem, \A f \in flight' : f.current => f.tok = mem /\ mem # None,
             UNCHANGED <<phase, login>>,
             op' # Idle /\ op'.kind = "restore" =>
               (op # Idle /\ op.kind = "restore" /\ op'.tok = op.tok)
               \/ (phase = "restoring" /\ op'.tok = mem)
      PROVE  MemInv'
  BY <1>a, <1>b DEF MemInv, Flights, TokensOfThisLogin
<1>c. \A F \in SUBSET flight : \A g \in {[h EXCEPT !.current = FALSE] : h \in F} : ~g.current
  <2> SUFFICES ASSUME NEW h \in flight PROVE ~[h EXCEPT !.current = FALSE].current
    OBVIOUS
  <2>1. h \in [tok : Token, current : BOOLEAN] BY <1>0
  <2> QED BY <2>1
<1>d. ASSUME NEW t, SetTokens(t) PROVE mem' = t /\ \A g \in flight' : ~g.current
  BY <1>c, <1>d DEF SetTokens, Stale
<1>e. \A t : Job("commit", t).kind # "restore" /\ Job("clear", t).kind # "restore"
             /\ Job("restore", t).tok = t
  BY DEF Job
<1>1. CASE SaverStep
  BY <1>1, <1>a, <1>b DEF SaverStep, memVars, historyVars
<1>2. CASE OpWrites
  <2>1. op # Idle BY <1>2 DEF OpWrites, Idle
  <2>2. op'.kind = op.kind /\ op'.tok = op.tok
    BY <1>0, <1>2, <2>1 DEF OpWrites, OpState
  <2> QED BY <1>2, <1>a, <1>b, <2>1, <2>2 DEF OpWrites, memVars, historyVars
<1>3. CASE RefreshBegin
  BY <1>3, <1>a, <1>b DEF RefreshBegin, historyVars
<1>4. ASSUME NEW f \in flight, RefreshIgnored(f) PROVE MemInv'
  BY <1>4, <1>a, <1>b DEF RefreshIgnored, historyVars
<1>5. ASSUME NEW f \in flight, Refreshed(f) PROVE MemInv'
  <2>1. \A g \in flight' : ~g.current BY <1>5, <1>c DEF Refreshed
  <2>2. f.tok = mem /\ mem # None /\ mem \in Token
    BY <1>0, <1>5, <1>a DEF Refreshed, Maybe
  <2>3. mem'.g = mem.g BY <1>5, <2>2 DEF Refreshed, Token
  <2>4. UNCHANGED <<phase, login, op>> BY <1>5 DEF Refreshed, Follow
  <2> QED BY <1>a, <2>1, <2>2, <2>3, <2>4 DEF MemInv, Flights, TokensOfThisLogin
<1>6. ASSUME NEW f \in flight, RefreshRefused(f) PROVE MemInv'
  <2>1. \A g \in flight' : ~g.current BY <1>6, <1>c DEF RefreshRefused
  <2> QED BY <1>6, <1>a, <2>1
      DEF RefreshRefused, Follow, MemInv, Flights, TokensOfThisLogin
<1>7. CASE CommitBegin \/ ClearBegin \/ RestoreRefused
  BY <1>7, <1>a, <1>b, <1>e DEF CommitBegin, ClearBegin, RestoreRefused, Foreground, memVars
<1>8. CASE CommitEnd
  <2>1. mem' = op.tok /\ \A g \in flight' : ~g.current BY <1>8, <1>d DEF CommitEnd
  <2> QED BY <1>8, <2>1 DEF CommitEnd, MemInv, Flights, TokensOfThisLogin
<1>9. CASE ClearMemory
  <2>1. mem' = None /\ \A g \in flight' : ~g.current BY <1>9, <1>d DEF ClearMemory
  <2>2. op # Idle BY <1>9 DEF ClearMemory, Idle
  <2>3. op'.kind = "clear" BY <1>0, <1>9, <2>2 DEF ClearMemory, OpState
  <2> QED BY <2>1, <2>3 DEF MemInv, Flights, TokensOfThisLogin
<1>10. CASE ClearEnd
  BY <1>10, <1>a, <1>b DEF ClearEnd, memVars, historyVars
<1>11. CASE RestoreBegin
  <2>1. CASE None \in {seen.access, seen.refresh}
    <3>1. /\ UNCHANGED <<mem, flight, login>> /\ phase = "start" /\ phase' = "out"
          /\ op' # Idle => op'.kind # "restore"
      BY <1>11, <1>e, <2>1 DEF RestoreBegin, Foreground
    <3> QED BY <1>a, <3>1 DEF MemInv, Flights, TokensOfThisLogin
  <2>2. CASE None \notin {seen.access, seen.refresh}
    <3>1. /\ phase' = "restoring" /\ op' = Idle /\ \A g \in flight' : ~g.current
      BY <1>11, <1>d, <2>2 DEF RestoreBegin
    <3> QED BY <3>1 DEF MemInv, Flights, TokensOfThisLogin
  <2> QED BY <2>1, <2>2
<1>12. CASE RestoreAccepted
  BY <1>12, <1>a, <1>b, <1>e DEF RestoreAccepted, memVars
<1>13. CASE RestoreEnd
  <2>1. op # Idle /\ op.kind = "restore" BY <1>13 DEF RestoreEnd, Idle
  <2> QED BY <1>13, <1>a, <2>1 DEF RestoreEnd, MemInv, Flights, TokensOfThisLogin
<1>14. CASE RestoreOffline
  <2>1. mem' = None /\ \A g \in flight' : ~g.current BY <1>14, <1>d DEF RestoreOffline
  <2> QED BY <1>14, <2>1 DEF RestoreOffline, MemInv, Flights, TokensOfThisLogin
<1>15. CASE Restart
  BY <1>15 DEF Restart, MemInv, Flights, TokensOfThisLogin
<1> QED BY <1>1, <1>2, <1>3, <1>4, <1>5, <1>6, <1>7, <1>8, <1>9, <1>10, <1>11, <1>12,
           <1>13, <1>14, <1>15
        DEF Next

-----------------------------------------------------------------------------
(* The disk.                                                               *)

LEMMA CancelKeeps ==
  ASSUME Types, DiskInv, Cancel, saver'.st \notin Middle,
         op' = op \/ (op.st \notin Middle /\ op'.st \notin Middle)
  PROVE  DiskInv'
<1>0. seen \in Pair /\ kept \in Pair /\ saver \in SaverState /\ leaked \in BOOLEAN
  BY DEF Types, TypeOK, Pair, SaverState
<1>1. CASE saver.st \in {"idle", "waiting"}
  <2>1. UNCHANGED <<seen, kept, leaked>> BY <1>1 DEF Cancel, diskVars
  <2> QED BY <1>1, <2>1 DEF DiskInv, Writers, Wrote, KeptIsWhole, Middle
<1>2. CASE saver.st \in Middle
  <2>1. op.st \notin Middle /\ op'.st \notin Middle BY <1>2 DEF DiskInv, Writers
  <2>2. CancelWriting BY <1>2 DEF Cancel, Middle
  <2>3. CASE saver.st \in {"begun", "half"}
    <3>1. leaked' /\ UNCHANGED kept BY <2>2, <2>3 DEF CancelWriting
    <3> QED BY <2>1, <3>1 DEF DiskInv, Writers, Wrote, KeptIsWhole, Middle
  <2>4. CASE saver.st = "put"
    <3>1. seen = Both(saver.tok) BY <2>4 DEF DiskInv, Writers, Wrote
    <3>2. UNCHANGED seen /\ (kept' = kept \/ kept' = seen) BY <2>2, <2>4 DEF CancelWriting, Release
    <3> QED BY <2>1, <3>1, <3>2 DEF DiskInv, Writers, Wrote, KeptIsWhole, Middle, Both
  <2> QED BY <1>2, <2>3, <2>4 DEF Middle
<1>3. saver.st \in {"idle", "waiting"} \cup Middle
  BY <1>0 DEF SaverState, Writing, Middle, Idle
<1> QED BY <1>1, <1>2, <1>3

\* one statement of the job that is in the middle
LEMMA PutKeeps ==
  ASSUME Types, NEW job \in (OpState \cup SaverState) \ {Idle}, Wrote(job),
         job.kind = "clear" => job.tok = None,
         NEW next, next.tok = job.tok, job.st \in {"begun", "half"},
         next.st = NextSt(job), seen' = Put(job)
  PROVE  /\ next.st \in {"half", "put"}
         /\ next.st = "half" => seen'.access = next.tok
         /\ next.st = "put" => seen' = Both(next.tok)
<1>0. seen \in Pair BY DEF Types, TypeOK, Pair
<1>1. CASE job.kind = "clear" BY <1>1 DEF NextSt, Put
<1>2. CASE job.kind # "clear" /\ job.st = "begun" BY <1>0, <1>2 DEF NextSt, Put, Pair
<1>3. CASE job.kind # "clear" /\ job.st = "half" BY <1>0, <1>3 DEF NextSt, Put, Pair, Both, Wrote
<1> QED BY <1>1, <1>2, <1>3

LEMMA DiskStep ==
  ASSUME Types, DiskInv, Next PROVE DiskInv'
<1>0. seen \in Pair /\ kept \in Pair /\ saver \in SaverState /\ op \in OpState
  BY DEF Types, TypeOK, Pair, SaverState, OpState
<1>a. /\ op # Idle /\ op.kind = "clear" => op.tok = None
      /\ saver # Idle /\ saver.kind = "clear" => saver.tok = None
  BY DEF Types, Shapes
<1>b. ASSUME UNCHANGED <<seen, kept, leaked, saver>>, op' = op \/ op'.st \notin Middle,
             op.st = "half" => op' = op
      PROVE  DiskInv'
  BY <1>b DEF DiskInv, Writers, Wrote, KeptIsWhole, Middle
<1>c. Idle.st \notin Middle /\ \A k, t : Job(k, t).st \notin Middle
  BY DEF Idle, Job, Middle
<1>1. CASE SaverStep
  <2>0. UNCHANGED op /\ saver # Idle BY <1>1 DEF SaverStep, Idle
  <2>1. CASE saver.st = "waiting"
    <3>1. saver'.st = "begun" BY <1>0, <1>1, <2>0, <2>1 DEF SaverStep, SaverState
    <3>2. UNCHANGED <<seen, kept, leaked>> /\ op.st \notin Middle
      BY <1>1, <2>1 DEF SaverStep, Unlocked, Middle, diskVars
    <3> QED BY <2>0, <2>1, <3>1, <3>2 DEF DiskInv, Writers, Wrote, KeptIsWhole, Middle
  <2>2. CASE saver.st \in {"begun", "half"}
    <3>1. saver'.tok = saver.tok /\ saver'.st = NextSt(saver)
      BY <1>0, <1>1, <2>0, <2>2 DEF SaverStep, SaverState
    <3>2. seen' = Put(saver) /\ UNCHANGED <<kept, leaked>> BY <1>1, <2>2 DEF SaverStep
    <3>3. op.st \notin Middle /\ Wrote(saver) BY <2>2 DEF DiskInv, Writers, Middle
    <3>4. /\ saver'.st \in {"half", "put"}
          /\ saver'.st = "half" => seen'.access = saver'.tok
          /\ saver'.st = "put" => seen' = Both(saver'.tok)
      BY <1>0, <1>a, <2>0, <2>2, <3>1, <3>2, <3>3, PutKeeps
    <3> QED BY <2>0, <3>2, <3>3, <3>4 DEF DiskInv, Writers, Wrote, KeptIsWhole, Middle, Both
  <2>3. CASE saver.st = "put"
    <3>1. UNCHANGED <<seen, leaked>> /\ saver' = Idle /\ (kept' = kept \/ kept' = seen)
      BY <1>1, <2>3 DEF SaverStep, Release
    <3>2. op.st \notin Middle /\ seen = Both(saver.tok)
      BY <2>3 DEF DiskInv, Writers, Wrote, Middle
    <3> QED BY <1>c, <2>0, <3>1, <3>2 DEF DiskInv, Writers, Wrote, KeptIsWhole, Middle, Both
  <2> QED BY <1>1, <2>1, <2>2, <2>3 DEF SaverStep
<1>2. CASE OpWrites
  <2>0. UNCHANGED saver /\ op # Idle BY <1>2 DEF OpWrites, Idle
  <2>1. CASE op.st = "waiting"
    <3>1. op'.st = "begun" BY <1>0, <1>2, <2>0, <2>1 DEF OpWrites, OpState
    <3>2. UNCHANGED <<seen, kept, leaked>> /\ saver.st \notin Middle
      BY <1>2, <2>1 DEF OpWrites, Unlocked, Middle, diskVars
    <3> QED BY <2>0, <2>1, <3>1, <3>2 DEF DiskInv, Writers, Wrote, KeptIsWhole, Middle
  <2>2. CASE op.st \in {"begun", "half"}
    <3>1. op'.tok = op.tok /\ op'.st = NextSt(op)
      BY <1>0, <1>2, <2>0, <2>2 DEF OpWrites, OpState
    <3>2. seen' = Put(op) /\ UNCHANGED <<kept, leaked>> BY <1>2, <2>2 DEF OpWrites
    <3>3. saver.st \notin Middle /\ Wrote(op) BY <2>2 DEF DiskInv, Writers, Middle
    <3>4. /\ op'.st \in {"half", "put"}
          /\ op'.st = "half" => seen'.access = op'.tok
          /\ op'.st = "put" => seen' = Both(op'.tok)
      BY <1>0, <1>a, <2>0, <2>2, <3>1, <3>2, <3>3, PutKeeps
    <3> QED BY <2>0, <3>2, <3>3, <3>4 DEF DiskInv, Writers, Wrote, KeptIsWhole, Middle, Both
  <2>3. CASE op.st = "put"
    <3>1. UNCHANGED <<seen, leaked>> /\ (kept' = kept \/ kept' = seen)
      BY <1>2, <2>3 DEF OpWrites, Release
    <3>2. op'.st = "apply" BY <1>0, <1>2, <2>0, <2>3 DEF OpWrites, OpState
    <3>3. saver.st \notin Middle /\ seen = Both(op.tok)
      BY <2>3 DEF DiskInv, Writers, Wrote, Middle
    <3> QED BY <2>0, <3>1, <3>2, <3>3 DEF DiskInv, Writers, Wrote, KeptIsWhole, Middle, Both
  <2> QED BY <1>2, <2>1, <2>2, <2>3 DEF OpWrites
<1>3. CASE RefreshBegin \/ \E f \in flight : RefreshIgnored(f)
  BY <1>3, <1>b DEF RefreshBegin, RefreshIgnored, diskVars
<1>4. ASSUME NEW f \in flight, Refreshed(f) PROVE DiskInv'
  <2>1. CASE login # None
    <3>1. Cancel /\ op' = op /\ saver'.st \notin Middle
      BY <1>4, <1>c, <2>1 DEF Refreshed, Follow
    <3> QED BY <3>1, CancelKeeps
  <2>2. CASE login = None BY <1>4, <1>b, <2>2 DEF Refreshed, diskVars
  <2> QED BY <2>1, <2>2
<1>5. ASSUME NEW f \in flight, RefreshRefused(f) PROVE DiskInv'
  <2>1. Cancel /\ op' = op /\ saver'.st \notin Middle
    BY <1>5, <1>c DEF RefreshRefused, Follow
  <2> QED BY <2>1, CancelKeeps
<1>6. CASE CommitBegin \/ ClearBegin \/ RestoreRefused \/ ClearEnd
  <2>1. Cancel /\ op.st \notin Middle /\ op'.st \notin Middle /\ saver'.st \notin Middle
    BY <1>6, <1>c DEF CommitBegin, ClearBegin, RestoreRefused, Foreground, ClearEnd, Middle
  <2> QED BY <2>1, CancelKeeps
<1>7. CASE CommitEnd \/ RestoreEnd \/ RestoreAccepted
  <2>1. op.st # "half"
    BY <1>7 DEF CommitEnd, RestoreEnd, RestoreAccepted, Idle
  <2> QED BY <1>7, <1>b, <1>c, <2>1 DEF CommitEnd, RestoreEnd, RestoreAccepted, diskVars
<1>8. CASE ClearMemory
  <2>1. op.st = "apply" /\ op # Idle BY <1>8 DEF ClearMemory, Idle
  <2>2. op'.st \notin Middle BY <1>0, <1>8, <2>1 DEF ClearMemory, OpState, Middle
  <2> QED BY <1>8, <1>b, <2>1, <2>2 DEF ClearMemory, diskVars
<1>9. CASE RestoreBegin
  <2>1. \/ UNCHANGED <<op, saver, seen, kept, leaked>>
        \/ /\ Cancel /\ saver'.st \notin Middle
           /\ op' = op \/ (op.st \notin Middle /\ op'.st \notin Middle)
    BY <1>9, <1>c DEF RestoreBegin, Foreground, diskVars
  <2> QED BY <1>b, <2>1, CancelKeeps
<1>10. CASE RestoreOffline
  BY <1>10, <1>b DEF RestoreOffline, diskVars
<1>11. CASE Restart
  <2>1. op' = Idle /\ saver' = Idle /\ seen' = kept /\ kept' = kept BY <1>11 DEF Restart
  <2> QED BY <2>1 DEF DiskInv, Writers, Wrote, KeptIsWhole, Middle, Idle
<1> QED BY <1>1, <1>2, <1>3, <1>4, <1>5, <1>6, <1>7, <1>8, <1>9, <1>10, <1>11 DEF Next

-----------------------------------------------------------------------------
(* The disk follows the memory.                                            *)

LEMMA FollowStep ==
  ASSUME Types, MemInv, DiskInv, Followed, DiskFollowsMemory, Next
  PROVE  Followed' /\ DiskFollowsMemory'
<1> USE GrantBounds
<1> DEFINE Fine == Followed' /\ DiskFollowsMemory'
<1>0. /\ mem \in Maybe /\ saver \in SaverState /\ op \in OpState
      /\ phase \in {"start", "restoring", "in", "out", "aside"}
      /\ flight \subseteq [tok : Token, current : BOOLEAN] /\ crossed \in BOOLEAN
  BY DEF Types, TypeOK, SaverState, OpState
<1>a. /\ op # Idle => IF op.kind = "clear" THEN op.tok = None ELSE op.tok \in Token
      /\ saver # Idle /\ saver.kind = "clear" => saver.tok = None
  BY DEF Types, Shapes
<1>b. \A f \in flight : f.current => f.tok = mem /\ mem # None
  BY DEF MemInv, Flights
<1>c. \A t \in Token : t.g # None BY DEF Token, Grant
<1>d. /\ \A k, t : Job(k, t) # Idle /\ Job(k, t).st = "waiting"
                   /\ Job(k, t).kind = k /\ Job(k, t).tok = t
      /\ Idle.st = "idle"
  BY DEF Job, Idle
<1>1. CASE SaverStep
  <2>0. /\ UNCHANGED <<phase, mem, flight, op, login, crossed>> /\ saver # Idle
        /\ UNCHANGED <<seen, kept>> \/ phase # "start"
    BY <1>1 DEF SaverStep, Idle, memVars, historyVars, Followed
  <2>1. CASE saver.st # "put"
    <3>1. saver' # Idle /\ saver'.tok = saver.tok
      BY <1>0, <1>1, <2>0, <2>1 DEF SaverStep, SaverState, NextSt, Idle
    <3> QED BY <2>0, <3>1 DEF Followed, DiskFollowsMemory, Through
  <2>2. CASE saver.st = "put"
    <3>1. seen = Both(saver.tok) BY <2>2 DEF DiskInv, Writers, Wrote
    <3>2. /\ UNCHANGED <<seen, leaked>> /\ saver' = Idle
          /\ ~leaked => kept' = seen
      BY <1>1, <2>2 DEF SaverStep, Release
    <3> QED BY <2>0, <3>1, <3>2 DEF Followed, DiskFollowsMemory, Through
  <2> QED BY <2>1, <2>2
<1>2. CASE OpWrites
  <2>0. /\ UNCHANGED <<phase, mem, flight, saver, login, crossed>> /\ op # Idle
        /\ phase # "start"
    BY <1>2 DEF OpWrites, Idle, memVars, historyVars, Followed
  <2>1. op' # Idle /\ op'.tok = op.tok /\ op'.kind = op.kind /\ op'.st # "closing"
    BY <1>0, <1>2, <2>0 DEF OpWrites, OpState, NextSt, Idle
  <2>2. CASE op.st # "put"
    <3>1. op'.st # "apply"
      BY <1>0, <1>2, <2>0, <2>2 DEF OpWrites, OpState, NextSt
    <3> QED BY <2>0, <2>1, <3>1 DEF Followed, DiskFollowsMemory, Through
  <2>3. CASE op.st = "put"
    <3>1. seen = Both(op.tok) BY <2>3 DEF DiskInv, Writers, Wrote
    <3>2. UNCHANGED <<seen, leaked>> /\ (~leaked => kept' = seen)
      BY <1>2, <2>3 DEF OpWrites, Release
    <3> QED BY <2>0, <2>1, <3>1, <3>2 DEF Followed, DiskFollowsMemory, Through
  <2> QED BY <2>2, <2>3
<1>3. CASE RefreshBegin \/ \E f \in flight : RefreshIgnored(f)
  <2>1. UNCHANGED <<phase, mem, op, saver, seen, kept, leaked, login, crossed>>
    BY <1>3 DEF RefreshBegin, RefreshIgnored, diskVars, historyVars
  <2> QED BY <2>1 DEF Followed, DiskFollowsMemory, Through
\* a refresh that counts is answered
<1>e. ASSUME NEW f \in flight, f.current, NEW kind, UNCHANGED <<phase, login>>,
             Follow(kind, mem'), phase = "restoring" => mem' = None
      PROVE  Fine
  <2>1. mem # None BY <1>b, <1>e
  <2>2. /\ saver' # Idle /\ saver'.tok = mem' /\ op' = op
        /\ crossed' = (crossed \/ op # Idle)
    BY <1>d, <1>e DEF Follow
  <2>3. phase \notin {"start", "out", "aside"} BY <2>1 DEF Followed
  <2>5. CASE op = Idle
    BY <1>e, <2>2, <2>3, <2>5 DEF Followed, DiskFollowsMemory, Through
  <2>6. CASE op # Idle
    <3>1. crossed' /\ op' # Idle BY <2>2, <2>6
    <3> QED BY <1>e, <2>3, <3>1 DEF Followed, DiskFollowsMemory
  <2> QED BY <2>5, <2>6
<1>4. ASSUME NEW f \in flight, Refreshed(f) PROVE Fine
  <2>1. CASE login # None
    <3>1. /\ f.current /\ Follow("save", mem') /\ UNCHANGED <<phase, login>>
          /\ phase # "restoring"
      BY <1>4, <2>1 DEF Refreshed, Followed
    <3> QED BY <1>e, <2>1, <3>1
  <2>2. CASE login = None
    <3>1. /\ f.current /\ UNCHANGED <<phase, login, op, saver, seen, kept, leaked>>
          /\ crossed' = (crossed \/ op # Idle)
      BY <1>4, <2>2 DEF Refreshed, diskVars
    <3>2. mem # None BY <1>b, <3>1
    <3>3. phase = "restoring" BY <1>0, <2>2, <3>2 DEF Followed
    <3>4. CASE op = Idle
      BY <3>1, <3>2, <3>3, <3>4 DEF Followed, DiskFollowsMemory
    <3>5. CASE op # Idle
      <4>1. crossed' BY <3>1, <3>5
      <4> QED BY <2>2, <3>1, <3>3, <3>5, <4>1 DEF Followed, DiskFollowsMemory
    <3> QED BY <3>4, <3>5
  <2> QED BY <2>1, <2>2
<1>5. ASSUME NEW f \in flight, RefreshRefused(f) PROVE Fine
  <2>1. f.current /\ Follow("clear", mem') /\ UNCHANGED <<phase, login>> /\ mem' = None
    BY <1>5 DEF RefreshRefused
  <2> QED BY <1>e, <2>1
\* the foreground begins, and the saver is cancelled
<1>f. ASSUME NEW kind, NEW t, Foreground(kind, t), UNCHANGED <<mem, login>>,
             kind # "restore", phase' # "start",
             phase' \in {"out", "aside"} => mem = None,
             phase' = "in" => login # None, phase' = "restoring" => login = None
      PROVE  Fine
  <2>1. op' # Idle /\ op'.st = "waiting" /\ op'.kind = kind /\ saver' = Idle
    BY <1>d, <1>f DEF Foreground
  <2> QED BY <1>f, <2>1 DEF Followed, DiskFollowsMemory, Through
<1>6. CASE CommitBegin
  BY <1>6, <1>f DEF CommitBegin, memVars, Followed
<1>7. CASE ClearBegin \/ RestoreRefused
  BY <1>7, <1>f DEF ClearBegin, RestoreRefused, memVars, Followed
<1>8. CASE CommitEnd
  <2>1. op # Idle /\ op.tok \in Token /\ op' = Idle /\ phase' = "in" /\ login' = op.tok.g
        /\ mem' = op.tok /\ UNCHANGED <<saver, seen, kept, leaked, crossed>>
    BY <1>8, <1>a DEF CommitEnd, SetTokens, diskVars, Idle
  <2>2. op.st = "apply" BY <1>8 DEF CommitEnd
  <2>3. ~crossed => saver = Idle /\ seen = Both(op.tok) /\ (~leaked => kept = Both(op.tok))
    BY <2>1, <2>2 DEF Followed, Through
  <2> QED BY <1>c, <2>1, <2>3 DEF Followed, DiskFollowsMemory
<1>9. CASE ClearMemory
  <2>1. /\ op # Idle /\ op.tok = None /\ phase' = "out" /\ mem' = None /\ op.st = "apply"
        /\ UNCHANGED <<saver, seen, kept, leaked, crossed>>
    BY <1>9, <1>a DEF ClearMemory, SetTokens, diskVars, Idle
  <2>2. op' # Idle /\ op'.st = "closing" /\ op'.tok = None
    BY <1>0, <1>9, <2>1 DEF ClearMemory, OpState, Idle
  <2> QED BY <2>1, <2>2 DEF Followed, DiskFollowsMemory, Through
<1>10. CASE ClearEnd
  <2>1. /\ op # Idle /\ op.st = "closing" /\ op' = Idle /\ saver' = Idle
        /\ UNCHANGED <<phase, mem, login, crossed>>
    BY <1>10 DEF ClearEnd, Idle, memVars, historyVars
  <2>2. ~crossed => saver = Idle /\ seen = Both(mem) /\ (~leaked => kept = Both(mem))
    BY <2>1 DEF Followed, Through
  <2>3. ~crossed => UNCHANGED <<seen, kept, leaked>>
    BY <1>10, <1>d, <2>2 DEF ClearEnd, Cancel, diskVars
  <2> QED BY <2>1, <2>2, <2>3 DEF Followed, DiskFollowsMemory
<1>11. CASE RestoreBegin
  <2>1. /\ op = Idle /\ saver = Idle /\ mem = None /\ login = None /\ UNCHANGED login
        /\ seen = kept
    BY <1>11 DEF RestoreBegin, Followed
  <2>2. CASE None \in {seen.access, seen.refresh} /\ seen = Both(None)
    <3>1. phase' = "out" /\ UNCHANGED <<mem, op, saver, seen, kept>>
      BY <1>11, <2>2 DEF RestoreBegin, diskVars
    <3> QED BY <2>1, <2>2, <3>1 DEF Followed, DiskFollowsMemory
  <2>3. CASE None \in {seen.access, seen.refresh} /\ seen # Both(None)
    <3>1. phase' = "out" /\ UNCHANGED mem /\ Foreground("clear", None)
      BY <1>11, <2>3 DEF RestoreBegin
    <3> QED BY <1>f, <2>1, <3>1
  <2>4. CASE None \notin {seen.access, seen.refresh}
    <3>1. phase' = "restoring" /\ op' = Idle /\ saver' = Idle
      BY <1>11, <2>1, <2>4 DEF RestoreBegin
    <3> QED BY <2>1, <3>1 DEF Followed, DiskFollowsMemory
  <2> QED BY <2>2, <2>3, <2>4
<1>12. CASE RestoreAccepted
  <2>1. /\ phase = "restoring" /\ saver = Idle /\ UNCHANGED <<phase, mem, login, saver>>
        /\ op' = Job("restore", mem)
    BY <1>12 DEF RestoreAccepted, memVars, Followed
  <2>2. op' # Idle /\ op'.st = "waiting" /\ op'.tok = mem
    BY <1>d, <2>1
  <2> QED BY <2>1, <2>2 DEF Followed, DiskFollowsMemory, Through
<1>13. CASE RestoreEnd
  <2>1. op # Idle /\ op.kind = "restore" /\ op.tok \in Token /\ op' = Idle /\ phase' = "in"
        /\ login' = op.tok.g /\ UNCHANGED <<mem, saver, seen, kept, leaked, crossed>>
    BY <1>13, <1>a DEF RestoreEnd, diskVars, Idle
  <2>2. op.st = "apply" BY <1>13 DEF RestoreEnd
  <2>3. ~crossed => saver = Idle /\ seen = Both(mem) /\ (~leaked => kept = Both(mem))
    BY <2>1, <2>2 DEF Followed, Through
  <2> QED BY <1>c, <2>1, <2>3 DEF Followed, DiskFollowsMemory
<1>14. CASE RestoreOffline
  <2>1. op = Idle /\ op' = Idle /\ phase' = "aside" /\ mem' = None
    BY <1>14 DEF RestoreOffline, SetTokens
  <2> QED BY <2>1 DEF Followed, DiskFollowsMemory
<1>15. CASE Restart
  <2>1. /\ phase' = "start" /\ mem' = None /\ op' = Idle /\ saver' = Idle /\ seen' = kept
        /\ login' = None /\ UNCHANGED kept
    BY <1>15 DEF Restart
  <2> QED BY <2>1 DEF Followed, DiskFollowsMemory
<1> QED BY <1>1, <1>2, <1>3, <1>4, <1>5, <1>6, <1>7, <1>8, <1>9, <1>10, <1>11, <1>12,
           <1>13, <1>14, <1>15
        DEF Next

-----------------------------------------------------------------------------
(* The invariant and the theorems.                                         *)

LEMMA InitInv == Init => IInv
<1> SUFFICES ASSUME Init PROVE IInv OBVIOUS
<1>1. Types
  <2>1. 0 \in 0..MaxGrant /\ 0 \in 0..MaxRestart BY GrantBounds
  <2> QED BY <2>1 DEF Init, Types, TypeOK, Shapes, Both, Maybe
<1>2. MemInv BY DEF Init, MemInv, Flights, TokensOfThisLogin
<1>3. DiskInv BY DEF Init, DiskInv, Writers, Wrote, KeptIsWhole, Middle, Idle, Both
<1>4. Followed /\ DiskFollowsMemory BY DEF Init, Followed, DiskFollowsMemory
<1> QED BY <1>1, <1>2, <1>3, <1>4 DEF IInv

LEMMA NextInv == IInv /\ [Next]_vars => IInv'
<1> SUFFICES ASSUME IInv, [Next]_vars PROVE IInv' OBVIOUS
<1>1. CASE Next
  BY <1>1, TypesStep, MemStep, DiskStep, FollowStep DEF IInv
<1>2. CASE UNCHANGED vars
  <2>1. UNCHANGED <<phase, mem, flight, op, saver, seen, kept, leaked, grants, restarts,
                    login, crossed>>
    BY <1>2 DEF vars, memVars, diskVars, countVars, historyVars
  <2>2. Types' BY <2>1 DEF IInv, Types, TypeOK, Shapes
  <2>3. MemInv' BY <2>1 DEF IInv, MemInv, Flights, TokensOfThisLogin
  <2>4. DiskInv' BY <2>1 DEF IInv, DiskInv, Writers, Wrote, KeptIsWhole
  <2>5. Followed' /\ DiskFollowsMemory'
    BY <2>1 DEF IInv, Followed, Through, DiskFollowsMemory
  <2> QED BY <2>2, <2>3, <2>4, <2>5 DEF IInv
<1> QED BY <1>1, <1>2

LEMMA Invariance == Spec => []IInv
<1> QED BY InitInv, NextInv, PTL DEF Spec

(* Tokens, jobs and counters stay what the code takes them for.            *)
THEOREM StoreTypes == Spec => []TypeOK
<1>1. IInv => TypeOK BY DEF IInv, Types
<1> QED BY <1>1, Invariance, PTL

(* A refresh that a sign-in or sign-out has overtaken never brings back    *)
(* tokens of another sign-in (_is_refresh_context_current).                *)
THEOREM NoOldTokens == Spec => []TokensOfThisLogin
<1>1. IInv => TokensOfThisLogin BY DEF IInv, MemInv
<1> QED BY <1>1, Invariance, PTL

(* At rest the disk has the tokens of the memory, unless a refresh ended   *)
(* while the foreground wrote or a savepoint was left open.                *)
THEOREM DiskIsCurrent == Spec => []DiskFollowsMemory
<1>1. IInv => DiskFollowsMemory BY DEF IInv
<1> QED BY <1>1, Invariance, PTL

(* However writes are cancelled and the process ends, what was committed   *)
(* is a whole pair of tokens (_write_transaction).                         *)
THEOREM WholePairs == Spec => []KeptIsWhole
<1>1. IInv => KeptIsWhole BY DEF IInv, DiskInv
<1> QED BY <1>1, Invariance, PTL
=============================================================================
