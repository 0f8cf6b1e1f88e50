----------------------------- MODULE TokenStore -----------------------------
(***************************************************************************)
(* The tokens of one client: in memory (src/client/network/http_client.py),*)
(* on disk (src/client/ui/controllers/auth_controller.py and the app_state *)
(* table of src/client/storage/database.py), and the refreshes, sign-ins   *)
(* and sign-outs that replace them.                                        *)
(*                                                                         *)
(* Everything runs on one event loop; an action is what runs between two   *)
(* awaits.  The database does one statement at a time, and a statement     *)
(* that was handed to it is done even when the task that waits for it is   *)
(* cancelled.  A database that fails is left out.                          *)
(***************************************************************************)
EXTENDS Naturals, FiniteSets

CONSTANTS
  None,
  MaxGrant,    \* BOUND: sign-ins and password changes
  MaxRefresh,  \* BOUND: refreshes of the tokens of one of them
  MaxRestart   \* BOUND: ends of the client

ASSUME GrantBounds ==
  /\ MaxGrant \in Nat /\ MaxRefresh \in Nat /\ MaxRestart \in Nat
  /\ None \notin Nat

VARIABLES
  phase,     \* start, restoring, in, out, or aside: signed out, disk kept
  mem,       \* the tokens requests are sent with
  flight,    \* refreshes under way: what they presented, and whether the
             \* token generation is still the one they began with
  op,        \* what the controller is doing in the foreground
  saver,     \* _token_state_task, which brings the disk up to date
  seen,      \* access and refresh token in app_state, as the client reads it
  kept,      \* the same, as a restart would find it
  leaked,    \* a savepoint was left open
  grants,    \* sign-ins so far
  restarts,  \* ends so far
  login,     \* history: the sign-in that is current
  crossed    \* history: a refresh ended while the foreground wrote the disk

memVars == <<phase, mem, flight>>
diskVars == <<seen, kept, leaked>>
countVars == <<grants, restarts>>
historyVars == <<login, crossed>>
vars == <<memVars, op, saver, diskVars, countVars, historyVars>>

Grant == 1..MaxGrant
Token == [g : Grant, n : 0..MaxRefresh]
Maybe == Token \cup {None}

Idle == [st |-> "idle"]
Writing == {"waiting", "begun", "half", "put"}
Job(kind, t) == [st |-> "waiting", kind |-> kind, tok |-> t]
Both(t) == [access |-> t, refresh |-> t]

TypeOK ==
  /\ phase \in {"start", "restoring", "in", "out", "aside"}
  /\ mem \in Maybe
  /\ flight \subseteq [tok : Token, current : BOOLEAN]
  /\ op \in {Idle} \cup [st : Writing \cup {"apply", "closing"},
                         kind : {"commit", "restore", "clear"}, tok : Maybe]
  /\ saver \in {Idle} \cup [st : Writing, kind : {"save", "clear"}, tok : Maybe]
  /\ seen \in [access : Maybe, refresh : Maybe]
  /\ kept \in [access : Maybe, refresh : Maybe]
  /\ leaked \in BOOLEAN
  /\ grants \in 0..MaxGrant /\ restarts \in 0..MaxRestart
  /\ login \in Grant \cup {None}
  /\ crossed \in BOOLEAN

Init ==
  /\ phase = "start" /\ mem = None /\ flight = {}
  /\ op = Idle /\ saver = Idle
  /\ seen = Both(None) /\ kept = Both(None) /\ leaked = FALSE
  /\ grants = 0 /\ restarts = 0
  /\ login = None /\ crossed = FALSE

-----------------------------------------------------------------------------
(* The disk.  One writer at a time holds the lock of _write_transaction;   *)
(* the foreground asked for it first if both wait.                         *)

Unlocked == /\ op.st \notin {"begun", "half", "put"}
            /\ saver.st \notin {"begun", "half", "put"}

(* The statements of a write: what they leave in app_state.                *)
Put(job) ==
  IF job.kind = "clear" THEN Both(None)
  ELSE IF job.st = "begun" THEN [seen EXCEPT !.access = job.tok]
  ELSE [seen EXCEPT !.refresh = job.tok]

NextSt(job) == IF job.kind = "clear" \/ job.st = "half" THEN "put" ELSE "half"

(* RELEASE of the savepoint, which commits unless it is inside another.    *)
Release == kept' = IF leaked THEN kept ELSE seen

(* Wrong on purpose: a cancelled write releases its savepoint.             *)
CancelReleases ==
  /\ seen' = Put(saver)
  /\ kept' = IF leaked THEN kept ELSE Put(saver)
  /\ UNCHANGED leaked

(* Cancelling the saver.  Waiting for the lock, it has done nothing; in    *)
(* the middle, the statement it waits for is done and neither rollback nor *)
(* release follow; at the end it may be the release that it waits for.     *)
CancelWriting ==
  \/ /\ saver.st \in {"begun", "half"}
     /\ seen' \in {seen, Put(saver)} /\ leaked' = TRUE
     /\ UNCHANGED kept
  \/ /\ saver.st = "put"
     /\ \/ leaked' = TRUE /\ UNCHANGED kept
        \/ Release /\ UNCHANGED leaked
     /\ UNCHANGED seen

Cancel == IF saver.st \in {"idle", "waiting"} THEN UNCHANGED diskVars
          ELSE CancelWriting

SaverStep ==
  /\ \/ /\ saver.st = "waiting" /\ Unlocked /\ op.st # "waiting"
        /\ saver' = [saver EXCEPT !.st = "begun"]
        /\ UNCHANGED diskVars
     \/ /\ saver.st \in {"begun", "half"}
        /\ seen' = Put(saver)
        /\ saver' = [saver EXCEPT !.st = NextSt(saver)]
        /\ UNCHANGED <<kept, leaked>>
     \/ /\ saver.st = "put"
        /\ Release /\ saver' = Idle
        /\ UNCHANGED <<seen, leaked>>
  /\ UNCHANGED <<memVars, op, countVars, historyVars>>

OpWrites ==
  /\ \/ /\ op.st = "waiting" /\ Unlocked
        /\ op' = [op EXCEPT !.st = "begun"]
        /\ UNCHANGED diskVars
     \/ /\ op.st \in {"begun", "half"}
        /\ seen' = Put(op)
        /\ op' = [op EXCEPT !.st = NextSt(op)]
        /\ UNCHANGED <<kept, leaked>>
     \/ /\ op.st = "put"
        /\ Release /\ op' = [op EXCEPT !.st = "apply"]
        /\ UNCHANGED <<seen, leaked>>
  /\ UNCHANGED <<memVars, saver, countVars, historyVars>>

-----------------------------------------------------------------------------
(* Tokens in memory.                                                       *)

Stale == {[f EXCEPT !.current = FALSE] : f \in flight}

(* set_tokens, clear_tokens: a new generation.                             *)
SetTokens(t) == mem' = t /\ flight' = Stale

(* _refresh_access_token: one refresh per generation.                      *)
RefreshBegin ==
  /\ mem # None /\ mem.n < MaxRefresh
  /\ ~\E f \in flight : f.current
  /\ flight' = flight \cup {[tok |-> mem, current |-> TRUE]}
  /\ UNCHANGED <<phase, mem, op, saver, diskVars, countVars, historyVars>>

(* _on_tokens_changed: the disk follows, unless nobody is signed in.       *)
Follow(kind, t) ==
  /\ Cancel /\ saver' = Job(kind, t)
  /\ UNCHANGED op /\ crossed' = (crossed \/ op # Idle)

(* Wrong on purpose: what was refreshed is not written to the disk.        *)
RefreshedUnsaved(f) ==
  /\ f \in flight /\ f.current
  /\ mem' = [f.tok EXCEPT !.n = @ + 1]
  /\ flight' = {[g EXCEPT !.current = FALSE] : g \in flight \ {f}}
  /\ UNCHANGED <<phase, op, saver, diskVars, countVars, historyVars>>

(* Wrong on purpose: of the new pair only the access token is taken over.  *)
RefreshedAccess(f) ==
  /\ f \in flight /\ f.current
  /\ mem' = [access |-> [f.tok EXCEPT !.n = @ + 1], refresh |-> f.tok]
  /\ flight' = {[g EXCEPT !.current = FALSE] : g \in flight \ {f}}
  /\ Follow("save", f.tok)
  /\ UNCHANGED <<phase, countVars, login>>

(* _perform_token_refresh, answered with new tokens.                       *)
Refreshed(f) ==
  LET t == [f.tok EXCEPT !.n = @ + 1]
  IN /\ f \in flight /\ f.current
     /\ mem' = t
     /\ flight' = {[g EXCEPT !.current = FALSE] : g \in flight \ {f}}
     /\ IF login # None THEN Follow("save", t)
        ELSE /\ UNCHANGED <<op, saver, diskVars>>
             /\ crossed' = (crossed \/ op # Idle)
     /\ UNCHANGED <<phase, countVars, login>>

(* Refused, whatever the reason: the tokens are given up.                  *)
RefreshRefused(f) ==
  /\ f \in flight /\ f.current
  /\ mem' = None
  /\ flight' = {[g EXCEPT !.current = FALSE] : g \in flight \ {f}}
  /\ Follow("clear", None)
  /\ UNCHANGED <<phase, countVars, login>>

(* Wrong on purpose: a late answer counts like any other.                  *)
LateCounts(f) ==
  /\ f \in flight /\ ~f.current
  /\ mem' = [f.tok EXCEPT !.n = @ + 1]
  /\ flight' = flight \ {f}
  /\ UNCHANGED <<phase, op, saver, diskVars, countVars, historyVars>>

(* No answer, or one that comes too late: nothing changes.                 *)
RefreshIgnored(f) ==
  /\ f \in flight
  /\ flight' = flight \ {f}
  /\ UNCHANGED <<phase, mem, op, saver, diskVars, countVars, historyVars>>

-----------------------------------------------------------------------------
(* Signing in and out.                                                     *)

Foreground(kind, t) ==
  /\ op' = Job(kind, t)
  /\ Cancel /\ saver' = Idle
  /\ crossed' = FALSE

(* _apply_auth_payload, after a login, a registration or a change of the   *)
(* password: the tokens are written to the disk first.                     *)
CommitBegin ==
  /\ op = Idle /\ phase \in {"in", "out", "aside"} /\ grants < MaxGrant
  /\ grants' = grants + 1
  /\ Foreground("commit", [g |-> grants + 1, n |-> 0])
  /\ UNCHANGED <<memVars, restarts, login>>

CommitEnd ==
  /\ op.st = "apply" /\ op.kind = "commit"
  /\ SetTokens(op.tok)
  /\ phase' = "in" /\ login' = op.tok.g
  /\ op' = Idle
  /\ UNCHANGED <<saver, diskVars, countVars, crossed>>

(* clear_session, after a logout or when the authentication is lost.       *)
ClearBegin ==
  /\ op = Idle /\ phase = "in"
  /\ Foreground("clear", None)
  /\ UNCHANGED <<memVars, countVars, login>>

(* The disk is cleared before the memory.                                  *)
ClearMemory ==
  /\ op.st = "apply" /\ op.kind = "clear"
  /\ SetTokens(None)
  /\ phase' = "out" /\ login' = None
  /\ op' = [op EXCEPT !.st = "closing"]
  /\ UNCHANGED <<saver, diskVars, countVars, crossed>>

(* close: the controller ends, and with it what it had to write.           *)
ClearEnd ==
  /\ op.st = "closing"
  /\ op' = Idle
  /\ Cancel /\ saver' = Idle
  /\ UNCHANGED <<memVars, countVars, historyVars>>

-----------------------------------------------------------------------------
(* restore_session.                                                        *)

RestoreBegin ==
  /\ phase = "start" /\ op = Idle
  /\ IF None \in {seen.access, seen.refresh}
     THEN IF seen = Both(None)
          THEN phase' = "out" /\ UNCHANGED <<mem, flight, op, saver, diskVars,
                                            crossed>>
          ELSE phase' = "out" /\ Foreground("clear", None)
               /\ UNCHANGED <<mem, flight>>
     ELSE /\ phase' = "restoring"
          /\ SetTokens(seen.refresh)
          /\ Cancel /\ saver' = Idle
          /\ UNCHANGED <<op, crossed>>
  /\ UNCHANGED <<countVars, login>>

(* The server knows the user: the tokens, refreshed perhaps meanwhile, are *)
(* written back.                                                           *)
RestoreAccepted ==
  /\ phase = "restoring" /\ op = Idle /\ mem # None
  /\ op' = Job("restore", mem) /\ crossed' = FALSE
  /\ UNCHANGED <<memVars, saver, diskVars, countVars, login>>

RestoreEnd ==
  /\ op.st = "apply" /\ op.kind = "restore"
  /\ phase' = "in" /\ login' = op.tok.g
  /\ op' = Idle
  /\ UNCHANGED <<mem, flight, saver, diskVars, countVars, crossed>>

(* It refuses the tokens: the disk is cleared.                             *)
RestoreRefused ==
  /\ phase = "restoring" /\ op = Idle
  /\ Foreground("clear", None)
  /\ UNCHANGED <<memVars, countVars, login>>

(* It cannot be reached: the tokens are put aside, the disk keeps them.    *)
RestoreOffline ==
  /\ phase = "restoring" /\ op = Idle
  /\ SetTokens(None)
  /\ phase' = "aside"
  /\ UNCHANGED <<op, saver, diskVars, countVars, historyVars>>

(* The process ends; what was not committed is gone.                       *)
Restart ==
  /\ restarts < MaxRestart
  /\ restarts' = restarts + 1
  /\ phase' = "start" /\ mem' = None /\ flight' = {}
  /\ op' = Idle /\ saver' = Idle
  /\ seen' = kept /\ leaked' = FALSE
  /\ login' = None /\ crossed' = FALSE
  /\ UNCHANGED <<kept, grants>>

-----------------------------------------------------------------------------
Next ==
  \/ SaverStep \/ OpWrites \/ RefreshBegin
  \/ \E f \in flight : Refreshed(f) \/ RefreshRefused(f) \/ RefreshIgnored(f)
  \/ CommitBegin \/ CommitEnd
  \/ ClearBegin \/ ClearMemory \/ ClearEnd
  \/ RestoreBegin \/ RestoreAccepted \/ RestoreEnd \/ RestoreRefused
  \/ RestoreOffline \/ Restart

Spec == Init /\ [][Next]_vars

-----------------------------------------------------------------------------
(* Properties.                                                             *)

(* Requests are sent with tokens of the sign-in that is current, never     *)
(* with those of an earlier one that a late refresh brings back.           *)
TokensOfThisLogin ==
  mem # None /\ phase # "restoring" => mem.g = login

(* When nothing is under way the disk has what the memory has, and would   *)
(* have it after a restart, unless a refresh ended while the foreground    *)
(* wrote the disk, or a cancelled write left its savepoint open.           *)
DiskFollowsMemory ==
  op = Idle /\ saver = Idle /\ phase \in {"in", "out"} /\ ~crossed =>
    /\ seen = Both(mem)
    /\ ~leaked => kept = Both(mem)

(* A restart never finds half of a pair of tokens.                         *)
KeptIsWhole == kept.access = kept.refresh
=============================================================================
