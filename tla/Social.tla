------------------------------- MODULE Social -------------------------------
(***************************************************************************)
(* Who is whose friend, who asked whom, who blocked whom, and which users  *)
(* have a private session: FriendService, BlockService and                 *)
(* SessionService.create_private (src/server/app/services/) over their     *)
(* repositories.                                                           *)
(*                                                                         *)
(* The routes are coroutines that call the service without an await and    *)
(* the service commits once, so an operation is one step.  What a request  *)
(* says and the remarks of friends are left out.                           *)
(***************************************************************************)
EXTENDS UserIds, FiniteSets

CONSTANT Request     \* BOUND: rows of friend_requests at a time

VARIABLES
  friends,   \* rows of friends, <<user_id, friend_id>>
  requests,  \* rows of friend_requests; old: made seven days ago
  blocks,    \* rows of user_blocks, <<user_id, blocked_user_id>>
  directs,   \* private sessions, each the set of its two members
  willing    \* history: <<u, v>>, u asked for v or accepted v, and since
             \* then it did not lapse, was not turned down, and neither
             \* removed nor blocked the other

socialVars == <<friends, requests, blocks, directs, willing>>

Status == {"pending", "accepted", "rejected", "expired"}

SocialTypeOK ==
  /\ friends \subseteq User \X User
  /\ requests \subseteq [id : Request, from : User, to : User,
                         status : Status, old : BOOLEAN]
  /\ blocks \subseteq User \X User
  /\ directs \subseteq SUBSET User
  /\ willing \subseteq User \X User

SocialInit ==
  /\ friends = {} /\ requests = {} /\ blocks = {} /\ directs = {}
  /\ willing = {}

-----------------------------------------------------------------------------

Both(u, v) == {<<u, v>>, <<v, u>>}

(* has_block_relation takes one row or none: two users who blocked each    *)
(* other make it raise, which ends the operation as a refusal does.        *)
Unblocked(u, v) == blocks \cap Both(u, v) = {}
MutualBlock(u, v) == Both(u, v) \subseteq blocks

Between(u, v) == {r \in requests : {r.from, r.to} = {u, v}}
Fresh(r) == r.status = "pending" /\ ~r.old

(* _persist_expired_requests *)
Expired(R) ==
  {IF r \in R /\ r.status = "pending" /\ r.old
   THEN [r EXCEPT !.status = "expired"] ELSE r : r \in requests}

(* Wrong on purpose: only the user's own requests are looked at.           *)
AskOwnOnly(u, v) ==
  /\ u # v /\ Unblocked(u, v) /\ <<u, v>> \notin friends
  /\ \E id \in Request \ {r.id : r \in requests} :
       requests' = Expired(Between(u, v)) \cup
         {[id |-> id, from |-> u, to |-> v, status |-> "pending", old |-> FALSE]}
  /\ ~\E r \in Between(u, v) : Fresh(r) /\ r.from = u
  /\ willing' = willing \cup {<<u, v>>}
  /\ UNCHANGED <<friends, blocks, directs>>

(* create_request: a request of either direction that still stands is      *)
(* answered with as it is.                                                 *)
AskFriend(u, v) ==
  /\ u # v /\ Unblocked(u, v) /\ <<u, v>> \notin friends
  /\ \/ /\ \E r \in Between(u, v) : Fresh(r)
        /\ requests' = Expired(Between(u, v))
        /\ UNCHANGED willing
     \/ /\ ~\E r \in Between(u, v) : Fresh(r)
        /\ \E id \in Request \ {r.id : r \in requests} :
             requests' = Expired(Between(u, v)) \cup
               {[id |-> id, from |-> u, to |-> v, status |-> "pending",
                 old |-> FALSE]}
        /\ willing' = willing \cup {<<u, v>>}
  /\ UNCHANGED <<friends, blocks, directs>>

Restatus(r, status) ==
  requests' = (requests \ {r}) \cup {[r EXCEPT !.status = status]}

(* Wrong on purpose: how old the request is is not looked at.              *)
AcceptLate(r) ==
  /\ r \in requests /\ r.status = "pending" /\ Unblocked(r.from, r.to)
  /\ Restatus(r, "accepted")
  /\ friends' = friends \cup Both(r.from, r.to)
  /\ willing' = willing \cup {<<r.to, r.from>>}
  /\ UNCHANGED <<blocks, directs>>

(* accept_request, by the receiver *)
Accept(r) ==
  /\ r \in requests /\ Fresh(r) /\ Unblocked(r.from, r.to)
  /\ Restatus(r, "accepted")
  /\ friends' = friends \cup Both(r.from, r.to)
  /\ willing' = willing \cup {<<r.to, r.from>>}
  /\ UNCHANGED <<blocks, directs>>

(* reject_request, by the receiver *)
Reject(r) ==
  /\ r \in requests /\ Fresh(r)
  /\ Restatus(r, "rejected")
  /\ willing' = willing \ {<<r.from, r.to>>}
  /\ UNCHANGED <<friends, blocks, directs>>

(* Either answer finds a request too old and marks it; accepting looks for *)
(* a block first, rejecting does not.                                      *)
AnswerTooLate(r) ==
  /\ r \in requests /\ r.status = "pending" /\ r.old
  /\ Restatus(r, "expired")
  /\ UNCHANGED <<friends, blocks, directs, willing>>

(* remove_friend *)
Unfriend(u, v) ==
  /\ friends \cap Both(u, v) # {}
  /\ friends' = friends \ Both(u, v)
  /\ willing' = willing \ Both(u, v)
  /\ UNCHANGED <<requests, blocks, directs>>

(* Wrong on purpose: requests stay when a block is made.                   *)
BlockFriendshipOnly(u, v) ==
  /\ u # v
  /\ blocks' = blocks \cup {<<u, v>>}
  /\ friends' = friends \ Both(u, v)
  /\ willing' = willing \ Both(u, v)
  /\ UNCHANGED <<requests, directs>>

(* block_user, again for one that is there: the row, the friendship and    *)
(* what was still asked, in one transaction.                               *)
BlockUser(u, v) ==
  /\ u # v
  /\ blocks' = blocks \cup {<<u, v>>}
  /\ friends' = friends \ Both(u, v)
  /\ requests' = requests \ {r \in Between(u, v) : r.status = "pending"}
  /\ willing' = willing \ Both(u, v)
  /\ UNCHANGED directs

(* unblock_user *)
UnblockUser(u, v) ==
  /\ blocks' = blocks \ {<<u, v>>}
  /\ UNCHANGED <<friends, requests, directs, willing>>

(* create_private: one session per pair, found again by its direct key.    *)
OpenDirect(u, v) ==
  /\ u # v /\ Unblocked(u, v)
  /\ directs' = directs \cup {{u, v}}
  /\ UNCHANGED <<friends, requests, blocks, willing>>

(* Seven days pass for a request.                                          *)
Age(r) ==
  /\ r \in requests /\ Fresh(r)
  /\ requests' = (requests \ {r}) \cup {[r EXCEPT !.old = TRUE]}
  /\ willing' = willing \ {<<r.from, r.to>>}
  /\ UNCHANGED <<friends, blocks, directs>>

-----------------------------------------------------------------------------
(* Properties.                                                             *)

(* Users of whom one blocks the other are no friends and have nothing to   *)
(* answer: what a block took away does not come back when it is lifted.    *)
BlockedAreStrangers ==
  \A u, v \in User : ~Unblocked(u, v) =>
    /\ friends \cap Both(u, v) = {}
    /\ \A r \in Between(u, v) : r.status # "pending"

(* Friends are friends of each other, and both wanted it: each asked or    *)
(* accepted, within the seven days, and neither turned the other down,     *)
(* removed or blocked the other since.  A request from before a block, a   *)
(* removal or the end of its time makes nobody a friend.                   *)
FriendsAgreed ==
  \A u, v \in User : <<u, v>> \in friends =>
    <<v, u>> \in friends /\ Both(u, v) \subseteq willing

(* Two users have at most one request that waits for an answer, whoever    *)
(* made it, and friends have none.                                         *)
OneOpenRequest ==
  \A r, q \in requests :
    r.status = "pending" =>
      /\ <<r.from, r.to>> \notin friends
      /\ q.status = "pending" /\ {q.from, q.to} = {r.from, r.to} => q = r
=============================================================================
