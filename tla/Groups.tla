------------------------------- MODULE Groups -------------------------------
(***************************************************************************)
(* The groups of a server: GroupService                                    *)
(* (src/server/app/services/group_service.py) over the tables groups,      *)
(* group_members and session_members.                                      *)
(*                                                                         *)
(* A route calls the service without an await and the service changes the  *)
(* tables in one transaction, so an operation is one step.  Names,         *)
(* announcements, avatars, notes and nicknames are left out.               *)
(***************************************************************************)
EXTENDS UserIds

CONSTANT Group     \* group ids; a group stands for its session as well

ASSUME NoneOwnsNothing == None \notin User

VARIABLES
  created,   \* groups that were ever created
  owner,     \* groups.owner_id, None where there is no group
  roles,     \* group_members.role, "none" where there is no row
  members    \* rows of session_members

groupVars == <<created, owner, roles, members>>

Role == {"none", "member", "admin", "owner"}

GroupsTypeOK ==
  /\ created \subseteq Group
  /\ owner \in [Group -> User \cup {None}]
  /\ roles \in [Group -> [User -> Role]]
  /\ members \in [Group -> SUBSET User]

GroupsInit ==
  /\ created = {}
  /\ owner = [g \in Group |-> None]
  /\ roles = [g \in Group |-> [u \in User |-> "none"]]
  /\ members = [g \in Group |-> {}]

-----------------------------------------------------------------------------

IsMember(g, u) == u \in members[g] /\ roles[g][u] # "none"

(* create_group: whoever is named, the creator and the owner.              *)
CreateGroup(u, g, M) ==
  /\ g \notin created
  /\ created' = created \cup {g}
  /\ owner' = [owner EXCEPT ![g] = u]
  /\ roles' = [roles EXCEPT ![g] = [v \in User |->
                 IF v = u THEN "owner" ELSE IF v \in M THEN "member" ELSE "none"]]
  /\ members' = [members EXCEPT ![g] = M \cup {u}]

(* add_member: new members are no admins.                                  *)
AddMember(u, g, v) ==
  /\ owner[g] = u /\ v \notin members[g] /\ roles[g][v] = "none"
  /\ roles' = [roles EXCEPT ![g][v] = "member"]
  /\ members' = [members EXCEPT ![g] = @ \cup {v}]
  /\ UNCHANGED <<created, owner>>

(* remove_member by the owner or the member itself, and leave_group: the   *)
(* owner stays.                                                            *)
RemoveMember(u, g, v) ==
  /\ owner[g] \notin {v, None} /\ u \in {owner[g], v} /\ IsMember(g, v)
  /\ roles' = [roles EXCEPT ![g][v] = "none"]
  /\ members' = [members EXCEPT ![g] = @ \ {v}]
  /\ UNCHANGED <<created, owner>>

(* update_member_role *)
UpdateRole(u, g, v, role) ==
  /\ owner[g] = u /\ v # u /\ IsMember(g, v) /\ role \in {"member", "admin"}
  /\ roles' = [roles EXCEPT ![g][v] = role]
  /\ UNCHANGED <<created, owner, members>>

(* Wrong on purpose: the old owner keeps the role.                         *)
TransferKeepsRole(u, g, v) ==
  /\ owner[g] = u /\ v # u /\ IsMember(g, v)
  /\ roles' = [roles EXCEPT ![g][v] = "owner"]
  /\ owner' = [owner EXCEPT ![g] = v]
  /\ UNCHANGED <<created, members>>

(* transfer_ownership *)
TransferOwnership(u, g, v) ==
  /\ owner[g] = u /\ v # u /\ IsMember(g, v)
  /\ roles' = [roles EXCEPT ![g] = [@ EXCEPT ![u] = "member", ![v] = "owner"]]
  /\ owner' = [owner EXCEPT ![g] = v]
  /\ UNCHANGED <<created, members>>

(* delete_group: the rows of both tables, the events and the messages.     *)
DeleteGroup(u, g) ==
  /\ owner[g] = u
  /\ owner' = [owner EXCEPT ![g] = None]
  /\ roles' = [roles EXCEPT ![g] = [v \in User |-> "none"]]
  /\ members' = [members EXCEPT ![g] = {}]
  /\ UNCHANGED created

-----------------------------------------------------------------------------

(* The owner of a group is a member, the one member with that role; the    *)
(* two tables name the same members, and without a group they name none:   *)
(* no sequence of transfers, role changes, removals and leaving ends in a  *)
(* group nobody can manage, or hides a member from one table.              *)
GroupsIntact ==
  \A g \in Group :
    /\ \A u \in User : roles[g][u] = "owner" <=> owner[g] = u
    /\ members[g] = {u \in User : roles[g][u] # "none"}
    /\ owner[g] = None => members[g] = {}
=============================================================================
