------------------------------ MODULE Membership ------------------------------
(***************************************************************************)
(* Who is in a group, and how one comes and goes (garraia-gateway:         *)
(* rest_v1/groups.rs, invites.rs, me.rs; migrations 001, 012, 018, 024,    *)
(* 025 and 034 of garraia-workspace).  One group, its rows of              *)
(* group_members and group_invites, and the requests that change them.     *)
(*                                                                         *)
(* A request reads its caller's role once, in the Principal extractor, and *)
(* opens its transaction later; others run in between.  setRole and the    *)
(* removal of a member hold the target's row (SELECT ... FOR UPDATE) from  *)
(* the check of its role to the commit.  An invite is taken by its token,  *)
(* found by a scan before the transaction, or from the inbox of the user   *)
(* it is addressed to, by one guarded UPDATE.                              *)
(*                                                                         *)
(* "member" stands for member, guest and child, which no guard of these    *)
(* requests tells apart.  An invite that has expired is one that nobody    *)
(* tries to accept any more: expiry only refuses.                          *)
(***************************************************************************)
EXTENDS Naturals, FiniteSets

CONSTANTS
  User,    \* users
  Call,    \* requests that may be under way at once
  Invite,  \* bound: invites ever made
  Offered, \* bound: the roles invites propose, of proposed_role's values
  NoOne,   \* no user, no invite
  MaxErased \* bound on the accounts that are erased

ASSUME MembershipAssumption ==
  /\ NoOne \notin User /\ NoOne \notin Invite
  /\ Offered \subseteq {"admin", "member"}
  /\ MaxErased \in Nat

VARIABLES
  creator,  \* groups.created_by; NoOne while there is no group
  member,   \* rows of group_members
  invite,   \* rows of group_invites
  call,     \* the locals of the requests under way
  gone      \* users whose account was purged

vars == <<creator, member, invite, call, gone>>

Role == {"owner", "admin", "member"}
Granted == Role \ {"owner"}

Row == [role: Role, status: {"none", "active", "removed"}]
NoRow == [role |-> "member", status |-> "none"]

(* to: the user whose address invited_email is; by: accepted_by;           *)
(* withdrawn: revoked or declined, which no guard tells apart.             *)
Invites == [made: BOOLEAN, to: User \cup {NoOne}, role: Granted,
            by: User \cup {NoOne}, withdrawn: BOOLEAN]
Unmade == [made |-> FALSE, to |-> NoOne, role |-> "member", by |-> NoOne,
           withdrawn |-> FALSE]

(* A request under way.  setRole and remove: on whom, whether that is the  *)
(* caller, or else the caller's role as the extractor read it, and the new *)
(* role.  accept: the caller and the invite.                               *)
Calls == [op: {"none", "setRole", "remove", "accept"}, on: User \cup {NoOne},
          self: BOOLEAN, role: Role, gives: Granted, locked: BOOLEAN,
          who: User \cup {NoOne}, inv: Invite \cup {NoOne}]
NoCall == [op |-> "none", on |-> NoOne, self |-> FALSE, role |-> "member",
           gives |-> "member", locked |-> FALSE, who |-> NoOne, inv |-> NoOne]

Init ==
  /\ creator = NoOne
  /\ member = [u \in User |-> NoRow]
  /\ invite = [i \in Invite |-> Unmade]
  /\ call = [c \in Call |-> NoCall]
  /\ gone = {}

(* create_group: the group and its owner's row, in one transaction.        *)
CreateGroup(u) ==
  /\ creator = NoOne /\ u \notin gone
  /\ creator' = u
  /\ member' = [member EXCEPT ![u] = [role |-> "owner", status |-> "active"]]
  /\ UNCHANGED <<invite, call, gone>>

-------------------------------------------------------------------------------
(* The Principal extractor: an active row, and its role as it is now.      *)
Authed(c, u) == call[c] = NoCall /\ u \notin gone /\ member[u].status = "active"

(* can(MembersManage)                                                      *)
Manages(role) == role \in {"owner", "admin"}

(* set_member_role and delete_member up to their transaction: anyone may   *)
(* act on their own row, managers on others.                               *)
AskMember(c, u, op, v, gives) ==
  /\ Authed(c, u)
  /\ op = "remove" => gives = "member"
  /\ u = v \/ Manages(member[u].role)
  /\ call' = [call EXCEPT ![c] = [NoCall EXCEPT
       !.op = op, !.on = v, !.gives = gives, !.self = (u = v),
       !.role = IF u = v THEN @ ELSE member[u].role]]
  /\ UNCHANGED <<creator, member, invite, gone>>

(* A request ends with no effect: a guard refused it, or it was dropped    *)
(* and its transaction rolled back.                                        *)
GiveUp(c) ==
  /\ call[c] # NoCall
  /\ call' = [call EXCEPT ![c] = NoCall]
  /\ UNCHANGED <<creator, member, invite, gone>>

-------------------------------------------------------------------------------
(* A slip to check against: the target's row is read without FOR UPDATE.   *)
Unheld(v) == TRUE

Free(v) == \A c \in Call : ~(call[c].locked /\ call[c].on = v)

(* The hierarchy gate: of others, an admin may touch neither the owner nor *)
(* an admin.                                                               *)
Outranks(k) ==
  \/ k.self
  \/ k.role # "admin"
  \/ member[k.on].role = "member"

(* SELECT ... FOR UPDATE of the target's row, and the gate.                *)
LockTarget(c) ==
  /\ call[c].op \in {"setRole", "remove"} /\ ~call[c].locked
  /\ Free(call[c].on)
  /\ member[call[c].on].status = "active"
  /\ Outranks(call[c])
  /\ call' = [call EXCEPT ![c].locked = TRUE]
  /\ UNCHANGED <<creator, member, invite, gone>>

Owners(rows) == {u \in User : rows[u].role = "owner" /\ rows[u].status = "active"}

(* A slip to check against: the owners are not counted after the UPDATE.   *)
Whatever(rows) == TRUE

(* The owners are counted in the transaction, after its UPDATE.            *)
HasOwner(rows) == Owners(rows) # {}

After(k) ==
  IF k.op = "setRole" THEN [member EXCEPT ![k.on].role = k.gives]
                      ELSE [member EXCEPT ![k.on].status = "removed"]

(* set_member_role, delete_member: UPDATE, count, commit.                  *)
ChangeMember(c) ==
  /\ call[c].locked
  /\ HasOwner(After(call[c]))
  /\ member' = After(call[c])
  /\ call' = [call EXCEPT ![c] = NoCall]
  /\ UNCHANGED <<creator, invite, gone>>

-------------------------------------------------------------------------------
(* group_invites_pending_unique: not accepted, revoked or declined.        *)
Pending(r) == r.made /\ r.by = NoOne /\ ~r.withdrawn

(* create_invite, by somebody who managed the group when the extractor     *)
(* asked, and may not any more.  Nobody has the address of a user whose    *)
(* account was erased, and an invite to it is as good as one to nobody's.  *)
CreateInvite(i, v, role) ==
  /\ creator # NoOne /\ ~invite[i].made
  /\ v \in User \ gone =>
       \A j \in Invite : Pending(invite[j]) => invite[j].to # v
  /\ invite' = [invite EXCEPT ![i] =
       [Unmade EXCEPT !.made = TRUE, !.to = v, !.role = role]]
  /\ UNCHANGED <<creator, member, call, gone>>

(* The guard of the UPDATEs of revoke_invite and decline_invite.           *)
Open(i) == invite[i].by = NoOne /\ ~invite[i].withdrawn

(* revoke_invite, by somebody who managed the group, likewise.             *)
Revoke(i) ==
  /\ invite[i].made /\ Open(i)
  /\ invite' = [invite EXCEPT ![i].withdrawn = TRUE]
  /\ UNCHANGED <<creator, member, call, gone>>

(* decline_invite: one UPDATE, for the user the invite is addressed to.    *)
Decline(u, i) ==
  /\ invite[i].made /\ invite[i].to = u /\ u \notin gone
  /\ Open(i)
  /\ invite' = [invite EXCEPT ![i].withdrawn = TRUE]
  /\ UNCHANGED <<creator, member, call, gone>>

(* The primary key of group_members lets a user in once.                   *)
Joins(u) == member[u].status = "none"

Join(u, i) ==
  /\ invite' = [invite EXCEPT ![i].by = u]
  /\ member' = [member EXCEPT ![u] = [role |-> invite[i].role, status |-> "active"]]

(* accept_my_invite: one UPDATE with every guard, then the INSERT.         *)
AcceptMine(u, i) ==
  /\ invite[i].made /\ invite[i].to = u /\ u \notin gone
  /\ Open(i)
  /\ Joins(u)
  /\ Join(u, i)
  /\ UNCHANGED <<creator, call, gone>>

(* accept_invite before its transaction: the scan of what is not accepted  *)
(* finds the token's invite.  Whoever has the token may bring it.          *)
MatchToken(c, u, i) ==
  /\ call[c] = NoCall /\ u \notin gone
  /\ invite[i].made /\ invite[i].by = NoOne
  /\ call' = [call EXCEPT ![c] = [NoCall EXCEPT
       !.op = "accept", !.who = u, !.inv = i]]
  /\ UNCHANGED <<creator, member, invite, gone>>

(* A slip to check against: the UPDATE does not ask again.                 *)
AsMatched(i) == TRUE

(* The guard of accept_invite's UPDATE.                                    *)
Unaccepted(i) == invite[i].by = NoOne

(* accept_invite's transaction: UPDATE of the invite, INSERT of the row.   *)
AcceptToken(c) ==
  /\ call[c].op = "accept"
  /\ Unaccepted(call[c].inv)
  /\ Joins(call[c].who)
  /\ Join(call[c].who, call[c].inv)
  /\ call' = [call EXCEPT ![c] = NoCall]
  /\ UNCHANGED <<creator, gone>>

-------------------------------------------------------------------------------
(* purge_account_data: a row of group_members is deleted.  The account     *)
(* has been closed for the grace period, so it is not joining a group.     *)
Purge(u) ==
  /\ member[u].status # "none" /\ Free(u)
  /\ Cardinality(gone) < MaxErased
  /\ \A c \in Call : call[c].who # u
  /\ gone' = gone \cup {u}
  /\ member' = [member EXCEPT ![u] = NoRow]
  /\ UNCHANGED <<creator, invite, call>>

-------------------------------------------------------------------------------
Next ==
  \/ \E u \in User : CreateGroup(u) \/ Purge(u)
  \/ \E c \in Call, u, v \in User, op \in {"setRole", "remove"}, gives \in Granted :
       AskMember(c, u, op, v, gives)
  \/ \E c \in Call : LockTarget(c) \/ ChangeMember(c) \/ GiveUp(c)
  \/ \E i \in Invite, v \in User, role \in Offered : CreateInvite(i, v, role)
  \/ \E u \in User, i \in Invite : Revoke(i) \/ Decline(u, i) \/ AcceptMine(u, i)
  \/ \E c \in Call, u \in User, i \in Invite : MatchToken(c, u, i)
  \/ \E c \in Call : AcceptToken(c)

Spec == Init /\ [][Next]_vars

-------------------------------------------------------------------------------
(* Rows and locals keep their shapes; a row is held by one request at a    *)
(* time, and is active for as long as it is held.                          *)
TypeOK ==
  /\ creator \in User \cup {NoOne}
  /\ member \in [User -> Row]
  /\ invite \in [Invite -> Invites]
  /\ call \in [Call -> Calls]
  /\ gone \subseteq User
  /\ \A c \in Call : call[c].locked =>
       /\ call[c].on \in User /\ member[call[c].on].status = "active"
       /\ \A d \in Call : call[d].locked /\ call[d].on = call[c].on => d = c

(* A group has exactly one owner, its creator, whatever admins, the owner  *)
(* and invited members do to rows and to themselves at once; only the      *)
(* erasure of the owner's account takes that away.                         *)
OwnerStays ==
  creator \in User /\ creator \notin gone => Owners(member) = {creator}

(* Every row came in by one invite of its own, and an accepted invite has  *)
(* its acceptor's row, though the token and the inbox are used at once and *)
(* by different users: one invite never makes two members, and a refused   *)
(* acceptance does not spend it.                                           *)
OneMemberPerInvite ==
  /\ \A u \in User : member[u].status # "none" /\ u # creator =>
       Cardinality({i \in Invite : invite[i].by = u}) = 1
  /\ \A i \in Invite : invite[i].by \in User \ gone =>
       member[invite[i].by].status # "none"

(* The row of the owner or of an admin is changed by nobody but that user, *)
(* the owner, and the erasure of the account, even when the user became an *)
(* admin while a request to change the row was under way.                  *)
HierarchyHolds ==
  [][\A u \in User :
       member[u].status = "active" /\ member[u].role # "member"
         /\ member'[u] # member[u]
       => \/ u \in gone'
          \/ \E c \in Call : /\ call[c].locked /\ call'[c] = NoCall
                             /\ call[c].on = u
                             /\ call[c].self \/ call[c].role = "owner"]_vars

(* A removed member stays out, by whichever of the two ways an invite is   *)
(* accepted.                                                               *)
RemovedStaysOut ==
  [][\A u \in User : member[u].status = "removed" =>
       member'[u].status = "removed" \/ u \in gone']_vars

(* An invite that was accepted stays accepted by that user, and is neither *)
(* revoked nor declined after it, whatever was under way.                  *)
AcceptedIsFinal ==
  [][\A i \in Invite : invite[i].by # NoOne =>
       invite'[i] = invite[i]]_vars

===============================================================================
