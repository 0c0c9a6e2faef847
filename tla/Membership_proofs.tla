--------------------------- MODULE Membership_proofs ---------------------------
(***************************************************************************)
(* Proofs about Membership, for every set of users, requests and invites,  *)
(* every set of roles invites propose and every bound on the erasures.     *)
(*                                                                         *)
(* The invariant says what each guard leaves behind: a group that does not *)
(* exist has nothing, its creator is its owner until erased and nobody     *)
(* else ever is, a request holds only a row its caller outranks, and rows  *)
(* and accepted invites go together one to one.                            *)
(***************************************************************************)
EXTENDS Membership, FiniteSetTheorems, TLAPS

(* No group: no rows, no invites, no requests.                             *)
Unfounded ==
  creator = NoOne =>
    /\ \A u \in User : member[u] = NoRow
    /\ \A i \in Invite : invite[i] = Unmade
    /\ \A c \in Call : call[c] = NoCall
    /\ gone = {}

(* The owner's row, and nobody else's says owner.                          *)
OneOwner ==
  /\ creator \in User /\ creator \notin gone =>
       member[creator].role = "owner" /\ member[creator].status = "active"
  /\ \A u \in User : u # creator => member[u].role # "owner"

(* An erased user has no row and no request that would make one.           *)
Erased ==
  \A u \in gone : member[u] = NoRow /\ \A c \in Call : call[c].who # u

(* What the guards passed so far leave in a request's locals.              *)
CallsHold ==
  \A c \in Call :
    /\ call[c].op = "accept" =>
         /\ call[c].who \in User /\ call[c].inv \in Invite
         /\ invite[call[c].inv].made
    /\ call[c].op \in {"setRole", "remove"} =>
         /\ call[c].on \in User
         /\ call[c].self \/ Manages(call[c].role)
    /\ call[c].locked => call[c].op \in {"setRole", "remove"} /\ Outranks(call[c])

(* Rows other than the creator's and accepted invites, one to one.         *)
InvitesHold ==
  /\ \A i \in Invite : ~invite[i].made => invite[i].by = NoOne
  /\ \A i \in Invite : invite[i].by \in User \ gone =>
       member[invite[i].by].status # "none"
  /\ \A u \in User : member[u].status # "none" /\ u # creator =>
       \E i \in Invite : invite[i].by = u
  /\ \A i, j \in Invite : invite[i].by \in User /\ invite[i].by = invite[j].by
       => i = j

IInv ==
  /\ TypeOK
  /\ Unfounded
  /\ OneOwner
  /\ Erased
  /\ CallsHold
  /\ InvitesHold

-------------------------------------------------------------------------------
(* Who joins by an invite is no creator, has no row and is not erased.     *)
LEMMA JoinerIsNew ==
  ASSUME IInv, NEW u \in User, u \notin gone, Joins(u)
  PROVE  u # creator
BY DEF IInv, OneOwner, Joins

(* A change that leaves an owner is not of the owner's row.                *)
LEMMA OwnerIsNotChanged ==
  ASSUME IInv, NEW c \in Call, ChangeMember(c), creator \notin gone
  PROVE  call[c].on # creator
<1> DEFINE k == call[c]
<1>1. /\ k \in Calls /\ k.on \in User /\ k.op \in {"setRole", "remove"}
      /\ member \in [User -> Row]
  BY DEF IInv, TypeOK, CallsHold, ChangeMember
<1>2. PICK o \in User : After(k)[o].role = "owner" /\ After(k)[o].status = "active"
  BY DEF ChangeMember, HasOwner, Owners
<1>3. k.gives # "owner"
  BY <1>1 DEF Calls, Granted
<1>4. CASE o = k.on
  <2>1. k.op = "setRole" => After(k)[o].role = k.gives
    BY <1>1, <1>4 DEF After, Row
  <2>2. k.op = "remove" => After(k)[o].status = "removed"
    BY <1>1, <1>4 DEF After, Row
  <2>3. QED BY <1>1, <1>2, <1>3, <2>1, <2>2
<1>5. CASE o # k.on
  <2>1. After(k)[o] = member[o]
    BY <1>1, <1>5 DEF After
  <2>2. o = creator
    BY <1>2, <2>1 DEF IInv, OneOwner
  <2>3. QED BY <1>5, <2>2
<1>6. QED BY <1>4, <1>5

(* What a change does to the rows.                                         *)
LEMMA ChangeOfRows ==
  ASSUME IInv, NEW c \in Call, ChangeMember(c)
  PROVE  /\ call[c] \in Calls /\ call[c].on \in User /\ call[c].locked
         /\ member[call[c].on].status = "active"
         /\ \A u \in User : u # call[c].on => member'[u] = member[u]
         /\ member'[call[c].on].role # "owner" \/ member'[call[c].on].role = member[call[c].on].role
         /\ member'[call[c].on].status # "none"
         /\ member' \in [User -> Row]
<1>1. /\ call[c] \in Calls /\ call[c].on \in User /\ call[c].locked
      /\ member[call[c].on].status = "active"
      /\ member \in [User -> Row]
      /\ member' = After(call[c])
  BY DEF IInv, TypeOK, ChangeMember
<1>2. call[c].gives \in Granted
  BY <1>1 DEF Calls
<1>3. CASE call[c].op = "setRole"
  <2>1. member' = [member EXCEPT ![call[c].on].role = call[c].gives]
    BY <1>1, <1>3 DEF After
  <2>2. QED BY <1>1, <1>2, <2>1 DEF Row, Granted, Role
<1>4. CASE call[c].op # "setRole"
  <2>1. member' = [member EXCEPT ![call[c].on].status = "removed"]
    BY <1>1, <1>4 DEF After
  <2>2. QED BY <1>1, <2>1 DEF Row
<1>5. QED BY <1>3, <1>4

-------------------------------------------------------------------------------
(* Type correctness and the invariant the others follow from.              *)
LEMMA InitOK == Init => IInv
BY MembershipAssumption
DEF Init, IInv, TypeOK, Unfounded, OneOwner, Erased, CallsHold, InvitesHold,
    NoRow, NoCall, Unmade, Row, Role, Granted, Invites, Calls

LEMMA CreateGroupKeeps ==
  ASSUME IInv, NEW u \in User, CreateGroup(u)
  PROVE  IInv'
<1>1. /\ \A v \in User : member[v] = NoRow
      /\ \A i \in Invite : invite[i] = Unmade
      /\ \A c \in Call : call[c] = NoCall
      /\ gone = {}
      /\ creator' = u /\ u # NoOne
      /\ member \in [User -> Row]
  BY MembershipAssumption DEF IInv, Unfounded, CreateGroup, TypeOK
<1>2. member' = [member EXCEPT ![u] = [role |-> "owner", status |-> "active"]]
  BY DEF CreateGroup
<1>3. TypeOK'
  BY <1>1, <1>2 DEF IInv, TypeOK, CreateGroup, Row, Role, NoCall
<1>4. Unfounded' /\ Erased' /\ CallsHold'
  BY <1>1 DEF Unfounded, Erased, CallsHold, CreateGroup, NoCall
<1>5. OneOwner'
  BY <1>1, <1>2 DEF OneOwner, CreateGroup, NoRow, Row
<1>6. InvitesHold'
  BY <1>1, <1>2, MembershipAssumption DEF InvitesHold, CreateGroup, NoRow, Unmade, Row
<1>7. QED BY <1>3, <1>4, <1>5, <1>6 DEF IInv

(* A step that leaves rows, invites, creator and erasures alone keeps      *)
(* everything that is not about requests.                                  *)
LEMMA CallsAlone ==
  ASSUME IInv, UNCHANGED <<creator, member, invite, gone>>,
         NEW c \in Call, NEW k \in Calls, call' = [call EXCEPT ![c] = k],
         creator # NoOne \/ k = NoCall,
         k.who \notin gone,
         k.op = "accept" => /\ k.who \in User /\ k.inv \in Invite
                            /\ invite[k.inv].made,
         k.op \in {"setRole", "remove"} =>
           k.on \in User /\ (k.self \/ Manages(k.role)),
         k.locked => /\ k.op \in {"setRole", "remove"} /\ Outranks(k)
                     /\ member[k.on].status = "active"
                     /\ \A d \in Call \ {c} : call[d].locked => call[d].on # k.on
  PROVE  IInv'
<1>1. call \in [Call -> Calls] /\ call'[c] = k /\ \A d \in Call \ {c} : call'[d] = call[d]
  BY DEF IInv, TypeOK
<1>2. TypeOK'
  BY <1>1 DEF IInv, TypeOK
<1>3. Unfounded'
  BY <1>1 DEF IInv, Unfounded
<1>4. OneOwner' /\ InvitesHold'
  BY DEF IInv, OneOwner, InvitesHold
<1>5. Erased'
  BY <1>1 DEF IInv, Erased
<1>6. CallsHold'
  BY <1>1 DEF IInv, CallsHold, Outranks
<1>7. QED BY <1>2, <1>3, <1>4, <1>5, <1>6 DEF IInv

LEMMA AskMemberKeeps ==
  ASSUME IInv, NEW c \in Call, NEW u \in User, NEW v \in User,
         NEW op \in {"setRole", "remove"}, NEW gives \in Granted,
         AskMember(c, u, op, v, gives)
  PROVE  IInv'
<1> DEFINE k == [NoCall EXCEPT !.op = op, !.on = v, !.gives = gives,
                  !.self = (u = v), !.role = IF u = v THEN @ ELSE member[u].role]
<1>1. /\ call' = [call EXCEPT ![c] = k]
      /\ u = v \/ Manages(member[u].role)
      /\ member[u].status = "active" /\ member[u] \in Row
      /\ UNCHANGED <<creator, member, invite, gone>>
  BY DEF AskMember, Authed, IInv, TypeOK
<1>2. creator # NoOne
  BY <1>1 DEF IInv, Unfounded, NoRow
<1>3. /\ k \in Calls
      /\ k.op = op /\ k.on = v /\ k.who = NoOne /\ ~k.locked
      /\ k.self \/ Manages(k.role)
  BY <1>1 DEF Calls, NoCall, Row, Role, Granted
<1>4. NoOne \notin gone
  BY MembershipAssumption DEF IInv, TypeOK
<1>5. QED BY <1>1, <1>2, <1>3, <1>4, CallsAlone

LEMMA GiveUpKeeps ==
  ASSUME IInv, NEW c \in Call, GiveUp(c)
  PROVE  IInv'
<1>1. /\ NoCall \in Calls /\ NoCall.who = NoOne /\ ~NoCall.locked
      /\ NoCall.op = "none"
  BY DEF NoCall, Calls, Role, Granted
<1>2. NoOne \notin gone
  BY MembershipAssumption DEF IInv, TypeOK
<1>3. QED BY <1>1, <1>2, CallsAlone DEF GiveUp

LEMMA LockTargetKeeps ==
  ASSUME IInv, NEW c \in Call, LockTarget(c)
  PROVE  IInv'
<1> DEFINE k == [call[c] EXCEPT !.locked = TRUE]
<1>1. /\ call[c] \in Calls
      /\ call' = [call EXCEPT ![c] = k]
      /\ UNCHANGED <<creator, member, invite, gone>>
  BY DEF LockTarget, IInv, TypeOK
<1>2. /\ k \in Calls /\ k.op = call[c].op /\ k.who = call[c].who /\ k.on = call[c].on
      /\ k.self = call[c].self /\ k.role = call[c].role
  BY <1>1 DEF Calls
<1>3. creator # NoOne
  BY DEF LockTarget, IInv, Unfounded, NoCall
<1>4. k.who \notin gone
  BY <1>2 DEF IInv, Erased
<1>5. /\ k.op \in {"setRole", "remove"} /\ Outranks(k)
      /\ k.self \/ Manages(k.role)
  BY <1>2 DEF LockTarget, IInv, CallsHold, Outranks
<1>6. k.on \in User /\ member[k.on].status = "active"
  BY <1>2 DEF LockTarget, IInv, CallsHold
<1>7. \A d \in Call \ {c} : call[d].locked => call[d].on # k.on
  BY <1>2 DEF LockTarget, Free
<1>8. QED BY <1>1, <1>2, <1>3, <1>4, <1>5, <1>6, <1>7, CallsAlone

(* A change of a row that an admin may not touch, or of anybody's by the   *)
(* owner, leaves the owner an owner and every held row as it is.           *)
LEMMA ChangeMemberKeeps ==
  ASSUME IInv, NEW c \in Call, ChangeMember(c)
  PROVE  IInv'
<1> DEFINE k == call[c]
<1>1. /\ k \in Calls /\ k.on \in User /\ k.locked
      /\ member[k.on].status = "active"
      /\ \A u \in User : u # k.on => member'[u] = member[u]
      /\ member'[k.on].role # "owner" \/ member'[k.on].role = member[k.on].role
      /\ member'[k.on].status # "none"
      /\ member' \in [User -> Row]
  BY ChangeOfRows
<1>2. /\ UNCHANGED <<creator, invite, gone>>
      /\ call' = [call EXCEPT ![c] = NoCall]
      /\ call \in [Call -> Calls]
  BY DEF ChangeMember, IInv, TypeOK
<1>3. /\ call'[c] = NoCall /\ \A d \in Call \ {c} : call'[d] = call[d]
      /\ NoCall \in Calls /\ NoCall.who = NoOne /\ ~NoCall.locked
      /\ NoCall.op = "none"
  BY <1>2 DEF NoCall, Calls, Role, Granted
<1>4. NoOne \notin gone /\ creator # NoOne
  BY <1>1, MembershipAssumption DEF IInv, TypeOK, Unfounded, NoCall
<1>5. \A d \in Call \ {c} : call[d].locked => call[d].on # k.on
  BY <1>1 DEF IInv, TypeOK
<1>6. TypeOK'
  <2>1. call' \in [Call -> Calls]
    BY <1>2, <1>3
  <2>2. ASSUME NEW d \in Call, call'[d].locked
        PROVE  /\ call'[d].on \in User /\ member'[call'[d].on].status = "active"
               /\ \A e \in Call : call'[e].locked /\ call'[e].on = call'[d].on => e = d
    <3>1. d # c /\ call'[d] = call[d]
      BY <1>3, <2>2
    <3>2. QED BY <1>1, <1>3, <1>5, <2>2, <3>1 DEF IInv, TypeOK
  <2>3. QED BY <1>1, <1>2, <2>1, <2>2 DEF IInv, TypeOK
<1>7. Unfounded'
  BY <1>2, <1>4 DEF Unfounded
<1>8. OneOwner'
  BY <1>1, <1>2, OwnerIsNotChanged DEF IInv, OneOwner
<1>9. Erased'
  BY <1>1, <1>2, <1>3, <1>4 DEF IInv, Erased, TypeOK, NoRow
<1>10. CallsHold'
  <2>1. ASSUME NEW d \in Call, call'[d].locked
        PROVE  (call[d].op \in {"setRole", "remove"} /\ Outranks(call[d]))'
    <3>1. /\ call'[d] = call[d] /\ call[d].locked
          /\ call[d].on \in User /\ call[d].on # k.on
      BY <1>3, <1>5, <2>1 DEF IInv, TypeOK
    <3>2. QED BY <1>1, <3>1 DEF IInv, CallsHold, Outranks
  <2>2. QED BY <1>2, <1>3, <2>1 DEF IInv, CallsHold
<1>11. InvitesHold'
  BY <1>1, <1>2 DEF IInv, InvitesHold
<1>12. QED BY <1>6, <1>7, <1>8, <1>9, <1>10, <1>11 DEF IInv

LEMMA CreateInviteKeeps ==
  ASSUME IInv, NEW i \in Invite, NEW v \in User, NEW role \in Offered,
         CreateInvite(i, v, role)
  PROVE  IInv'
<1>1. /\ UNCHANGED <<creator, member, call, gone>> /\ creator # NoOne
      /\ ~invite[i].made /\ invite \in [Invite -> Invites]
      /\ invite' = [invite EXCEPT ![i] =
           [Unmade EXCEPT !.made = TRUE, !.to = v, !.role = role]]
  BY DEF CreateInvite, IInv, TypeOK
<1>2. /\ invite' \in [Invite -> Invites]
      /\ invite'[i].by = NoOne /\ invite'[i].made
      /\ \A j \in Invite \ {i} : invite'[j] = invite[j]
      /\ invite[i].by = NoOne
  BY <1>1, MembershipAssumption
  DEF Invites, Unmade, Granted, Role, IInv, InvitesHold
<1>3. TypeOK' /\ Unfounded' /\ OneOwner' /\ Erased'
  BY <1>1, <1>2 DEF IInv, TypeOK, Unfounded, OneOwner, Erased
<1>4. CallsHold'
  BY <1>1, <1>2 DEF IInv, CallsHold, Outranks
<1>5. InvitesHold'
  BY <1>1, <1>2, MembershipAssumption DEF IInv, InvitesHold
<1>6. QED BY <1>3, <1>4, <1>5 DEF IInv

(* Withdrawing an invite touches nothing but the mark on it.               *)
LEMMA WithdrawKeeps ==
  ASSUME IInv, NEW i \in Invite, invite[i].made,
         invite' = [invite EXCEPT ![i].withdrawn = TRUE],
         UNCHANGED <<creator, member, call, gone>>
  PROVE  IInv'
<1>1. /\ invite \in [Invite -> Invites]
      /\ invite' \in [Invite -> Invites]
      /\ invite'[i].by = invite[i].by /\ invite'[i].made
      /\ \A j \in Invite \ {i} : invite'[j] = invite[j]
  BY DEF IInv, TypeOK, Invites
<1>2. \A j \in Invite : /\ invite'[j].by = invite[j].by
                        /\ invite'[j].made = invite[j].made
  BY <1>1
<1>3. creator # NoOne
  BY DEF IInv, Unfounded, Unmade
<1>4. TypeOK' /\ Unfounded' /\ OneOwner' /\ Erased'
  BY <1>1, <1>3 DEF IInv, TypeOK, Unfounded, OneOwner, Erased
<1>5. CallsHold'
  BY <1>2 DEF IInv, CallsHold, Outranks
<1>6. InvitesHold'
  BY <1>2 DEF IInv, InvitesHold
<1>7. QED BY <1>4, <1>5, <1>6 DEF IInv

(* An accepted invite and its acceptor's row come together.                *)
LEMMA JoinKeeps ==
  ASSUME IInv, NEW u \in User, NEW i \in Invite, u \notin gone,
         invite[i].made, invite[i].by = NoOne, Joins(u), Join(u, i),
         NEW calls \in [Call -> Calls], call' = calls,
         \A c \in Call : calls[c] = call[c] \/ calls[c] = NoCall,
         UNCHANGED <<creator, gone>>
  PROVE  IInv'
<1>1. /\ u # creator /\ creator # NoOne /\ u # NoOne
      /\ member[u].status = "none"
      /\ member \in [User -> Row] /\ invite \in [Invite -> Invites]
  BY JoinerIsNew, MembershipAssumption DEF IInv, TypeOK, Unfounded, Unmade, Joins
<1>2. /\ member' \in [User -> Row]
      /\ member'[u].status = "active" /\ member'[u].role # "owner"
      /\ \A v \in User \ {u} : member'[v] = member[v]
  <2>1. invite[i].role \in Granted
    BY <1>1 DEF Invites
  <2>2. QED BY <1>1, <2>1 DEF Join, Row, Granted, Role
<1>3. /\ invite' \in [Invite -> Invites]
      /\ invite'[i].by = u /\ invite'[i].made
      /\ \A j \in Invite \ {i} : invite'[j] = invite[j]
  BY <1>1 DEF Join, Invites
<1>4. \A c \in Call : call'[c].locked =>
        /\ call'[c] = call[c] /\ call[c].on \in User /\ call[c].on # u
  BY <1>1 DEF IInv, TypeOK, NoCall
<1>5. TypeOK'
  BY <1>2, <1>3, <1>4 DEF IInv, TypeOK
<1>6. Unfounded' /\ OneOwner'
  BY <1>1, <1>2 DEF IInv, Unfounded, OneOwner
<1>7. Erased'
  <2>1. ASSUME NEW v \in gone
        PROVE  member'[v] = NoRow /\ \A c \in Call : call'[c].who # v
    <3>1. v \in User /\ v # u /\ v # NoOne
      BY <2>1, MembershipAssumption DEF IInv, TypeOK
    <3>2. QED BY <1>2, <2>1, <3>1 DEF IInv, Erased, NoCall
  <2>2. QED BY <2>1 DEF Erased
<1>8. CallsHold'
  <2>1. ASSUME NEW c \in Call, call'[c].locked
        PROVE  (call[c].op \in {"setRole", "remove"} /\ Outranks(call[c]))'
    BY <1>2, <1>4, <2>1 DEF IInv, CallsHold, Outranks
  <2>2. \A j \in Invite : invite[j].made => invite'[j].made
    BY <1>3
  <2>3. QED BY <2>1, <2>2 DEF IInv, CallsHold, NoCall
<1>9. InvitesHold'
  <2>1. \A j \in Invite \ {i} : invite[j].by # u
    BY <1>1 DEF IInv, InvitesHold
  <2>2. \A j \in Invite : ~invite'[j].made => invite'[j].by = NoOne
    BY <1>3 DEF IInv, InvitesHold
  <2>3. \A j \in Invite : invite'[j].by \in User \ gone =>
          member'[invite'[j].by].status # "none"
    BY <1>2, <1>3, <2>1 DEF IInv, InvitesHold
  <2>4. \A v \in User : member'[v].status # "none" /\ v # creator =>
          \E j \in Invite : invite'[j].by = v
    <3>1. ASSUME NEW v \in User \ {u}, member'[v].status # "none", v # creator
          PROVE  \E j \in Invite : invite'[j].by = v
      <4>1. PICK j \in Invite : invite[j].by = v
        BY <1>2, <3>1 DEF IInv, InvitesHold
      <4>2. j # i
        BY <1>1, <3>1, <4>1, MembershipAssumption
      <4>3. QED BY <1>3, <4>1, <4>2
    <3>2. QED BY <1>3, <3>1
  <2>5. \A j, k \in Invite :
          invite'[j].by \in User /\ invite'[j].by = invite'[k].by => j = k
    BY <1>3, <2>1 DEF IInv, InvitesHold
  <2>6. QED BY <2>2, <2>3, <2>4, <2>5 DEF InvitesHold, Join
<1>10. QED BY <1>5, <1>6, <1>7, <1>8, <1>9 DEF IInv

LEMMA AcceptMineKeeps ==
  ASSUME IInv, NEW u \in User, NEW i \in Invite, AcceptMine(u, i)
  PROVE  IInv'
<1>1. call \in [Call -> Calls] /\ call' = call
  BY DEF AcceptMine, IInv, TypeOK
<1>2. QED BY <1>1, JoinKeeps DEF AcceptMine, Open

LEMMA MatchTokenKeeps ==
  ASSUME IInv, NEW c \in Call, NEW u \in User, NEW i \in Invite,
         MatchToken(c, u, i)
  PROVE  IInv'
<1> DEFINE k == [NoCall EXCEPT !.op = "accept", !.who = u, !.inv = i]
<1>1. /\ k \in Calls /\ k.op = "accept" /\ k.who = u /\ k.inv = i /\ ~k.locked
  BY DEF NoCall, Calls, Role, Granted
<1>2. creator # NoOne
  BY DEF MatchToken, IInv, Unfounded, Unmade
<1>3. /\ call' = [call EXCEPT ![c] = k] /\ u \notin gone /\ invite[i].made
      /\ UNCHANGED <<creator, member, invite, gone>>
  BY DEF MatchToken
<1>4. QED BY <1>1, <1>2, <1>3, CallsAlone

LEMMA AcceptTokenKeeps ==
  ASSUME IInv, NEW c \in Call, AcceptToken(c)
  PROVE  IInv'
<1> DEFINE u == call[c].who
           i == call[c].inv
<1>1. /\ u \in User /\ i \in Invite /\ invite[i].made
      /\ invite[i].by = NoOne /\ u \notin gone /\ Joins(u) /\ Join(u, i)
  BY DEF AcceptToken, Unaccepted, IInv, CallsHold, Erased
<1>2. /\ call' = [call EXCEPT ![c] = NoCall]
      /\ call' \in [Call -> Calls]
      /\ \A d \in Call : call'[d] = call[d] \/ call'[d] = NoCall
      /\ UNCHANGED <<creator, gone>>
  BY DEF AcceptToken, IInv, TypeOK, NoCall, Calls, Role, Granted
<1>3. QED BY <1>1, <1>2, JoinKeeps

LEMMA PurgeKeeps ==
  ASSUME IInv, NEW u \in User, Purge(u)
  PROVE  IInv'
<1>1. /\ member' = [member EXCEPT ![u] = NoRow] /\ gone' = gone \cup {u}
      /\ member[u].status # "none"
      /\ UNCHANGED <<creator, invite, call>>
      /\ member \in [User -> Row] /\ NoRow \in Row
      /\ \A c \in Call : call[c].who # u
  BY DEF Purge, IInv, TypeOK, NoRow, Row, Role
<1>2. /\ member'[u] = NoRow /\ member' \in [User -> Row]
      /\ \A v \in User \ {u} : member'[v] = member[v]
      /\ NoRow.role = "member" /\ NoRow.status = "none"
  BY <1>1 DEF NoRow
<1>3. \A c \in Call : call[c].locked => call[c].on \in User /\ call[c].on # u
  BY DEF Purge, Free, IInv, TypeOK
<1>4. creator # NoOne
  BY <1>1 DEF IInv, Unfounded, NoRow
<1>5. TypeOK'
  BY <1>1, <1>2, <1>3 DEF IInv, TypeOK
<1>6. Unfounded' /\ OneOwner'
  BY <1>1, <1>2, <1>4 DEF IInv, Unfounded, OneOwner, TypeOK
<1>7. Erased'
  BY <1>1, <1>2 DEF IInv, Erased, TypeOK
<1>8. CallsHold'
  <2>1. ASSUME NEW c \in Call, call'[c].locked
        PROVE  Outranks(call[c])'
    BY <1>1, <1>2, <1>3, <2>1 DEF IInv, CallsHold, Outranks
  <2>2. QED BY <1>1, <2>1 DEF IInv, CallsHold
<1>9. InvitesHold'
  BY <1>1, <1>2 DEF IInv, InvitesHold
<1>10. QED BY <1>5, <1>6, <1>7, <1>8, <1>9 DEF IInv

-------------------------------------------------------------------------------
(* The invariant holds in every reachable state.                           *)
LEMMA Invariant == Spec => []IInv
<1>1. Init => IInv
  BY InitOK
<1>2. IInv /\ [Next]_vars => IInv'
  <2> SUFFICES ASSUME IInv, [Next]_vars PROVE IInv'
    OBVIOUS
  <2>1. ASSUME NEW u \in User, CreateGroup(u) \/ Purge(u)
        PROVE  IInv'
    BY <2>1, CreateGroupKeeps, PurgeKeeps
  <2>2. ASSUME NEW c \in Call, NEW u \in User, NEW v \in User,
               NEW op \in {"setRole", "remove"}, NEW gives \in Granted,
               AskMember(c, u, op, v, gives)
        PROVE  IInv'
    BY <2>2, AskMemberKeeps
  <2>3. ASSUME NEW c \in Call, LockTarget(c) \/ ChangeMember(c) \/ GiveUp(c)
        PROVE  IInv'
    BY <2>3, LockTargetKeeps, ChangeMemberKeeps, GiveUpKeeps
  <2>4. ASSUME NEW i \in Invite, NEW v \in User, NEW role \in Offered,
               CreateInvite(i, v, role)
        PROVE  IInv'
    BY <2>4, CreateInviteKeeps
  <2>5. ASSUME NEW u \in User, NEW i \in Invite, Revoke(i) \/ Decline(u, i)
        PROVE  IInv'
    BY <2>5, WithdrawKeeps DEF Revoke, Decline
  <2>6. ASSUME NEW u \in User, NEW i \in Invite, AcceptMine(u, i)
        PROVE  IInv'
    BY <2>6, AcceptMineKeeps
  <2>7. ASSUME NEW c \in Call, NEW u \in User, NEW i \in Invite, MatchToken(c, u, i)
        PROVE  IInv'
    BY <2>7, MatchTokenKeeps
  <2>8. ASSUME NEW c \in Call, AcceptToken(c)
        PROVE  IInv'
    BY <2>8, AcceptTokenKeeps
  <2>9. CASE UNCHANGED vars
    BY <2>9 DEF vars, IInv, TypeOK, Unfounded, OneOwner, Erased, CallsHold,
                InvitesHold, Outranks
  <2>10. QED
    BY <2>1, <2>2, <2>3, <2>4, <2>5, <2>6, <2>7, <2>8, <2>9 DEF Next
<1>3. QED BY <1>1, <1>2, PTL DEF Spec

(* Rows, invites and requests keep their shapes, and a row is held by one  *)
(* request at a time and is active while it is held.                       *)
THEOREM TypeCorrect == Spec => []TypeOK
<1>1. IInv => TypeOK
  BY DEF IInv
<1>2. QED BY <1>1, Invariant, PTL

(* The creator is the one owner until that account is erased.              *)
THEOREM OwnerAlwaysStays == Spec => []OwnerStays
<1>1. IInv => OwnerStays
  BY DEF IInv, OneOwner, OwnerStays, Owners
<1>2. QED BY <1>1, Invariant, PTL

(* Rows that are not the creator's and accepted invites, one to one.       *)
THEOREM InvitesMakeOneMember == Spec => []OneMemberPerInvite
<1>1. IInv => OneMemberPerInvite
  <2> SUFFICES ASSUME IInv PROVE OneMemberPerInvite
    OBVIOUS
  <2>1. ASSUME NEW u \in User, member[u].status # "none", u # creator
        PROVE  Cardinality({i \in Invite : invite[i].by = u}) = 1
    <3>1. PICK i \in Invite : invite[i].by = u
      BY <2>1 DEF IInv, InvitesHold
    <3>2. {j \in Invite : invite[j].by = u} = {i}
      BY <3>1 DEF IInv, InvitesHold
    <3>3. QED BY <3>2, FS_Singleton
  <2>2. QED BY <2>1 DEF IInv, InvitesHold, OneMemberPerInvite
<1>2. QED BY <1>1, Invariant, PTL

-------------------------------------------------------------------------------
(* Only a change, a join, an erasure or the group's creation touches rows. *)
LEMMA WhoTouchesRows ==
  ASSUME IInv, Next, NEW u \in User, member'[u] # member[u],
         member[u].status # "none", u \notin gone'
  PROVE  \E c \in Call : ChangeMember(c) /\ call[c].on = u
<1>1. ASSUME NEW v \in User, CreateGroup(v)
      PROVE  FALSE
  BY <1>1 DEF CreateGroup, IInv, Unfounded, NoRow
<1>2. ASSUME NEW v \in User, Purge(v)
      PROVE  FALSE
  BY <1>2 DEF Purge, IInv, TypeOK
<1>3. ASSUME NEW v \in User, NEW i \in Invite, Joins(v), Join(v, i)
      PROVE  FALSE
  BY <1>3 DEF Joins, Join, IInv, TypeOK
<1>4. ASSUME NEW v \in User, NEW i \in Invite, AcceptMine(v, i)
      PROVE  FALSE
  BY <1>3, <1>4 DEF AcceptMine
<1>5. ASSUME NEW c \in Call, AcceptToken(c)
      PROVE  FALSE
  <2>1. call[c].who \in User /\ call[c].inv \in Invite
    BY <1>5 DEF AcceptToken, IInv, CallsHold
  <2>2. QED BY <1>3, <1>5, <2>1 DEF AcceptToken
<1>6. ASSUME NEW c \in Call, ChangeMember(c)
      PROVE  call[c].on = u
  BY <1>6, ChangeOfRows
<1>7. member' # member
  OBVIOUS
<1>8. QED
  BY <1>1, <1>2, <1>4, <1>5, <1>6, <1>7
  DEF Next, AskMember, LockTarget, GiveUp, CreateInvite, Revoke, Decline, MatchToken

(* Rows of the owner and of admins are changed only by who may.            *)
THEOREM HierarchyAlwaysHolds == Spec => HierarchyHolds
<1>1. ASSUME IInv, [Next]_vars, NEW u \in User,
             member[u].status = "active", member[u].role # "member",
             member'[u] # member[u], u \notin gone'
      PROVE  \E c \in Call : /\ call[c].locked /\ call'[c] = NoCall
                             /\ call[c].on = u
                             /\ call[c].self \/ call[c].role = "owner"
  <2>1. Next
    BY <1>1 DEF vars
  <2>2. PICK c \in Call : ChangeMember(c) /\ call[c].on = u
    BY <1>1, <2>1, WhoTouchesRows
  <2>3. call[c].locked /\ call[c].op \in {"setRole", "remove"} /\ Outranks(call[c])
    BY <1>1, <2>2 DEF ChangeMember, IInv, CallsHold
  <2>4. call'[c] = NoCall
    BY <1>1, <2>2 DEF ChangeMember, IInv, TypeOK
  <2>5. call[c].self \/ call[c].role = "owner"
    BY <1>1, <2>2, <2>3 DEF Outranks, IInv, CallsHold, Manages
  <2>6. QED BY <2>2, <2>3, <2>4, <2>5
<1>2. IInv /\ [Next]_vars =>
        [\A u \in User :
           member[u].status = "active" /\ member[u].role # "member"
             /\ member'[u] # member[u]
           => \/ u \in gone'
              \/ \E c \in Call : /\ call[c].locked /\ call'[c] = NoCall
                                 /\ call[c].on = u
                                 /\ call[c].self \/ call[c].role = "owner"]_vars
  BY <1>1
<1>3. QED BY <1>2, Invariant, PTL DEF Spec, HierarchyHolds

(* A removed member stays out.                                             *)
THEOREM RemovedAlwaysStaysOut == Spec => RemovedStaysOut
<1>1. ASSUME IInv, [Next]_vars, NEW u \in User, member[u].status = "removed",
             u \notin gone'
      PROVE  member'[u].status = "removed"
  <2>1. CASE member'[u] = member[u]
    BY <1>1, <2>1
  <2>2. CASE member'[u] # member[u]
    <3>1. Next
      BY <1>1, <2>2 DEF vars
    <3>2. PICK c \in Call : ChangeMember(c) /\ call[c].on = u
      BY <1>1, <2>2, <3>1, WhoTouchesRows
    <3>3. member[u].status = "active"
      BY <1>1, <3>2, ChangeOfRows
    <3>4. QED BY <1>1, <3>3
  <2>3. QED BY <2>1, <2>2
<1>2. IInv /\ [Next]_vars =>
        [\A u \in User : member[u].status = "removed" =>
           member'[u].status = "removed" \/ u \in gone']_vars
  BY <1>1
<1>3. QED BY <1>2, Invariant, PTL DEF Spec, RemovedStaysOut

(* An accepted invite is never touched again.                              *)
THEOREM AcceptedIsAlwaysFinal == Spec => AcceptedIsFinal
<1>1. ASSUME IInv, [Next]_vars, NEW i \in Invite, invite[i].by # NoOne
      PROVE  invite'[i] = invite[i]
  <2>1. ASSUME NEW j \in Invite, NEW v \in User, NEW role \in Offered,
               CreateInvite(j, v, role)
        PROVE  invite'[i] = invite[i]
    BY <1>1, <2>1 DEF CreateInvite, IInv, TypeOK, InvitesHold
  <2>2. ASSUME NEW u \in User, NEW j \in Invite, Revoke(j) \/ Decline(u, j)
        PROVE  invite'[i] = invite[i]
    BY <1>1, <2>2 DEF Revoke, Decline, Open, IInv, TypeOK
  <2>3. ASSUME NEW u \in User, NEW j \in Invite, AcceptMine(u, j)
        PROVE  invite'[i] = invite[i]
    BY <1>1, <2>3 DEF AcceptMine, Open, Join, IInv, TypeOK
  <2>4. ASSUME NEW c \in Call, AcceptToken(c)
        PROVE  invite'[i] = invite[i]
    BY <1>1, <2>4 DEF AcceptToken, Unaccepted, Join, IInv, TypeOK
  <2>5. CASE UNCHANGED invite
    BY <2>5
  <2>6. QED
    BY <1>1, <2>1, <2>2, <2>3, <2>4, <2>5
    DEF Next, vars, CreateGroup, Purge, AskMember, LockTarget, ChangeMember,
        GiveUp, MatchToken
<1>2. IInv /\ [Next]_vars =>
        [\A i \in Invite : invite[i].by # NoOne => invite'[i] = invite[i]]_vars
  BY <1>1
<1>3. QED BY <1>2, Invariant, PTL DEF Spec, AcceptedIsFinal

===============================================================================
