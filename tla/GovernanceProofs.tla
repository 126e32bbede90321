-------------------------- MODULE GovernanceProofs --------------------------
(***************************************************************************)
(* Proofs about who governs a company and what it is charged: modules      *)
(* Membership, for any number of people, machines, invitations and own     *)
(* roles, any roles that are tried, and trails of any length; and Billing, *)
(* for any number of overlapping runs, workers, people, subscriptions and  *)
(* deliveries, any prices, days, rates and ways to remind.                 *)
(***************************************************************************)
EXTENDS Membership, Billing, FiniteSums, TLAPS

(***************************************************************************)
(* Types.  A row is written with a role, and never taken away again.       *)
(***************************************************************************)
Named == Role \cup OwnRole

Row == {NoRow} \cup [role : Named, active : BOOLEAN]

Entry == [change : {"lagt_til", "rolle_endret", "deaktivert", "reaktivert"},
          from : Named \cup {NoRole}, to : Named]

Invited == [status : {"open", "accepted", "revoked"}, org : Org, to : Human,
            role : Named, carries : BOOLEAN]

RowTypes ==
    /\ member \in [Org -> [Human -> Row]]
    /\ changes \in [Org -> [Human -> Seq(Entry)]]

OtherTypes ==
    /\ invitation \in [Invite -> {NoInvite} \cup Invited]
    /\ linked \in Human \cup {NotLinked}
    /\ ownRole \in [OwnRole -> [rights : SUBSET {right \in Right : Delegable(right)},
                                active : BOOLEAN, created : BOOLEAN]]
    /\ engagement \in [pending : BOOLEAN, open : BOOLEAN]
    /\ grant \in [Robot -> Role \cup OwnRole \cup {NoRole}]
    /\ platformRole \in [Human -> SUBSET {"systemadmin", "support"}]
    /\ cleared \in [Human -> {"none", "member", "firm", "systemadmin", "support"}]
    /\ onboarding \in {"none", "created", "done", "failed"}
    /\ demoted \subseteq Org

LEMMA TypesFit == RowTypes /\ OtherTypes => TypeOKMembership
<1> SUFFICES ASSUME RowTypes, OtherTypes PROVE TypeOKMembership
  OBVIOUS
<1>1. Row \subseteq [role : Role \cup OwnRole \cup {NoRole}, active : BOOLEAN]
  <2>1. NoRow \in [role : Role \cup OwnRole \cup {NoRole}, active : BOOLEAN]
    BY DEF NoRow
  <2>2. [role : Named, active : BOOLEAN]
           \subseteq [role : Role \cup OwnRole \cup {NoRole}, active : BOOLEAN]
    BY DEF Named
  <2> QED
    BY <2>1, <2>2 DEF Row
<1>2. member \in [Org -> [Human -> [role : Role \cup OwnRole \cup {NoRole}, active : BOOLEAN]]]
  BY <1>1 DEF RowTypes
<1>3. \A i \in Invite : invitation[i].status \in {"none", "open", "accepted", "revoked"}
  BY DEF OtherTypes, Invited, NoInvite
<1> QED
  BY <1>2, <1>3 DEF OtherTypes, TypeOKMembership

LEMMA NoRoleIsNoName == NoRole \notin Named /\ NoRow \notin [role : Named, active : BOOLEAN]
<1>1. NoRole \notin Named
  BY MembershipAssumption DEF Named, Role, NoRole
<1>2. NoRow.role = NoRole
  BY DEF NoRow
<1> QED
  BY <1>1, <1>2

\* What a row that is written leaves, of itself and of the others.
LEMMA PutTyped ==
  ASSUME member \in [Org -> [Human -> Row]], NEW o \in Org, NEW q \in Human,
         NEW role \in Named, NEW active \in BOOLEAN, Put(o, q, role, active)
  PROVE  /\ member' \in [Org -> [Human -> Row]]
         /\ member'[o][q] = [role |-> role, active |-> active]
         /\ member'[o][q] # NoRow
         /\ \A u \in Org, p \in Human : u # o \/ p # q => member'[u][p] = member[u][p]
<1> DEFINE R == [role |-> role, active |-> active]
<1>1. R \in Row /\ R # NoRow
  BY NoRoleIsNoName DEF Row
<1>2. member' = [member EXCEPT ![o] = [member[o] EXCEPT ![q] = R]]
  BY DEF Put
<1>3. [member[o] EXCEPT ![q] = R] \in [Human -> Row]
  BY <1>1
<1> HIDE DEF R
<1> QED
  BY <1>1, <1>2, <1>3 DEF R

\* What a row of the trail leaves.
LEMMA LogTyped ==
  ASSUME changes \in [Org -> [Human -> Seq(Entry)]], NEW o \in Org, NEW q \in Human,
         NEW e \in Entry, Log(o, q, e.change, e.from, e.to)
  PROVE  /\ changes' \in [Org -> [Human -> Seq(Entry)]]
         /\ changes'[o][q] = Append(changes[o][q], e)
         /\ \A u \in Org, p \in Human : u # o \/ p # q => changes'[u][p] = changes[u][p]
<1>1. e = [change |-> e.change, from |-> e.from, to |-> e.to]
  BY DEF Entry
<1>2. changes' = [changes EXCEPT ![o] = [changes[o] EXCEPT ![q] = Append(changes[o][q], e)]]
  BY <1>1 DEF Log
<1>3. Append(changes[o][q], e) \in Seq(Entry)
  OBVIOUS
<1>4. [changes[o] EXCEPT ![q] = Append(changes[o][q], e)] \in [Human -> Seq(Entry)]
  BY <1>3
<1> QED
  BY <1>2, <1>3, <1>4

-----------------------------------------------------------------------------
(***************************************************************************)
(* Every change of a membership is one row and one line of its trail, but  *)
(* for the founder's, which begins without a line.                         *)
(***************************************************************************)
Quiet == UNCHANGED << member, changes >>

FounderEnters ==
    /\ member[Company][Founder] = NoRow
    /\ Put(Company, Founder, "admin", TRUE)
    /\ UNCHANGED changes

\* Which change a row goes through is told by where it stood and where it ends.
Recorded(o, q, change, role, active) ==
    /\ Put(o, q, role, active)
    /\ Log(o, q, change, member[o][q].role, role)
    /\ \/ change = "lagt_til" /\ member[o][q] = NoRow /\ active
       \/ change = "rolle_endret" /\ member[o][q].active /\ active
       \/ change = "deaktivert" /\ member[o][q].active /\ ~ active
       \/ change = "reaktivert" /\ member[o][q] # NoRow /\ ~ member[o][q].active /\ active

RowStep ==
    \/ Quiet
    \/ FounderEnters
    \/ \E o \in Org, q \in Human, role \in Named, active \in BOOLEAN,
          change \in {"lagt_til", "rolle_endret", "deaktivert", "reaktivert"} :
             Recorded(o, q, change, role, active)

\* What the trail of one membership tells, of every line and of the row that stands.
Told(o, p) ==
    LET t == changes[o][p]
        founder == o = Company /\ p = Founder
    IN
    /\ \A i \in 2..Len(t) :
          /\ t[i].from = t[i-1].to
          /\ t[i].change = "reaktivert" <=> t[i-1].change = "deaktivert"
          /\ t[i].change # "lagt_til"
    /\ t # << >> =>
          /\ t[1].change = "lagt_til" \/ (founder /\ t[1].from = "admin")
          /\ member[o][p] = [role |-> t[Len(t)].to, active |-> t[Len(t)].change # "deaktivert"]
    /\ t = << >> =>
          member[o][p] = NoRow \/ (founder /\ member[o][p] = [role |-> "admin", active |-> TRUE])

AllTold == \A o \in Org, p \in Human : Told(o, p)

\* A membership with a trail has a row.
LEMMA TrailHasRow ==
  ASSUME RowTypes, NEW o \in Org, NEW p \in Human, Told(o, p), changes[o][p] # << >>
  PROVE  member[o][p] # NoRow
<1> DEFINE t == changes[o][p]
<1>1. t \in Seq(Entry) /\ Len(t) \in 1..Len(t)
  BY DEF RowTypes
<1>2. t[Len(t)] \in Entry
  BY <1>1
<1>3. t[Len(t)].to # NoRole
  BY <1>2, NoRoleIsNoName DEF Entry
<1>4. member[o][p].role = t[Len(t)].to
  BY DEF Told
<1> QED
  BY <1>3, <1>4 DEF NoRow

LEMMA EntersTold ==
  ASSUME RowTypes, AllTold, FounderEnters
  PROVE  RowTypes' /\ AllTold'
<1>1. Company \in Org /\ Founder \in Human /\ "admin" \in Named
  BY MembershipAssumption DEF Org, Named, Role
<1>2. /\ member' \in [Org -> [Human -> Row]]
      /\ member'[Company][Founder] = [role |-> "admin", active |-> TRUE]
      /\ \A u \in Org, p \in Human : u # Company \/ p # Founder => member'[u][p] = member[u][p]
  BY <1>1, PutTyped DEF RowTypes, FounderEnters
<1>3. changes[Company][Founder] = << >>
  BY <1>1, TrailHasRow DEF FounderEnters, AllTold
<1>4. Told(Company, Founder)'
  BY <1>2, <1>3 DEF Told, FounderEnters, RowTypes
<1>5. ASSUME NEW o \in Org, NEW p \in Human, o # Company \/ p # Founder
      PROVE  Told(o, p)'
  <2>1. member'[o][p] = member[o][p] /\ changes' = changes
    BY <1>2, <1>5 DEF FounderEnters
  <2> QED
    BY <2>1 DEF AllTold, Told
<1> QED
  BY <1>2, <1>4, <1>5 DEF AllTold, RowTypes, FounderEnters

LEMMA RecordedTold ==
  ASSUME RowTypes, AllTold, NEW o \in Org, NEW q \in Human, NEW role \in Named,
         NEW active \in BOOLEAN,
         NEW change \in {"lagt_til", "rolle_endret", "deaktivert", "reaktivert"},
         Recorded(o, q, change, role, active)
  PROVE  RowTypes' /\ AllTold'
<1> DEFINE e == [change |-> change, from |-> member[o][q].role, to |-> role]
           t == changes[o][q]
           founder == o = Company /\ q = Founder
<1>1. e \in Entry
  BY DEF RowTypes, Row, NoRow, Entry
<1>2. /\ member' \in [Org -> [Human -> Row]]
      /\ member'[o][q] = [role |-> role, active |-> active]
      /\ \A u \in Org, p \in Human : u # o \/ p # q => member'[u][p] = member[u][p]
  BY PutTyped DEF RowTypes, Recorded
<1>3. Log(o, q, e.change, e.from, e.to)
  BY DEF Recorded
<1>4. /\ changes' \in [Org -> [Human -> Seq(Entry)]]
      /\ changes'[o][q] = Append(t, e)
      /\ \A u \in Org, p \in Human : u # o \/ p # q => changes'[u][p] = changes[u][p]
  BY <1>1, <1>3, LogTyped DEF RowTypes
<1>5. t \in Seq(Entry) /\ Told(o, q)
  BY DEF RowTypes, AllTold
<1>6. active <=> change # "deaktivert"
  BY DEF Recorded
<1>7. Told(o, q)'
  <2>1. CASE t = << >>
    <3>1. changes'[o][q] = << e >>
      BY <1>4, <2>1
    <3>2. member[o][q] = NoRow \/ (founder /\ member[o][q] = [role |-> "admin", active |-> TRUE])
      BY <1>5, <2>1 DEF Told
    <3>3. change = "lagt_til" \/ (founder /\ e.from = "admin")
      BY <3>2 DEF Recorded, NoRow
    <3> QED
      BY <1>2, <1>6, <3>1, <3>3 DEF Told
  <2>2. CASE t # << >>
    <3> DEFINE n == Len(t)
    <3>1. n \in Nat /\ n >= 1 /\ t[n] \in Entry
      BY <1>5, <2>2
    <3>2. /\ Len(Append(t, e)) = n + 1 /\ Append(t, e)[n + 1] = e
          /\ \A i \in 1..n : Append(t, e)[i] = t[i]
      BY <1>5, <3>1
    <3>3. /\ member[o][q] = [role |-> t[n].to, active |-> t[n].change # "deaktivert"]
          /\ member[o][q] # NoRow
      BY <1>5, <2>2, TrailHasRow DEF Told
    <3>4. /\ e.from = t[n].to
          /\ e.change = "reaktivert" <=> t[n].change = "deaktivert"
          /\ e.change # "lagt_til"
      <4> DEFINE stands == t[n].change # "deaktivert"
      <4>1. member[o][q].role = t[n].to /\ member[o][q].active = stands
        <5> HIDE DEF stands
        <5> QED
          BY <3>3 DEF stands
      <4>2. /\ change = "reaktivert" <=> ~ member[o][q].active
            /\ change # "lagt_til"
        BY <3>3 DEF Recorded
      <4> QED
        BY <4>1, <4>2 DEF stands
    <3>5. ASSUME NEW i \in 2..(n + 1)
          PROVE  LET u == Append(t, e) IN
                   /\ u[i].from = u[i-1].to
                   /\ u[i].change = "reaktivert" <=> u[i-1].change = "deaktivert"
                   /\ u[i].change # "lagt_til"
      <4>1. CASE i = n + 1
        BY <3>1, <3>2, <3>4, <4>1
      <4>2. CASE i \in 2..n
        BY <1>5, <3>1, <3>2, <4>2 DEF Told
      <4> QED
        BY <3>1, <4>1, <4>2
    <3>6. /\ Append(t, e)[1] = t[1] /\ Append(t, e) # << >>
          /\ t[1].change = "lagt_til" \/ (founder /\ t[1].from = "admin")
      BY <1>5, <2>2, <3>1, <3>2 DEF Told
    <3>7. \A i \in 2..Len(Append(t, e)) : LET u == Append(t, e) IN
             /\ u[i].from = u[i-1].to
             /\ u[i].change = "reaktivert" <=> u[i-1].change = "deaktivert"
             /\ u[i].change # "lagt_til"
      BY <3>2, <3>5
    <3>8. LET u == Append(t, e) IN
            member'[o][q] = [role |-> u[Len(u)].to, active |-> u[Len(u)].change # "deaktivert"]
      BY <1>2, <1>6, <3>2
    <3>9. changes'[o][q] = Append(t, e)
      BY <1>4
    <3>10. PICK u : u = Append(t, e)
      OBVIOUS
    <3>11. /\ changes'[o][q] = u /\ u # << >>
           /\ member'[o][q] = [role |-> u[Len(u)].to, active |-> u[Len(u)].change # "deaktivert"]
           /\ u[1].change = "lagt_til" \/ (founder /\ u[1].from = "admin")
           /\ \A i \in 2..Len(u) : /\ u[i].from = u[i-1].to
                                   /\ u[i].change = "reaktivert" <=> u[i-1].change = "deaktivert"
                                   /\ u[i].change # "lagt_til"
      BY <3>6, <3>7, <3>8, <3>9, <3>10
    <3> QED
      BY <3>11 DEF Told
  <2> QED
    BY <2>1, <2>2
<1>8. ASSUME NEW u \in Org, NEW p \in Human, u # o \/ p # q
      PROVE  Told(u, p)'
  <2>1. member'[u][p] = member[u][p] /\ changes'[u][p] = changes[u][p]
    BY <1>2, <1>4, <1>8
  <2> QED
    BY <2>1 DEF AllTold, Told
<1> QED
  BY <1>2, <1>4, <1>7, <1>8 DEF AllTold, RowTypes

\* Whichever step changes a membership, the trails tell of it.
LEMMA RowStepTold == ASSUME RowTypes, AllTold, RowStep PROVE RowTypes' /\ AllTold'
<1>1. CASE Quiet
  BY <1>1 DEF Quiet, RowTypes, AllTold, Told
<1> QED
  BY <1>1, EntersTold, RecordedTold DEF RowStep

-----------------------------------------------------------------------------
(***************************************************************************)
(* Who governs, in every state that is well typed.                         *)
(***************************************************************************)

\* Of the built-in roles only the administrator's is made of rights over access.
LEMMA OnlyAdminGoverns ==
  ASSUME NEW role, NEW right \in Bundle(role), ~ Delegable(right)
  PROVE  role = "admin"
<1>1. CASE role = "ansatt"
  BY <1>1 DEF Bundle, Delegable, EmployeeBundle
<1>2. CASE role = "les"
  BY <1>2 DEF Bundle, Delegable, ReadBundle
<1>3. CASE role = "revisor"
  BY <1>3 DEF Bundle, Delegable, ReadBundle, AuditorBundle
<1>4. CASE role = "bokforing"
  BY <1>4 DEF Bundle, Delegable, ReadBundle, BookkeepingBundle
<1>5. CASE role \notin Role
  BY <1>5 DEF Bundle, Role
<1> QED
  BY <1>1, <1>2, <1>3, <1>4, <1>5 DEF Role

\* A right that comes with another one is never a right over access.
LEMMA ImpliedIsDelegable ==
  ASSUME NEW other, NEW right \in Implies(other)
  PROVE  Delegable(right)
<1>1. right \in {"TimesheetReadOwn", "TimesheetWriteOwn", "ExpenseReadOwn", "PayslipReadOwn"}
  BY DEF Implies
<1> QED
  BY <1>1 DEF Delegable

\* Whatever the state: who holds a right over access is a human with the built-in role.
LEMMA GoverningRole ==
  ASSUME NEW p, NEW right, ~ Delegable(right), Holds(p, right)
  PROVE  p \notin Robot /\ "admin" \in CompanyRoles(p)
<1> DEFINE roles == CompanyRoles(p)
<1>1. p \notin Robot
  BY DEF Holds, Has
<1>2. right \in Closure(RightsFor(roles) \cup UNION {Bundle(r) : r \in roles})
  BY DEF Holds, Has
<1>3. \A other : right \notin Implies(other)
  BY ImpliedIsDelegable
<1>4. right \in RightsFor(roles) \cup UNION {Bundle(r) : r \in roles}
  BY <1>2, <1>3 DEF Closure
<1>5. right \notin RightsFor(roles)
  BY DEF RightsFor
<1>6. PICK r \in roles : right \in Bundle(r)
  BY <1>4, <1>5
<1>7. r = "admin"
  BY <1>6, OnlyAdminGoverns
<1> QED
  BY <1>1, <1>6, <1>7

\* The firm's engagement brings another role, so the route is the company's own row.
LEMMA GovernorIsAdmin ==
  ASSUME NEW p, NEW right, ~ Delegable(right), Holds(p, right)
  PROVE  p \notin Robot /\ IsAdmin(Company, p)
<1>1. p \notin Robot /\ "admin" \in CompanyRoles(p)
  BY GoverningRole
<1>2. "admin" \in {member[Company][p].role : x \in {y \in {1} : IsActive(Company, p)}}
  BY <1>1, MembershipAssumption DEF CompanyRoles
<1>3. IsActive(Company, p) /\ member[Company][p].role = "admin"
  BY <1>2
<1> QED
  BY <1>1, <1>3 DEF IsAdmin

LEMMA GovernedAlways == GovernedByAdmins
<1> SUFFICES ASSUME NEW p \in Human \cup Robot,
                    NEW right \in {"MemberAdmin", "EngagementAdmin", "IntegrationAdmin", "CompanyAdmin"},
                    Holds(p, right)
             PROVE  p \in Human /\ IsAdmin(Company, p)
  BY DEF GovernedByAdmins
<1>1. ~ Delegable(right)
  BY DEF Delegable
<1> QED
  BY <1>1, GovernorIsAdmin

-----------------------------------------------------------------------------
(***************************************************************************)
(* An administrator is left.                                               *)
(***************************************************************************)
AnyRow(o) == \E p \in Human : member[o][p] # NoRow

\* A request past the guard of an organisation, and an invitation to it, came
\* from somebody who was in it.
RequestersThere == \A o \in Org, p \in Human : cleared[p] = Gate(o) => AnyRow(o)
InvitersThere == \A i \in Invite : invitation[i] # NoInvite => AnyRow(invitation[i].org)

\* The company has nobody before it exists, and the founder when it is set up.
FounderFirst ==
    /\ onboarding = "none" => ~ AnyRow(Company)
    /\ onboarding = "done" => AnyRow(Company)

\* Who is in an organisation has an administrator there, unless the platform
\* took the role or the founder never came.
AdminLeft ==
    \A o \in Org \ demoted :
        AnyRow(o) /\ (o = Company => onboarding # "failed") => HasAdmin(o)

Standing == RequestersThere /\ InvitersThere /\ FounderFirst /\ AdminLeft

MembershipInv == RowTypes /\ OtherTypes /\ AllTold /\ Standing

LEMMA Orgs == Company \in Org /\ Firm \in Org /\ Company # Firm /\ \A o \in Org : AssignedRole[o] \subseteq Named
  BY MembershipAssumption DEF Org, Named

\* No step takes a row away.
LEMMA RowsRemain ==
  ASSUME RowTypes, RowStep, NEW o \in Org, AnyRow(o)
  PROVE  AnyRow(o)'
<1>1. PICK p \in Human : member[o][p] # NoRow
  BY DEF AnyRow
<1>2. CASE Quiet
  BY <1>1, <1>2 DEF Quiet, AnyRow
<1>3. CASE FounderEnters
  <2>1. Founder \in Human /\ "admin" \in Named
    BY MembershipAssumption DEF Named, Role
  <2>2. member'[o][p] = member[o][p] \/ member'[o][p] # NoRow
    BY <1>3, <2>1, Orgs, PutTyped, ZenonT(60) DEF FounderEnters, RowTypes
  <2> QED
    BY <1>1, <2>2 DEF AnyRow
<1>4. ASSUME NEW u \in Org, NEW q \in Human, NEW role \in Named, NEW active \in BOOLEAN,
             NEW change \in {"lagt_til", "rolle_endret", "deaktivert", "reaktivert"},
             Recorded(u, q, change, role, active)
      PROVE  AnyRow(o)'
  <2>1. member'[o][p] = member[o][p] \/ member'[o][p] # NoRow
    BY <1>4, PutTyped, ZenonT(60) DEF Recorded, RowTypes
  <2> QED
    BY <1>1, <2>1 DEF AnyRow
<1> QED
  BY <1>2, <1>3, <1>4 DEF RowStep

\* What no step about the members can disturb.
LEMMA StepKeeps ==
  ASSUME MembershipInv, RowStep, OtherTypes',
         \A p \in Human : cleared'[p] = cleared[p] \/ cleared'[p] = "none",
         \A i \in Invite : invitation'[i] = NoInvite
            \/ (invitation[i] # NoInvite /\ invitation'[i].org = invitation[i].org),
         FounderFirst', AdminLeft'
  PROVE  MembershipInv'
<1>1. RowTypes' /\ AllTold'
  BY RowStepTold DEF MembershipInv
<1>2. \A o \in Org : AnyRow(o) => AnyRow(o)'
  BY RowsRemain DEF MembershipInv
<1>3. \A o \in Org : Gate(o) # "none"
  BY DEF Gate
<1>4. RequestersThere'
  BY <1>2, <1>3 DEF MembershipInv, Standing, RequestersThere, Gate
<1>5. InvitersThere'
  BY <1>2 DEF MembershipInv, Standing, InvitersThere, OtherTypes, Invited
<1> QED
  BY <1>1, <1>4, <1>5 DEF MembershipInv, Standing

LEMMA QuietKeeps ==
  ASSUME MembershipInv, UNCHANGED << member, changes, invitation, onboarding, demoted >>,
         OtherTypes',
         \A p \in Human : cleared'[p] = cleared[p] \/ cleared'[p] = "none"
  PROVE  MembershipInv'
<1>1. FounderFirst' /\ AdminLeft'
  BY DEF MembershipInv, Standing, FounderFirst, AdminLeft, AnyRow, HasAdmin, IsAdmin, IsActive
<1>2. RowStep
  BY DEF RowStep, Quiet
<1> QED
  BY <1>1, <1>2, StepKeeps

LEMMA ClearKeeps ==
  ASSUME MembershipInv, NEW p \in Human, NEW gate \in {"member", "firm", "systemadmin", "support"},
         Clear(p, gate)
  PROVE  MembershipInv'
<1>1. cleared' = [cleared EXCEPT ![p] = gate]
  BY DEF Clear
<1>2. OtherTypes'
  BY <1>1 DEF Clear, OtherTypes, MembershipInv
<1>3. RowTypes' /\ AllTold' /\ InvitersThere' /\ FounderFirst' /\ AdminLeft'
  <2>1. UNCHANGED << member, changes, invitation, onboarding, demoted >>
    BY DEF Clear
  <2>2. RowTypes' /\ AllTold'
    <3>1. RowTypes'
      BY <2>1 DEF MembershipInv, RowTypes
    <3>2. AllTold'
      BY <2>1 DEF MembershipInv, AllTold, Told
    <3> QED
      BY <3>1, <3>2
  <2>3. InvitersThere' /\ FounderFirst'
    BY <2>1 DEF MembershipInv, Standing, InvitersThere, FounderFirst, AnyRow
  <2>4. AdminLeft'
    BY <2>1 DEF MembershipInv, Standing, AdminLeft, AnyRow, HasAdmin, IsAdmin, IsActive
  <2> QED
    BY <2>2, <2>3, <2>4
<1>4. ASSUME NEW o \in Org, gate = Gate(o)
      PROVE  AnyRow(o)
  <2>1. CASE o = Company
    <3>1. Holds(p, "MemberAdmin")
      BY <1>4, <2>1 DEF Clear, Gate
    <3>2. IsAdmin(Company, p)
      BY <3>1, GovernorIsAdmin DEF Delegable
    <3> QED
      BY <2>1, <3>2 DEF AnyRow, IsAdmin, IsActive, NoRow
  <2>2. CASE o # Company
    <3>1. gate = "firm" /\ o = Firm
      BY <1>4, <2>2 DEF Gate, Org
    <3>2. IsAdmin(Firm, p)
      BY <3>1 DEF Clear
    <3> QED
      BY <3>1, <3>2 DEF AnyRow, IsAdmin, IsActive, NoRow
  <2> QED
    BY <2>1, <2>2
<1>5. RequestersThere'
  <2> SUFFICES ASSUME NEW o \in Org, NEW q \in Human, cleared'[q] = Gate(o)
               PROVE  AnyRow(o)'
    BY DEF RequestersThere, Gate
  <2>1. AnyRow(o)
    BY <1>1, <1>4 DEF MembershipInv, Standing, RequestersThere, OtherTypes
  <2> QED
    BY <2>1 DEF Clear, AnyRow
<1> QED
  BY <1>2, <1>3, <1>5 DEF MembershipInv, Standing

\* The requests that touch no membership and no invitation.
LEMMA RequestKeeps ==
  ASSUME MembershipInv, NEW p \in Human, NEW accept \in BOOLEAN,
         Refuse(p) \/ RequestEngagement(p) \/ EndEngagement(p) \/ DecideRequest(p, accept)
  PROVE  MembershipInv'
<1> USE DEF MembershipInv, OtherTypes, Done
<1>1. CASE Refuse(p)
  BY <1>1, QuietKeeps DEF Refuse
<1>2. CASE RequestEngagement(p)
  BY <1>2, QuietKeeps DEF RequestEngagement
<1>3. CASE EndEngagement(p)
  BY <1>3, QuietKeeps DEF EndEngagement
<1>4. CASE DecideRequest(p, accept)
  BY <1>4, QuietKeeps DEF DecideRequest
<1> QED
  BY <1>1, <1>2, <1>3, <1>4

LEMMA OwnRoleKeeps ==
  ASSUME MembershipInv, NEW p \in Human, NEW r \in OwnRole, NEW rights \in OwnRights,
         CreateRole(p, r, rights) \/ SetRights(p, r, rights)
  PROVE  MembershipInv'
<1> USE DEF MembershipInv, OtherTypes, Done
<1>1. rights \in SUBSET Right
  BY MembershipAssumption
<1>2. CASE CreateRole(p, r, rights)
  BY <1>1, <1>2, QuietKeeps DEF CreateRole
<1>3. CASE SetRights(p, r, rights)
  BY <1>1, <1>3, QuietKeeps DEF SetRights
<1> QED
  BY <1>2, <1>3

LEMMA RoleActiveKeeps ==
  ASSUME MembershipInv, NEW p \in Human, NEW r \in OwnRole, NEW active \in BOOLEAN,
         SetRoleActive(p, r, active)
  PROVE  MembershipInv'
  BY QuietKeeps DEF SetRoleActive, MembershipInv, OtherTypes, Done

LEMMA GrantKeeps ==
  ASSUME MembershipInv, NEW p \in Human, NEW m \in Robot,
         NEW role \in {NoRole} \cup AssignedRole[Company], SetGrant(p, m, role)
  PROVE  MembershipInv'
<1>1. role \in Role \cup OwnRole \cup {NoRole}
  BY Orgs DEF Named
<1> QED
  BY <1>1, QuietKeeps DEF SetGrant, MembershipInv, OtherTypes

LEMMA PlatformRoleKeeps ==
  ASSUME MembershipInv, NEW p \in Human, NEW q \in Human,
         NEW role \in {"systemadmin", "support"},
         \/ GrantPlatformRole(p, q, role) \/ EndPlatformMember(p, q, role)
         \/ PlatformRoleExpires(q, role)
  PROVE  MembershipInv'
  BY QuietKeeps DEF GrantPlatformRole, EndPlatformMember, PlatformRoleExpires,
                    MembershipInv, OtherTypes, Done

-----------------------------------------------------------------------------
(***************************************************************************)
(* The steps that write a membership or an invitation.                     *)
(***************************************************************************)

\* Whoever is counted after the change is there after the step.
LEMMA CountedIsThere ==
  ASSUME NEW o \in Org, RemainingAdmin(member'[o])
  PROVE  HasAdmin(o)'
  BY DEF RemainingAdmin, HasAdmin, IsAdmin, IsActive

\* An administrator of another organisation stays, and anyone whose row is not the one written.
LEMMA AdminStays ==
  ASSUME RowTypes, NEW o \in Org, NEW q \in Human, NEW role \in Named, NEW active \in BOOLEAN,
         Put(o, q, role, active), NEW u \in Org, HasAdmin(u), u = o => ~ IsAdmin(o, q)
  PROVE  HasAdmin(u)'
<1>1. PICK p \in Human : IsAdmin(u, p)
  BY DEF HasAdmin
<1>2. u # o \/ p # q
  BY <1>1
<1>3. /\ member' \in [Org -> [Human -> Row]]
      /\ member'[o][q] = [role |-> role, active |-> active]
      /\ \A v \in Org, h \in Human : v # o \/ h # q => member'[v][h] = member[v][h]
  BY PutTyped DEF RowTypes
<1> QED
  BY <1>1, <1>2, <1>3 DEF HasAdmin, IsAdmin, IsActive

\* Nobody enters another organisation by a row of this one.
LEMMA OthersAlike ==
  ASSUME RowTypes, NEW o \in Org, NEW q \in Human, NEW role \in Named, NEW active \in BOOLEAN,
         Put(o, q, role, active), NEW u \in Org, u # o
  PROVE  /\ AnyRow(u)' <=> AnyRow(u)
         /\ HasAdmin(u) => HasAdmin(u)'
<1>1. /\ member' \in [Org -> [Human -> Row]]
      /\ member'[o][q] = [role |-> role, active |-> active]
      /\ \A v \in Org, h \in Human : v # o \/ h # q => member'[v][h] = member[v][h]
  BY PutTyped DEF RowTypes
<1> QED
  BY <1>1 DEF AnyRow, HasAdmin, IsAdmin, IsActive

\* A row written where somebody is, and by which an administrator is left.
LEMMA WrittenKeeps ==
  ASSUME MembershipInv, OtherTypes', UNCHANGED << invitation, onboarding >>,
         \A p \in Human : cleared'[p] = cleared[p] \/ cleared'[p] = "none",
         NEW o \in Org, NEW q \in Human, NEW role \in Named, NEW active \in BOOLEAN,
         NEW change \in {"lagt_til", "rolle_endret", "deaktivert", "reaktivert"},
         Recorded(o, q, change, role, active),
         o = Company => onboarding # "none",
         demoted \subseteq demoted',
         o \notin demoted' => HasAdmin(o)' \/ (o = Company /\ onboarding = "failed")
  PROVE  MembershipInv'
<1>1. RowStep
  BY DEF RowStep
<1>2. Put(o, q, role, active) /\ RowTypes
  BY DEF Recorded, MembershipInv
<1>3. FounderFirst'
  <2>1. AnyRow(Company) => AnyRow(Company)'
    BY <1>1, <1>2, RowsRemain, Orgs
  <2>2. onboarding = "none" => ~ AnyRow(Company)'
    BY <1>2, OthersAlike, Orgs DEF MembershipInv, Standing, FounderFirst
  <2> QED
    BY <2>1, <2>2 DEF MembershipInv, Standing, FounderFirst
<1>4. AdminLeft'
  <2> SUFFICES ASSUME NEW u \in Org, u \notin demoted', AnyRow(u)',
                      u = Company => onboarding # "failed"
               PROVE  HasAdmin(u)'
    BY DEF AdminLeft
  <2>1. CASE u = o
    BY <2>1
  <2>2. CASE u # o
    <3>1. AnyRow(u) /\ (HasAdmin(u) => HasAdmin(u)')
      BY <1>2, <2>2, OthersAlike
    <3> QED
      BY <3>1 DEF MembershipInv, Standing, AdminLeft
  <2> QED
    BY <2>1, <2>2
<1> QED
  BY <1>1, <1>3, <1>4, StepKeeps DEF MembershipInv, OtherTypes

LEMMA SetRoleKeeps ==
  ASSUME MembershipInv, NEW o \in Org, NEW p \in Human, NEW q \in Human, NEW role,
         SetRole(o, p, q, role)
  PROVE  MembershipInv'
<1>1. role \in Named
  BY Orgs DEF SetRole
<1>2. Recorded(o, q, "rolle_endret", role, TRUE)
  BY DEF SetRole, Recorded, IsActive
<1>3. HasAdmin(o)'
  BY CountedIsThere DEF SetRole
<1>4. AnyRow(o)
  BY DEF SetRole, IsActive, AnyRow, NoRow
<1>5. o = Company => onboarding # "none"
  BY <1>4 DEF MembershipInv, Standing, FounderFirst
<1>6. OtherTypes' /\ \A h \in Human : cleared'[h] = cleared[h] \/ cleared'[h] = "none"
  BY DEF SetRole, Done, MembershipInv, OtherTypes
<1> QED
  BY <1>1, <1>2, <1>3, <1>5, <1>6, WrittenKeeps DEF SetRole

LEMMA SetActiveKeeps ==
  ASSUME MembershipInv, NEW o \in Org, NEW p \in Human, NEW q \in Human, NEW active \in BOOLEAN,
         SetActive(o, p, q, active)
  PROVE  MembershipInv'
<1> DEFINE role == member[o][q].role
           change == IF active THEN "reaktivert" ELSE "deaktivert"
<1>1. member[o][q] # NoRow /\ role \in Named
  BY DEF SetActive, MembershipInv, RowTypes, Row
<1>2. Recorded(o, q, change, role, active)
  <2>1. Put(o, q, role, active) /\ Log(o, q, change, role, role)
    BY DEF SetActive
  <2>2. active # member[o][q].active /\ member[o][q].active \in BOOLEAN
    BY <1>1 DEF SetActive, IsActive, MembershipInv, RowTypes, Row
  <2>3. \/ change = "deaktivert" /\ member[o][q].active /\ ~ active
        \/ change = "reaktivert" /\ ~ member[o][q].active /\ active
    BY <2>2
  <2> QED
    BY <1>1, <2>1, <2>3 DEF Recorded
<1>3. HasAdmin(o)'
  BY CountedIsThere DEF SetActive
<1>4. AnyRow(o)
  BY <1>1 DEF AnyRow
<1>5. o = Company => onboarding # "none"
  BY <1>4 DEF MembershipInv, Standing, FounderFirst
<1>6. OtherTypes' /\ \A h \in Human : cleared'[h] = cleared[h] \/ cleared'[h] = "none"
  BY DEF SetActive, Done, MembershipInv, OtherTypes
<1> QED
  BY <1>1, <1>2, <1>3, <1>5, <1>6, WrittenKeeps DEF SetActive

\* The platform counts nobody: what it may undo it is charged with in demoted.
LEMMA PlatformAssignKeeps ==
  ASSUME MembershipInv, NEW o \in Org, NEW p \in Human, NEW q \in Human, NEW role,
         PlatformAssign(o, p, q, role)
  PROVE  MembershipInv'
<1> DEFINE row == member[o][q]
           change == CASE row = NoRow -> "lagt_til"
                       [] row.active  -> "rolle_endret"
                       [] OTHER       -> "reaktivert"
<1>1. role \in Named
  BY Orgs DEF PlatformAssign
<1>2. change \in {"lagt_til", "rolle_endret", "deaktivert", "reaktivert"}
      /\ Recorded(o, q, change, role, TRUE)
  <2>1. Put(o, q, role, TRUE) /\ Log(o, q, change, row.role, role)
    BY DEF PlatformAssign
  <2>2. row = NoRow => ~ row.active
    BY DEF NoRow
  <2>3. \/ change = "lagt_til" /\ row = NoRow
        \/ change = "rolle_endret" /\ row.active
        \/ change = "reaktivert" /\ row # NoRow /\ ~ row.active
    BY <2>2
  <2> QED
    BY <2>1, <2>3 DEF Recorded
<1>3. Put(o, q, role, TRUE) /\ RowTypes
  BY DEF PlatformAssign, MembershipInv
<1>4. demoted \subseteq demoted' /\ (o = Company => onboarding # "none")
  BY DEF PlatformAssign
<1>5. ASSUME o \notin demoted', ~ (o = Company /\ onboarding = "failed")
      PROVE  HasAdmin(o)'
  <2>1. CASE role = "admin"
    <3>1. member'[o][q] = [role |-> "admin", active |-> TRUE]
      BY <1>1, <1>3, <2>1, PutTyped DEF RowTypes
    <3> QED
      BY <3>1 DEF HasAdmin, IsAdmin, IsActive
  <2>2. CASE role # "admin"
    <3>1. ~ IsAdmin(o, q) /\ ~ (o = Company /\ onboarding = "created") /\ o \notin demoted
      BY <1>5, <2>2 DEF PlatformAssign
    <3>2. AnyRow(o)
      <4>1. CASE o = Company
        BY <1>4, <1>5, <3>1, <4>1 DEF MembershipInv, Standing, FounderFirst, OtherTypes
      <4>2. CASE o = Firm
        <5>1. \E h \in Human : changes[Firm][h] # << >>
          BY <4>2, Orgs DEF PlatformAssign, MembershipInv, RowTypes
        <5> QED
          BY <4>2, <5>1, TrailHasRow DEF AnyRow, MembershipInv, AllTold
      <4> QED
        BY <4>1, <4>2 DEF Org
    <3>3. HasAdmin(o)
      BY <1>5, <3>1, <3>2 DEF MembershipInv, Standing, AdminLeft
    <3> QED
      BY <1>1, <1>3, <3>1, <3>3, AdminStays
  <2> QED
    BY <2>1, <2>2
<1>6. OtherTypes' /\ \A h \in Human : cleared'[h] = cleared[h] \/ cleared'[h] = "none"
  BY DEF PlatformAssign, Done, MembershipInv, OtherTypes
<1>7. UNCHANGED << invitation, onboarding >>
  BY DEF PlatformAssign
<1> HIDE DEF change
<1> QED
  BY <1>1, <1>2, <1>4, <1>5, <1>6, <1>7, WrittenKeeps

\* Created by somebody who was not in any firm: nobody can have been in this one.
LEMMA VerifiedFirmKeeps ==
  ASSUME MembershipInv, NEW p \in Human, CreateVerifiedFirm(p)
  PROVE  MembershipInv'
<1>1. "admin" \in Named
  BY DEF Named, Role
<1>2. Put(Firm, p, "admin", TRUE) /\ RowTypes
  BY DEF CreateVerifiedFirm, MembershipInv
<1>3. member[Firm][p] = NoRow /\ member[Firm][p].role = NoRole
  <2>1. Told(Firm, p) /\ changes[Firm][p] = << >>
    BY Orgs DEF CreateVerifiedFirm, MembershipInv, AllTold
  <2>2. member[Firm][p] = NoRow
    BY <2>1, Orgs DEF Told
  <2> QED
    BY <2>2 DEF NoRow
<1>4. Recorded(Firm, p, "lagt_til", "admin", TRUE)
  BY <1>3 DEF CreateVerifiedFirm, Recorded
<1>5. HasAdmin(Firm)'
  <2>1. member'[Firm][p] = [role |-> "admin", active |-> TRUE]
    BY <1>1, <1>2, Orgs, PutTyped DEF RowTypes
  <2> QED
    BY <2>1 DEF HasAdmin, IsAdmin, IsActive
<1>6. OtherTypes'
  BY DEF CreateVerifiedFirm, MembershipInv, OtherTypes
<1> QED
  BY <1>1, <1>4, <1>5, <1>6, Orgs, WrittenKeeps DEF CreateVerifiedFirm

LEMMA RedeemKeeps ==
  ASSUME MembershipInv, NEW o \in Org, NEW q \in Human, RedeemInvitations(o, q)
  PROVE  MembershipInv'
<1>1. PICK i \in Open(o, q) :
        /\ invitation' = [invitation EXCEPT ![i].status = "accepted"]
        /\ IF member[o][q] = NoRow
           THEN /\ Put(o, q, invitation[i].role, TRUE)
                /\ Log(o, q, "lagt_til", NoRole, invitation[i].role)
           ELSE UNCHANGED << member, changes >>
        /\ linked' = IF invitation[i].carries /\ linked = NotLinked THEN q ELSE linked
        /\ UNCHANGED << ownRole, engagement, grant, platformRole, cleared, onboarding, demoted >>
  BY DEF RedeemInvitations
<1> DEFINE role == invitation[i].role
<1>2. /\ i \in Invite /\ invitation[i] # NoInvite /\ invitation[i] \in Invited
      /\ invitation[i].org = o /\ role \in Named
  BY DEF Open, MembershipInv, OtherTypes, Invited, NoInvite
<1>3. /\ invitation' \in [Invite -> {NoInvite} \cup Invited]
      /\ \A j \in Invite : j # i => invitation'[j] = invitation[j]
      /\ invitation'[i].org = o
  <2>1. [invitation[i] EXCEPT !.status = "accepted"] \in Invited
    BY <1>2 DEF Invited
  <2>2. invitation' = [invitation EXCEPT ![i] = [invitation[i] EXCEPT !.status = "accepted"]]
    BY <1>1
  <2> QED
    BY <1>2, <2>1, <2>2 DEF MembershipInv, OtherTypes, Invited
<1>4. OtherTypes'
  BY <1>1, <1>3 DEF MembershipInv, OtherTypes
<1>5. \A j \in Invite : invitation'[j] = NoInvite
         \/ (invitation[j] # NoInvite /\ invitation'[j].org = invitation[j].org)
  BY <1>2, <1>3 DEF MembershipInv, OtherTypes
<1>6. AnyRow(o)
  BY <1>2 DEF MembershipInv, Standing, InvitersThere
<1>7. CASE member[o][q] # NoRow
  <2>1. RowStep
    BY <1>1, <1>7 DEF RowStep, Quiet
  <2>2. UNCHANGED << member, onboarding, demoted >>
    BY <1>1, <1>7
  <2>3. FounderFirst' /\ AdminLeft'
    BY <2>2 DEF MembershipInv, Standing, FounderFirst, AdminLeft, AnyRow, HasAdmin, IsAdmin, IsActive
  <2> QED
    BY <1>1, <1>4, <1>5, <2>1, <2>3, StepKeeps
<1>8. CASE member[o][q] = NoRow
  <2>0. member[o][q].role = NoRole
    BY <1>8 DEF NoRow
  <2>1. Put(o, q, role, TRUE) /\ RowTypes /\ Recorded(o, q, "lagt_til", role, TRUE)
    BY <1>1, <1>8, <2>0 DEF Recorded, MembershipInv
  <2>2. RowStep
    BY <1>2, <2>1 DEF RowStep
  <2>3. FounderFirst'
    <3>1. AnyRow(Company) => AnyRow(Company)'
      BY <2>1, <2>2, RowsRemain, Orgs
    <3>2. onboarding = "none" => ~ AnyRow(Company)'
      <4>1. onboarding = "none" => o # Company
        BY <1>6 DEF MembershipInv, Standing, FounderFirst
      <4> QED
        BY <1>2, <2>1, <4>1, OthersAlike, Orgs DEF MembershipInv, Standing, FounderFirst
    <3> QED
      BY <1>1, <3>1, <3>2 DEF MembershipInv, Standing, FounderFirst
  <2>4. AdminLeft'
    <3> SUFFICES ASSUME NEW u \in Org, u \notin demoted, AnyRow(u)',
                        u = Company => onboarding # "failed"
                 PROVE  HasAdmin(u)'
      BY <1>1 DEF AdminLeft
    <3>1. AnyRow(u)
      BY <1>2, <1>6, <2>1, OthersAlike
    <3>2. HasAdmin(u)
      BY <3>1 DEF MembershipInv, Standing, AdminLeft
    <3>3. ~ IsAdmin(o, q)
      BY <1>8 DEF IsAdmin, IsActive, NoRow
    <3> QED
      BY <1>2, <2>1, <3>2, <3>3, AdminStays
  <2> QED
    BY <1>1, <1>4, <1>5, <2>2, <2>3, <2>4, StepKeeps
<1> QED
  BY <1>7, <1>8

\* An invitation is written past the guard, so by somebody in the organisation.
LEMMA InviterKeeps ==
  ASSUME MembershipInv, NEW o \in Org, NEW p \in Human, NEW i \in Invite, NEW q \in Human,
         NEW role, NEW carries \in BOOLEAN, Inviter(p, i, o, q, role, carries)
  PROVE  MembershipInv'
<1> DEFINE I == [status |-> "open", org |-> o, to |-> q, role |-> role, carries |-> carries]
<1>1. role \in Named
  BY Orgs DEF Inviter
<1>2. I \in Invited /\ I.org = o
  BY <1>1 DEF Invited
<1>3. invitation' = [invitation EXCEPT ![i] = I]
  BY DEF Inviter
<1>4. AnyRow(o)
  BY DEF Inviter, MembershipInv, Standing, RequestersThere
<1> HIDE DEF I
<1>5. OtherTypes'
  BY <1>2, <1>3 DEF Inviter, Done, MembershipInv, OtherTypes
<1>6. UNCHANGED << member, changes, onboarding, demoted >>
  BY DEF Inviter
<1>7. RowTypes' /\ AllTold'
  BY <1>6 DEF MembershipInv, RowTypes, AllTold, Told
<1>8. FounderFirst' /\ AdminLeft'
  BY <1>6 DEF MembershipInv, Standing, FounderFirst, AdminLeft, AnyRow, HasAdmin, IsAdmin, IsActive
<1>9. InvitersThere'
  BY <1>2, <1>3, <1>4, <1>6 DEF MembershipInv, Standing, InvitersThere, OtherTypes, AnyRow
<1>10. RequestersThere'
  BY <1>6 DEF Inviter, Done, MembershipInv, OtherTypes, Standing, RequestersThere, AnyRow, Gate
<1> QED
  BY <1>5, <1>7, <1>8, <1>9, <1>10 DEF MembershipInv, Standing

LEMMA RevokeKeeps ==
  ASSUME MembershipInv, NEW p \in Human, NEW i \in Invite, RevokeInvitation(p, i)
  PROVE  MembershipInv'
<1>1. invitation[i] \in Invited
  BY DEF RevokeInvitation, MembershipInv, OtherTypes, NoInvite
<1>2. invitation' = [invitation EXCEPT ![i] = [invitation[i] EXCEPT !.status = "revoked"]]
  BY DEF RevokeInvitation
<1>3. [invitation[i] EXCEPT !.status = "revoked"] \in Invited
  BY <1>1 DEF Invited
<1>4. OtherTypes'
  BY <1>2, <1>3 DEF RevokeInvitation, Done, MembershipInv, OtherTypes
<1>5. \A j \in Invite : invitation'[j] = NoInvite
         \/ (invitation[j] # NoInvite /\ invitation'[j].org = invitation[j].org)
  BY <1>1, <1>2 DEF RevokeInvitation, MembershipInv, OtherTypes, Invited, NoInvite
<1>6. UNCHANGED << member, changes, onboarding, demoted >>
  BY DEF RevokeInvitation
<1>7. RowStep /\ FounderFirst' /\ AdminLeft'
  BY <1>6 DEF RowStep, Quiet, MembershipInv, Standing, FounderFirst, AdminLeft, AnyRow, HasAdmin,
              IsAdmin, IsActive
<1> QED
  BY <1>4, <1>5, <1>7, StepKeeps DEF RevokeInvitation, Done, MembershipInv, OtherTypes

LEMMA OnboardKeeps == ASSUME MembershipInv, CreateCompany \/ OnboardCompany PROVE MembershipInv'
<1>1. OtherTypes' /\ UNCHANGED << invitation, cleared, demoted >>
  BY DEF CreateCompany, OnboardCompany, MembershipInv, OtherTypes
<1>2. CASE UNCHANGED member
  <2>1. UNCHANGED << member, changes >>
    BY <1>2 DEF CreateCompany, OnboardCompany
  <2>2. RowStep
    BY <2>1 DEF RowStep, Quiet
  <2>3. FounderFirst' /\ AdminLeft'
    <3>1. CASE onboarding' = "done"
      <4>1. onboarding = "created" /\ member[Company][Founder] # NoRow
        <5>1. OnboardCompany
          BY <3>1 DEF CreateCompany
        <5>2. member[Company][Founder] # NoRow
          <6> SUFFICES ASSUME member[Company][Founder] = NoRow PROVE FALSE
            OBVIOUS
          <6>1. Put(Company, Founder, "admin", TRUE)
            BY <3>1, <5>1 DEF OnboardCompany
          <6>2. member'[Company][Founder] # NoRow
            BY <6>1, PutTyped, Orgs, MembershipAssumption DEF MembershipInv, RowTypes, Named, Role
          <6> QED
            BY <2>1, <6>2
        <5> QED
          BY <5>1, <5>2 DEF OnboardCompany
      <4>2. AnyRow(Company)
        BY <4>1, MembershipAssumption DEF AnyRow
      <4> QED
        BY <1>1, <2>1, <3>1, <4>1, <4>2
        DEF MembershipInv, Standing, FounderFirst, AdminLeft, AnyRow, HasAdmin, IsAdmin, IsActive
    <3>2. CASE onboarding' # "done"
      <4>1. onboarding' # "none" /\ (onboarding' = "failed" \/ onboarding = "none")
        BY <3>2 DEF CreateCompany, OnboardCompany
      <4> QED
        BY <1>1, <2>1, <3>2, <4>1
        DEF MembershipInv, Standing, FounderFirst, AdminLeft, AnyRow, HasAdmin, IsAdmin, IsActive
    <3> QED
      BY <3>1, <3>2
  <2> QED
    BY <1>1, <2>2, <2>3, StepKeeps DEF MembershipInv, OtherTypes
<1>3. CASE member[Company][Founder] = NoRow /\ Put(Company, Founder, "admin", TRUE) /\ OnboardCompany
  <2>1. Company \in Org /\ Founder \in Human /\ "admin" \in Named /\ RowTypes
    BY Orgs, MembershipAssumption DEF Named, Role, MembershipInv
  <2>2. RowStep
    BY <1>3 DEF RowStep, FounderEnters, OnboardCompany
  <2>3. member'[Company][Founder] = [role |-> "admin", active |-> TRUE]
        /\ member'[Company][Founder] # NoRow
    BY <1>3, <2>1, PutTyped DEF RowTypes
  <2>4. AnyRow(Company)' /\ HasAdmin(Company)'
    BY <2>1, <2>3 DEF AnyRow, HasAdmin, IsAdmin, IsActive
  <2>5. onboarding' # "none"
    BY <1>3 DEF OnboardCompany
  <2>6. AdminLeft'
    <3> SUFFICES ASSUME NEW u \in Org, u \notin demoted, u # Company, AnyRow(u)'
                 PROVE  HasAdmin(u)'
      BY <1>1, <2>4 DEF AdminLeft
    <3>1. AnyRow(u) /\ (HasAdmin(u) => HasAdmin(u)')
      BY <1>3, <2>1, OthersAlike
    <3> QED
      BY <3>1 DEF MembershipInv, Standing, AdminLeft
  <2>7. FounderFirst'
    BY <2>4, <2>5 DEF FounderFirst
  <2> QED
    BY <1>1, <2>2, <2>6, <2>7, StepKeeps DEF MembershipInv, OtherTypes
<1> QED
  BY <1>2, <1>3 DEF CreateCompany, OnboardCompany

LEMMA InitMembershipInv == InitMembership => MembershipInv
<1> SUFFICES ASSUME InitMembership PROVE MembershipInv
  OBVIOUS
<1>1. /\ \A o \in Org, p \in Human : member[o][p] = NoRow /\ changes[o][p] = << >>
      /\ \A o \in Org, p \in Human : ~ AnyRow(o) /\ cleared[p] # Gate(o)
      /\ \A i \in Invite : invitation[i] = NoInvite
      /\ onboarding = "none"
  BY DEF InitMembership, AnyRow, Gate
<1>2. RowTypes
  BY DEF InitMembership, RowTypes, Row
<1>3. OtherTypes
  BY DEF InitMembership, OtherTypes, NoOwnRole
<1>4. AllTold
  BY <1>1 DEF AllTold, Told
<1>5. Standing
  BY <1>1, Orgs DEF Standing, RequestersThere, InvitersThere, FounderFirst, AdminLeft, AnyRow
<1> QED
  BY <1>2, <1>3, <1>4, <1>5 DEF MembershipInv

LEMMA NextMembershipInv == MembershipInv /\ [NextMembership]_varsMembership => MembershipInv'
<1> SUFFICES ASSUME MembershipInv, [NextMembership]_varsMembership PROVE MembershipInv'
  OBVIOUS
<1>1. CASE UNCHANGED varsMembership
  BY <1>1, QuietKeeps DEF varsMembership, MembershipInv, OtherTypes
<1>2. CASE NextMembers
  <2>1. \A p, q \in Human : \A role : (SetMemberRole(p, q, role) \/ SetFirmRole(p, q, role)) => MembershipInv'
    BY SetRoleKeeps, Orgs DEF SetMemberRole, SetFirmRole
  <2>2. \A p, q \in Human : \A role : (AssignCompany(p, q, role) \/ AssignFirm(p, q, role)) => MembershipInv'
    BY PlatformAssignKeeps, Orgs DEF AssignCompany, AssignFirm
  <2>3. \A p, q \in Human, i \in Invite : \A role : InviteToFirm(p, i, q, role) => MembershipInv'
    BY InviterKeeps, Orgs DEF InviteToFirm
  <2>4. \A p, q \in Human, active \in BOOLEAN :
          (SetMemberActive(p, q, active) \/ SetFirmActive(p, q, active)) => MembershipInv'
    BY SetActiveKeeps, Orgs DEF SetMemberActive, SetFirmActive
  <2>5. \A q \in Human : (RedeemCompany(q) \/ RedeemFirm(q)) => MembershipInv'
    BY RedeemKeeps, Orgs DEF RedeemCompany, RedeemFirm
  <2>6. \A p \in Human, i \in Invite : RevokeInvitation(p, i) => MembershipInv'
    BY RevokeKeeps
  <2>7. CASE \E p, q \in Human, role \in AssignedRole[Company] :
               \/ SetMemberRole(p, q, role) \/ AssignCompany(p, q, role)
               \/ \E i \in Invite, carries \in BOOLEAN : InviteMember(p, i, q, role, carries)
    <3>1. PICK p, q \in Human, role \in AssignedRole[Company] :
               \/ SetMemberRole(p, q, role) \/ AssignCompany(p, q, role)
               \/ \E i \in Invite, carries \in BOOLEAN : InviteMember(p, i, q, role, carries)
      BY <2>7
    <3>2. CASE \E i \in Invite, carries \in BOOLEAN : InviteMember(p, i, q, role, carries)
      <4>1. PICK i \in Invite, carries \in BOOLEAN : InviteMember(p, i, q, role, carries)
        BY <3>2
      <4> QED
        BY <4>1, InviterKeeps, Orgs DEF InviteMember
    <3> QED
      BY <2>1, <2>2, <3>1, <3>2
  <2>8. CASE \E p, q \in Human, role \in AssignedRole[Firm] :
               \/ SetFirmRole(p, q, role) \/ AssignFirm(p, q, role)
               \/ \E i \in Invite : InviteToFirm(p, i, q, role)
    BY <2>1, <2>2, <2>3, <2>8
  <2> QED
    BY <1>2, <2>4, <2>5, <2>6, <2>7, <2>8 DEF NextMembers
<1>3. CASE \E p \in Human, gate \in {"member", "firm", "systemadmin", "support"} : Clear(p, gate)
  BY <1>3, ClearKeeps
<1>4. CASE CreateCompany \/ OnboardCompany \/ \E p \in Human : CreateVerifiedFirm(p)
  BY <1>4, OnboardKeeps, VerifiedFirmKeeps
<1>5. CASE \/ \E p \in Human : Refuse(p) \/ RequestEngagement(p) \/ EndEngagement(p)
           \/ \E p \in Human, accept \in BOOLEAN : DecideRequest(p, accept)
  BY <1>5, RequestKeeps
<1>6. CASE \/ \E p \in Human, r \in OwnRole, rights \in OwnRights :
                CreateRole(p, r, rights) \/ SetRights(p, r, rights)
           \/ \E p \in Human, r \in OwnRole, active \in BOOLEAN : SetRoleActive(p, r, active)
  BY <1>6, OwnRoleKeeps, RoleActiveKeeps
<1>7. CASE \E p \in Human, m \in Robot, role \in {NoRole} \cup AssignedRole[Company] :
              SetGrant(p, m, role)
  BY <1>7, GrantKeeps
<1>8. CASE \/ \E p, q \in Human, role \in {"systemadmin", "support"} :
                GrantPlatformRole(p, q, role) \/ EndPlatformMember(p, q, role)
           \/ \E q \in Human, role \in {"systemadmin", "support"} : PlatformRoleExpires(q, role)
  BY <1>8, PlatformRoleKeeps
<1> QED
  BY <1>1, <1>2, <1>3, <1>4, <1>5, <1>6, <1>7, <1>8 DEF NextMembership

THEOREM MembershipInvariant == SpecMembership => []MembershipInv
<1> QED
  BY InitMembershipInv, NextMembershipInv, PTL DEF SpecMembership

\* The tables of memberships, roles, invitations and grants hold what their columns
\* allow: above all, no own role ever holds a right over access (roles.rs, godkjenn).
THEOREM MembershipTypes == SpecMembership => []TypeOKMembership
<1>1. MembershipInv => TypeOKMembership
  BY TypesFit DEF MembershipInv
<1> QED
  BY <1>1, MembershipInvariant, PTL

\* However people demote, switch off and invite each other at once, an organisation
\* that is set up keeps an administrator, but for what the platform does to it.
THEOREM AdministratorLeft == SpecMembership => []OrphanedOnlyByPlatform
<1>1. MembershipInv => OrphanedOnlyByPlatform
  <2> SUFFICES ASSUME MembershipInv, NEW o \in Org \ demoted, SetUp(o) PROVE HasAdmin(o)
    BY DEF OrphanedOnlyByPlatform
  <2>1. AnyRow(o) /\ (o = Company => onboarding # "failed")
    BY DEF SetUp, AnyRow, MembershipInv, Standing, FounderFirst
  <2> QED
    BY <2>1 DEF MembershipInv, Standing, AdminLeft
<1> QED
  BY <1>1, MembershipInvariant, PTL

\* The trail of every membership, replayed, ends in the row that stands, for trails of
\* any length and whoever writes them.
THEOREM TrailsReplay == SpecMembership => []TrailReplays
<1>1. MembershipInv => TrailReplays
  <2> SUFFICES ASSUME MembershipInv, NEW o \in Org, NEW p \in Human
               PROVE  LET t == changes[o][p]
                          founder == o = Company /\ p = Founder
                      IN
                      /\ \A i \in 2..Len(t) :
                            /\ t[i].from = t[i-1].to
                            /\ t[i].change = "reaktivert" <=> t[i-1].change = "deaktivert"
                            /\ t[i].change # "lagt_til"
                      /\ t # << >> =>
                            /\ t[1].change = "lagt_til" \/ (founder /\ t[1].from = "admin")
                            /\ member[o][p] = [role |-> t[Len(t)].to,
                                               active |-> t[Len(t)].change # "deaktivert"]
                      /\ t = << >> => member[o][p] = NoRow \/ founder
    BY DEF TrailReplays
  <2> QED
    BY DEF MembershipInv, AllTold, Told
<1> QED
  BY <1>1, MembershipInvariant, PTL

\* Whoever may decide who has access is an administrator of the company in person.
THEOREM PeopleGovern == SpecMembership => []GovernedByAdmins
<1> QED
  BY GovernedAlways, PTL

-----------------------------------------------------------------------------
(***************************************************************************)
(* Invoices.  A month's run row names the first invoice of the month; what *)
(* an invoice of the run has left follows from who has paid it.            *)
(***************************************************************************)
Claim == [due : Int, amount : {MonthlyGross}, remaining : Int]
Bill == [month : BillingMonth, source : {"run"} \cup StripePayment, charged : BOOLEAN]

InvoiceTypes ==
    /\ cardRail \in BOOLEAN
    /\ remindDay \in 1..LastBillingDay
    /\ claims \in Seq(Claim) /\ billed \in Seq(Bill)
    /\ charge \in Seq({"none", "succeeded", "failed"})
    /\ Len(billed) = Len(claims) /\ Len(charge) = Len(claims)
    /\ monthRun \in [BillingMonth -> Nat]

MonthsMarked == \A n \in DOMAIN billed : monthRun[billed[n].month] \in 1..n
MarksAreInvoices == \A m \in BillingMonth : monthRun[m] \in 0..Len(claims)
RunsMarked == \A n \in DOMAIN billed : billed[n].source = "run" => monthRun[billed[n].month] = n
BookedOnce ==
    \A n, k \in DOMAIN billed :
        n < k /\ billed[n].source # "run" => billed[n].source # billed[k].source

Settled(n) ==
    /\ billed[n].source # "run" => claims[n].remaining = 0 /\ ~ billed[n].charged
    /\ billed[n].source = "run" /\ n \notin bankPaid /\ charge[n] # "succeeded"
          => claims[n].remaining = MonthlyGross
    /\ claims[n].remaining < 0 => n \in bankPaid /\ charge[n] = "succeeded"

AsPaid == \A n \in DOMAIN claims : Settled(n)

InvoiceInv == InvoiceTypes /\ MarksAreInvoices /\ MonthsMarked /\ RunsMarked /\ BookedOnce /\ AsPaid

LEMMA InvoicesOnce == InvoiceInv => BilledOnce
<1> SUFFICES ASSUME InvoiceInv PROVE BilledOnce
  OBVIOUS
<1>1. DOMAIN billed = 1..Len(billed) /\ DOMAIN claims = 1..Len(billed) /\ Len(billed) \in Nat
  BY DEF InvoiceInv, InvoiceTypes
<1>2. ASSUME NEW n \in DOMAIN billed, NEW k \in DOMAIN billed, n < k,
             billed[n].month = billed[k].month, billed[k].source = "run"
      PROVE  FALSE
  <2>1. monthRun[billed[n].month] \in 1..n /\ monthRun[billed[k].month] = k
    BY <1>2 DEF InvoiceInv, MonthsMarked, RunsMarked
  <2> QED
    BY <2>1, <1>1, <1>2
<1>3. \A n \in DOMAIN billed : Settled(n)
  BY <1>1 DEF InvoiceInv, AsPaid
<1> QED
  BY <1>2, <1>3 DEF BilledOnce, InvoiceInv, RunsMarked, BookedOnce, Settled

\* Division keeps the order.
LEMMA Divides ==
  ASSUME NEW a \in Int, NEW b \in Int, NEW d \in Nat \ {0}, a <= b
  PROVE  a \div d <= b \div d
<1> DEFINE p == a \div d
           q == b \div d
<1>1. p \in Int /\ q \in Int /\ p * d <= a /\ b < q * d + d
  OBVIOUS
<1>2. ASSUME q < p PROVE FALSE
  <2>1. q + 1 <= p
    BY <1>1, <1>2
  <2>2. (q + 1) * d <= p * d
    BY <1>1, <2>1
  <2>3. (q + 1) * d = q * d + d
    BY <1>1
  <2> HIDE DEF p, q
  <2>4. p * d \in Int /\ q * d \in Int
    BY <1>1
  <2> QED
    BY <1>1, <2>2, <2>3, <2>4
<1> QED
  BY <1>1, <1>2

LEMMA MonthIsBilled == ASSUME NEW day \in 1..LastBillingDay PROVE MonthOf1(day) \in BillingMonth
<1>1. 0 \div MonthLength = 0
  BY BillingAssumption
<1>2. 0 \div MonthLength <= (day - 1) \div MonthLength
  BY BillingAssumption, Divides
<1>3. (day - 1) \div MonthLength <= (LastBillingDay - 1) \div MonthLength
  BY BillingAssumption, Divides
<1>4. (day - 1) \div MonthLength \in Int
  BY BillingAssumption
<1> QED
  BY <1>1, <1>2, <1>3, <1>4 DEF MonthOf1, BillingMonth

LEMMA InvoiceInit == InitBilling => InvoiceInv
  BY BillingAssumption DEF InitBilling, InitReminders, InvoiceInv, InvoiceTypes, MarksAreInvoices, MonthsMarked,
     RunsMarked, BookedOnce, AsPaid

\* A row more at the end, and the rows before it as they were.
LEMMA OneAppended ==
  ASSUME NEW S, NEW t \in Seq(S), NEW x \in S, NEW u, u = Append(t, x)
  PROVE  /\ u \in Seq(S) /\ Len(t) \in Nat
         /\ Len(u) = Len(t) + 1 /\ DOMAIN u = DOMAIN t \cup {Len(u)} /\ u[Len(u)] = x
         /\ \A n \in DOMAIN t : n \in DOMAIN u /\ n < Len(u) /\ n \in Nat /\ u[n] = t[n]
  OBVIOUS

\* An invoice of the run or of a payment of the provider's.
LEMMA InvoiceKeeps ==
  ASSUME InvoiceInv, NEW month \in BillingMonth, NEW due \in Int, NEW left \in Int,
         NEW source \in {"run"} \cup StripePayment, NEW charged \in BOOLEAN,
         Invoice(month, due, left, source, charged),
         source = "run" => left = MonthlyGross /\ MonthFree(month),
         source # "run" => left = 0 /\ ~ charged /\ source \notin Booked,
         UNCHANGED << bankPaid, cardRail >>,
         monthRun' = IF MonthFree(month) THEN [monthRun EXCEPT ![month] = Len(claims')] ELSE monthRun
  PROVE  InvoiceInv'
<1> DEFINE c == [due |-> due, amount |-> MonthlyGross, remaining |-> left]
           b == [month |-> month, source |-> source, charged |-> charged]
           k == Len(claims')
<1>1. claims' = Append(claims, c) /\ billed' = Append(billed, b) /\ charge' = Append(charge, "none")
      /\ UNCHANGED remindDay
  BY DEF Invoice
<1>2. c \in Claim /\ b \in Bill /\ c.remaining = left
      /\ b.month = month /\ b.source = source /\ b.charged = charged
  BY DEF Claim, Bill
<1>3. claims \in Seq(Claim) /\ billed \in Seq(Bill) /\ charge \in Seq({"none", "succeeded", "failed"})
      /\ Len(billed) = Len(claims) /\ Len(charge) = Len(claims)
  BY DEF InvoiceInv, InvoiceTypes
<1> HIDE DEF c, b
<1>4. /\ claims' \in Seq(Claim) /\ claims'[k] = c /\ k = Len(claims) + 1 /\ Len(claims) \in Nat
      /\ DOMAIN claims' = DOMAIN claims \cup {k}
      /\ \A n \in DOMAIN claims : n < k /\ n \in Nat /\ claims'[n] = claims[n]
  BY <1>1, <1>2, <1>3, OneAppended
<1>5. /\ billed' \in Seq(Bill) /\ billed'[k] = b /\ Len(billed') = k
      /\ DOMAIN billed' = DOMAIN billed \cup {k}
      /\ \A n \in DOMAIN billed : n < k /\ n \in Nat /\ billed'[n] = billed[n]
  BY <1>1, <1>2, <1>3, <1>4, OneAppended
<1>6. /\ charge' \in Seq({"none", "succeeded", "failed"}) /\ Len(charge') = k
      /\ charge'[k] = "none"
      /\ DOMAIN claims = DOMAIN billed /\ DOMAIN claims = DOMAIN charge
      /\ \A n \in DOMAIN charge : charge'[n] = charge[n]
  BY <1>1, <1>3, <1>4
<1> HIDE DEF k
<1>7. monthRun \in [BillingMonth -> Nat] /\ k \in Nat \ {0}
  BY <1>4 DEF InvoiceInv, InvoiceTypes
<1>8. /\ monthRun' \in [BillingMonth -> Nat]
      /\ \A m \in BillingMonth : monthRun[m] # 0 => monthRun'[m] = monthRun[m]
      /\ MonthFree(month) => monthRun'[month] = k
      /\ monthRun[month] # 0 => monthRun'[month] = monthRun[month]
      /\ MonthFree(month) <=> monthRun[month] = 0
  BY <1>7 DEF MonthFree, k
<1>9. InvoiceTypes'
  BY <1>1, <1>4, <1>5, <1>6, <1>8 DEF InvoiceInv, InvoiceTypes
<1>10. \A n \in DOMAIN billed :
          /\ billed[n] \in Bill /\ billed[n].month \in BillingMonth
          /\ monthRun[billed[n].month] \in 1..n /\ monthRun[billed[n].month] # 0
          /\ monthRun'[billed[n].month] = monthRun[billed[n].month]
  <2>1. \A n \in DOMAIN billed : billed[n] \in Bill
    BY <1>3
  <2>2. \A n \in DOMAIN billed : billed[n].month \in BillingMonth
    BY <2>1 DEF Bill
  <2> QED
    BY <2>1, <2>2, <1>5, <1>8 DEF InvoiceInv, MonthsMarked
<1>11. MonthsMarked'
  <2> SUFFICES ASSUME NEW n \in DOMAIN billed' PROVE monthRun'[billed'[n].month] \in 1..n
    BY DEF MonthsMarked
  <2>1. CASE n \in DOMAIN billed
    BY <2>1, <1>10, <1>5
  <2>2. CASE n = k
    <3>1. CASE MonthFree(month)
      BY <2>2, <3>1, <1>8, <1>5, <1>2, <1>7
    <3>2. CASE ~ MonthFree(month)
      \* the month is marked by a row there is
      <4>1. monthRun[month] # 0 /\ monthRun[month] \in Nat
        BY <3>2, <1>7, <1>8
      <4>2. monthRun[month] <= k
        BY <4>1, <1>4 DEF InvoiceInv, MarksAreInvoices
      <4> QED
        BY <2>2, <4>1, <4>2, <1>8, <1>5, <1>2, <1>7
    <3> QED
      BY <3>1, <3>2
  <2> QED
    BY <2>1, <2>2, <1>5
<1>12. RunsMarked'
  <2> SUFFICES ASSUME NEW n \in DOMAIN billed', billed'[n].source = "run"
               PROVE  monthRun'[billed'[n].month] = n
    BY DEF RunsMarked
  <2>1. CASE n \in DOMAIN billed
    BY <2>1, <1>10, <1>5 DEF InvoiceInv, RunsMarked
  <2>2. CASE n = k
    BY <2>2, <1>8, <1>5, <1>2
  <2> QED
    BY <2>1, <2>2, <1>5
<1>13. BookedOnce'
  <2> SUFFICES ASSUME NEW n \in DOMAIN billed', NEW m \in DOMAIN billed', n < m,
                      billed'[n].source # "run"
               PROVE  billed'[n].source # billed'[m].source
    BY DEF BookedOnce
  <2>1. n \in DOMAIN billed
    BY <1>5, <1>7
  <2>2. CASE m \in DOMAIN billed
    BY <2>1, <2>2, <1>5 DEF InvoiceInv, BookedOnce
  <2>3. CASE m = k
    BY <2>1, <2>3, <1>5, <1>2 DEF Booked
  <2> QED
    BY <2>2, <2>3, <1>5
<1>14. AsPaid'
  <2> SUFFICES ASSUME NEW n \in DOMAIN claims' PROVE Settled(n)'
    BY DEF AsPaid
  <2>1. CASE n \in DOMAIN claims
    BY <2>1, <1>4, <1>5, <1>6 DEF InvoiceInv, AsPaid, Settled
  <2>2. CASE n = k
    BY <2>2, <1>4, <1>5, <1>6, <1>2, BillingAssumption DEF Settled
  <2> QED
    BY <2>1, <2>2, <1>4
<1>15. MarksAreInvoices'
  <2>1. \A m \in BillingMonth : monthRun'[m] = monthRun[m] \/ monthRun'[m] = k
    BY <1>8, <1>7
  <2>2. \A m \in BillingMonth : monthRun[m] \in 0..Len(claims)
    BY DEF InvoiceInv, MarksAreInvoices
  <2> QED
    BY <2>1, <2>2, <1>4, <1>7 DEF MarksAreInvoices, k
<1> QED
  BY <1>9, <1>11, <1>12, <1>13, <1>14, <1>15 DEF InvoiceInv

\* A step that makes no invoice and takes no payment.
InvoicesRest == UNCHANGED << cardRail, claims, billed, charge, monthRun, bankPaid >>

LEMMA InvoicesRestKeeps ==
  ASSUME InvoiceInv, InvoicesRest, remindDay' \in 1..LastBillingDay
  PROVE  InvoiceInv'
<1>1. InvoiceTypes'
  BY DEF InvoiceInv, InvoiceTypes, InvoicesRest
<1>2. MarksAreInvoices' /\ MonthsMarked' /\ RunsMarked'
  BY DEF InvoiceInv, MarksAreInvoices, MonthsMarked, RunsMarked, InvoicesRest
<1>3. BookedOnce' /\ AsPaid'
  BY DEF InvoiceInv, BookedOnce, AsPaid, Settled, InvoicesRest
<1> QED
  BY <1>1, <1>2, <1>3 DEF InvoiceInv

LEMMA InvoiceOneKeeps ==
  ASSUME InvoiceInv, NEW r \in MonthlyRun, InvoiceOne(r)
  PROVE  InvoiceInv'
<1> DEFINE month == MonthOf1(remindDay)
<1>1. month \in BillingMonth /\ remindDay \in 1..LastBillingDay
  BY MonthIsBilled DEF InvoiceInv, InvoiceTypes
<1>2. CASE UNCHANGED << monthRun, billed, charge, varsReminders >>
  BY <1>1, <1>2, InvoicesRestKeeps DEF InvoiceOne, InvoicesRest, varsReminders
<1>3. CASE /\ MonthFree(month)
           /\ \E charged \in {FALSE, cardRail} :
                  Invoice(month, remindDay + DueDays, MonthlyGross, "run", charged)
           /\ monthRun' = [monthRun EXCEPT ![month] = Len(claims')]
  <2>1. PICK charged \in BOOLEAN : Invoice(month, remindDay + DueDays, MonthlyGross, "run", charged)
    BY <1>3 DEF InvoiceInv, InvoiceTypes
  <2>2. UNCHANGED << bankPaid, cardRail >>
    BY DEF InvoiceOne
  <2>3. remindDay + DueDays \in Int /\ MonthlyGross \in Int
    BY <1>1, BillingAssumption
  <2>4. monthRun' = IF MonthFree(month) THEN [monthRun EXCEPT ![month] = Len(claims')] ELSE monthRun
    BY <1>3
  <2> HIDE DEF month
  <2> QED
    BY <1>1, <1>3, <2>1, <2>2, <2>3, <2>4, InvoiceKeeps, ZenonT(60)
<1> QED
  BY <1>2, <1>3 DEF InvoiceOne

LEMMA InvoicePaidKeeps ==
  ASSUME InvoiceInv, NEW s \in Subscription, NEW i \in StripePayment, InvoicePaid(s, i)
  PROVE  InvoiceInv'
<1> DEFINE month == MonthOf1(remindDay)
<1>1. month \in BillingMonth /\ remindDay \in Int
  BY MonthIsBilled, BillingAssumption DEF InvoiceInv, InvoiceTypes
<1>2. /\ i \notin Booked /\ Invoice(month, remindDay, 0, i, FALSE)
      /\ monthRun' = IF MonthFree(month) THEN [monthRun EXCEPT ![month] = Len(claims')] ELSE monthRun
      /\ UNCHANGED << bankPaid, cardRail >>
  BY DEF InvoicePaid
<1>3. i # "run" /\ i \in {"run"} \cup StripePayment /\ FALSE \in BOOLEAN /\ 0 \in Int
  BY BillingAssumption
<1> HIDE DEF month
<1> QED
  BY <1>1, <1>2, <1>3, InvoiceKeeps

\* One claim gets another remainder.
LEMMA Remains ==
  ASSUME InvoiceInv, NEW n \in DOMAIN claims, NEW left \in Int, claims' = [claims EXCEPT ![n].remaining = left]
  PROVE  /\ claims' \in Seq(Claim) /\ Len(claims') = Len(claims) /\ DOMAIN claims' = DOMAIN claims
         /\ claims'[n].remaining = left
         /\ \A k \in DOMAIN claims : k # n => claims'[k] = claims[k]
<1>1. claims \in Seq(Claim) /\ claims[n] \in Claim
  BY DEF InvoiceInv, InvoiceTypes
<1> DEFINE c == [claims[n] EXCEPT !.remaining = left]
<1>2. c \in Claim /\ c.remaining = left
  BY <1>1 DEF Claim
<1>3. claims' = [claims EXCEPT ![n] = c]
  OBVIOUS
<1> HIDE DEF c
<1> QED
  BY <1>1, <1>2, <1>3

LEMMA CardOutcomeKeeps ==
  ASSUME InvoiceInv, NEW n \in DOMAIN claims, NEW ok \in BOOLEAN, CardOutcome(n, ok)
  PROVE  InvoiceInv'
<1>1. /\ billed[n].charged /\ charge[n] = "none"
      /\ charge' = [charge EXCEPT ![n] = IF ok THEN "succeeded" ELSE "failed"]
      /\ UNCHANGED << cardRail, billed, monthRun, bankPaid, remindDay >>
      /\ ok => claims' = [claims EXCEPT ![n].remaining = @ - claims[n].amount]
      /\ ~ ok => UNCHANGED claims
  BY DEF CardOutcome
<1>2. /\ claims[n] \in Claim /\ claims[n].remaining \in Int /\ claims[n].amount = MonthlyGross
      /\ n \in DOMAIN billed /\ DOMAIN claims = DOMAIN charge
      /\ billed[n].source = "run"
  <2>1. /\ claims \in Seq(Claim) /\ Len(billed) = Len(claims) /\ Len(charge) = Len(claims)
        /\ billed \in Seq(Bill) /\ charge \in Seq({"none", "succeeded", "failed"})
    BY DEF InvoiceInv, InvoiceTypes
  <2>2. claims[n] \in Claim /\ n \in DOMAIN billed /\ DOMAIN claims = DOMAIN charge
    BY <2>1
  <2>3. Settled(n)
    BY DEF InvoiceInv, AsPaid
  <2>4. billed[n].source = "run"
    BY <2>3, <1>1 DEF Settled
  <2> QED
    BY <2>2, <2>4 DEF Claim
<1>3. /\ charge' \in Seq({"none", "succeeded", "failed"}) /\ Len(charge') = Len(charge)
      /\ charge'[n] = IF ok THEN "succeeded" ELSE "failed"
      /\ \A k \in DOMAIN claims : k # n => charge'[k] = charge[k]
  BY <1>1, <1>2 DEF InvoiceInv, InvoiceTypes
<1>4. /\ claims' \in Seq(Claim) /\ Len(claims') = Len(claims) /\ DOMAIN claims' = DOMAIN claims
      /\ \A k \in DOMAIN claims : k # n => claims'[k] = claims[k]
      /\ claims'[n].remaining = IF ok THEN claims[n].remaining - MonthlyGross ELSE claims[n].remaining
  <2>1. CASE ok
    <3> DEFINE left == claims[n].remaining - MonthlyGross
    <3>1. left \in Int /\ claims' = [claims EXCEPT ![n].remaining = left]
      BY <1>1, <1>2, <2>1, BillingAssumption
    <3> HIDE DEF left
    <3>2. /\ claims' \in Seq(Claim) /\ Len(claims') = Len(claims) /\ DOMAIN claims' = DOMAIN claims
          /\ claims'[n].remaining = left
          /\ \A k \in DOMAIN claims : k # n => claims'[k] = claims[k]
      BY <3>1, Remains
    <3> QED
      BY <3>2, <2>1 DEF left
  <2>2. CASE ~ ok
    BY <1>1, <2>2 DEF InvoiceInv, InvoiceTypes
  <2> QED
    BY <2>1, <2>2
<1>5. InvoiceTypes'
  BY <1>1, <1>3, <1>4 DEF InvoiceInv, InvoiceTypes
<1>6. MarksAreInvoices' /\ MonthsMarked' /\ RunsMarked' /\ BookedOnce'
  BY <1>1, <1>4 DEF InvoiceInv, MarksAreInvoices, MonthsMarked, RunsMarked, BookedOnce
<1>7. AsPaid'
  <2> SUFFICES ASSUME NEW k \in DOMAIN claims PROVE Settled(k)'
    BY <1>4 DEF AsPaid
  <2>1. Settled(k)
    BY DEF InvoiceInv, AsPaid
  <2>2. CASE k # n
    BY <2>1, <2>2, <1>1, <1>3, <1>4 DEF Settled
  <2>3. CASE k = n
    <3>1. CASE ok
      <4>1. /\ claims'[n].remaining = claims[n].remaining - MonthlyGross /\ charge'[n] = "succeeded"
            /\ billed'[n].source = "run"
        BY <3>1, <1>1, <1>2, <1>3, <1>4
      <4>2. n \notin bankPaid => claims[n].remaining = MonthlyGross
        BY <2>1, <2>3, <1>1, <1>2 DEF Settled
      <4>3. claims'[n].remaining < 0 => n \in bankPaid'
        BY <4>1, <4>2, <1>1, BillingAssumption
      <4> QED
        BY <2>3, <4>1, <4>3 DEF Settled
    <3>2. CASE ~ ok
      BY <2>1, <2>3, <3>2, <1>1, <1>2, <1>3, <1>4, BillingAssumption DEF Settled
    <3> QED
      BY <3>1, <3>2
  <2> QED
    BY <2>2, <2>3
<1> QED
  BY <1>5, <1>6, <1>7 DEF InvoiceInv

LEMMA BankPaysKeeps ==
  ASSUME InvoiceInv, NEW n \in DOMAIN claims, BankPays(n)
  PROVE  InvoiceInv'
<1>1. /\ claims[n].remaining > 0 /\ bankPaid' = bankPaid \cup {n}
      /\ claims' = [claims EXCEPT ![n].remaining = 0]
      /\ UNCHANGED << cardRail, billed, monthRun, charge, remindDay >>
  BY DEF BankPays
<1>2. /\ claims' \in Seq(Claim) /\ Len(claims') = Len(claims) /\ DOMAIN claims' = DOMAIN claims
      /\ claims'[n].remaining = 0
      /\ \A k \in DOMAIN claims : k # n => claims'[k] = claims[k]
  <2> DEFINE left == 0
  <2>1. left \in Int /\ claims' = [claims EXCEPT ![n].remaining = left]
    BY <1>1
  <2>2. left = 0
    OBVIOUS
  <2> HIDE DEF left
  <2>3. /\ claims' \in Seq(Claim) /\ Len(claims') = Len(claims) /\ DOMAIN claims' = DOMAIN claims
        /\ claims'[n].remaining = left
        /\ \A k \in DOMAIN claims : k # n => claims'[k] = claims[k]
    BY <2>1, Remains
  <2> QED
    BY <2>2, <2>3
<1>3. InvoiceTypes'
  BY <1>1, <1>2 DEF InvoiceInv, InvoiceTypes
<1>4. MarksAreInvoices' /\ MonthsMarked' /\ RunsMarked' /\ BookedOnce'
  BY <1>1, <1>2 DEF InvoiceInv, MarksAreInvoices, MonthsMarked, RunsMarked, BookedOnce
<1>5. \A k \in DOMAIN claims : Settled(k)'
  BY <1>1, <1>2 DEF InvoiceInv, AsPaid, Settled
<1> QED
  BY <1>2, <1>3, <1>4, <1>5 DEF InvoiceInv, AsPaid

LEMMA InvoiceNext == ASSUME InvoiceInv, NextBilling PROVE InvoiceInv'
<1>1. remindDay \in 1..LastBillingDay
  BY DEF InvoiceInv, InvoiceTypes
<1>2. CASE OpsOpens \/ OpsCloses \/ TomorrowBilling
  <2>1. remindDay' \in 1..LastBillingDay
    <3>1. CASE OpsOpens \/ OpsCloses
      BY <1>1, <3>1 DEF OpsOpens, OpsCloses, RestOfBilling, varsReminders
    <3>2. CASE TomorrowBilling
      BY <1>1, <3>2, BillingAssumption DEF TomorrowBilling
    <3> QED
      BY <1>2, <3>1, <3>2
  <2>2. InvoicesRest
    BY <1>2 DEF OpsOpens, OpsCloses, TomorrowBilling, RestOfBilling, varsReminders, Unfollowed, InvoicesRest
  <2> QED
    BY <2>1, <2>2, InvoicesRestKeeps
<1>3. CASE \E r \in MonthlyRun : ReadCustomers(r) \/ InvoiceOne(r)
  <2>1. ASSUME NEW r \in MonthlyRun, ReadCustomers(r) PROVE InvoiceInv'
    BY <1>1, <2>1, InvoicesRestKeeps DEF ReadCustomers, InvoicesRest, varsReminders
  <2> QED
    BY <1>3, <2>1, InvoiceOneKeeps
<1>4. CASE \E n \in DOMAIN claims : BankPays(n) \/ \E ok \in BOOLEAN : CardOutcome(n, ok)
  BY <1>4, BankPaysKeeps, CardOutcomeKeeps
<1>5. CASE \E w \in Worker : CheckRestore(w) \/ Reopen(w) \/ LogRestored(w) \/ FollowerCrash(w)
  BY <1>1, <1>5, InvoicesRestKeeps DEF CheckRestore, Reopen, LogRestored, FollowerCrash, InvoicesRest,
     Unfollowed, varsReminders
<1>6. CASE NextSubscriptions
  <2>1. ASSUME NEW p \in Person, \/ StartSubscription(p) \/ OpenStarted(p)
                                 \/ \E s \in Subscription : Checkout(p, s)
        PROVE  InvoiceInv'
    BY <1>1, <2>1, InvoicesRestKeeps DEF StartSubscription, OpenStarted, Checkout, AtProvider, InvoicesRest,
       RestOfBilling, varsReminders
  <2>2. ASSUME NEW s \in Subscription,
               \/ ProviderEnds(s) \/ SubscriptionCreated(s) \/ SubscriptionDeleted(s)
               \/ \E i \in StripePayment : ProviderCharges(s, i)
        PROVE  InvoiceInv'
    BY <1>1, <2>2, InvoicesRestKeeps DEF ProviderEnds, SubscriptionCreated, SubscriptionDeleted, ProviderCharges,
       AtProvider, InvoicesRest, RestOfBilling, varsReminders
  <2> QED
    BY <1>6, <2>1, <2>2, InvoicePaidKeeps DEF NextSubscriptions
<1>7. CASE NextFollowUp
  <2>1. ASSUME NEW f \in Follower, Snapshot(f) \/ EndCoverage(f) \/ LogBlock(f) PROVE InvoiceInv'
    BY <1>1, <2>1, InvoicesRestKeeps DEF Snapshot, EndCoverage, LogBlock, InvoicesRest, Unfollowed, varsReminders
  <2>2. ASSUME NEW w, UNCHANGED Unfollowed, CreateReminder(w) \/ ReminderFails(w) PROVE InvoiceInv'
    BY <1>1, <2>2, InvoicesRestKeeps DEF CreateReminder, ReminderFails, InvoicesRest, Unfollowed
  <2>3. ASSUME NEW w, NEW n, NEW draft, UNCHANGED Unfollowed, Prepare(w, n, draft) PROVE InvoiceInv'
    <3>1. UNCHANGED << claims, remindDay >>
      BY <2>3 DEF Prepare
    <3> QED
      BY <1>1, <2>3, <3>1, InvoicesRestKeeps DEF InvoicesRest, Unfollowed
  <2>4. ASSUME NEW f \in Follower, RemindOne(f) PROVE InvoiceInv'
    <3>1. UNCHANGED Unfollowed /\ (UNCHANGED varsReminders \/ \E x : Purr(f, x))
      BY <2>4 DEF RemindOne
    <3>2. CASE UNCHANGED Unfollowed /\ UNCHANGED varsReminders
      BY <1>1, <3>2, InvoicesRestKeeps DEF InvoicesRest, Unfollowed, varsReminders
    <3> QED
      BY <3>1, <3>2, <2>3 DEF Purr
  <2>5. CASE \E f \in Follower : Snapshot(f) \/ RemindOne(f) \/ RecordOne(f) \/ EndCoverage(f) \/ LogBlock(f)
    BY <2>5, <2>1, <2>2, <2>4 DEF RecordOne
  <2>6. CASE NextPersonReminds /\ UNCHANGED << Unfollowed, coverage, follow, trail, unlogged, billingTrouble >>
    BY <2>6, <2>2, <2>3 DEF NextPersonReminds, AskForReminder
  <2> QED
    BY <1>7, <2>5, <2>6 DEF NextFollowUp
<1> QED
  BY <1>2, <1>3, <1>4, <1>5, <1>6, <1>7 DEF NextBilling, NextInvoices

LEMMA InvoiceStutter == ASSUME InvoiceInv, UNCHANGED varsBilling PROVE InvoiceInv'
  BY InvoicesRestKeeps DEF varsBilling, varsReminders, InvoicesRest, InvoiceInv, InvoiceTypes

\* A month gets one invoice of the run, a payment of the provider's is booked
\* once, and only the bank beside the card pays an invoice beyond its amount,
\* for any number of overlapping runs, subscriptions and deliveries.
THEOREM InvoicedOnce == SpecBilling => []BilledOnce
<1>1. InvoiceInv /\ [NextBilling]_varsBilling => InvoiceInv'
  BY InvoiceNext, InvoiceStutter
<1> QED
  BY InvoiceInit, <1>1, InvoicesOnce, PTL DEF SpecBilling

-----------------------------------------------------------------------------
(***************************************************************************)
(* The ladder.  Of a claim that nobody contended at most one step is       *)
(* prepared, and it still fits the rows there are.                         *)
(***************************************************************************)
ReminderTypes ==
    /\ reminding = [d \in Dunner |-> reminding[d]]
    /\ \E S : reminders \in Seq(S)
    /\ \A k \in DOMAIN reminders : reminders[k].claim \in DOMAIN claims
    /\ \A d \in Dunner : reminding[d] = NotReminding \/ reminding[d].claim \in DOMAIN claims

Climbs(n) ==
    /\ \A i, j \in HistoryOf(n) : i < j => Rung(reminders[i].step) <= Rung(reminders[j].step)
    /\ Cardinality(WithFee(HistoryOf(n))) <= 2
    /\ \A i \in WithFee(HistoryOf(n)) :
          reminders[i].step # "paminnelse" /\ reminders[i].sent >= claims[n].due + FeeAfter

AloneOn(n) == \A v, w \in Dunner : reminding[v].claim = n /\ reminding[w].claim = n => v = w

StepFits(n, r) ==
    /\ \A k \in HistoryOf(n) : Rung(reminders[k].step) <= Rung(r.step)
    /\ r.fee > 0 => /\ r.step # "paminnelse" /\ r.sent >= claims[n].due + FeeAfter
                    /\ Cardinality(WithFee(HistoryOf(n))) < 2

StillFits(n) == \A w \in Dunner : reminding[w].claim = n => StepFits(n, reminding[w])

LadderInv ==
    /\ ReminderTypes
    /\ \A n \in DOMAIN claims \ overlapped : Climbs(n) /\ AloneOn(n) /\ StillFits(n)

LEMMA LadderClimbs == LadderInv => ClimbsTheLadder
  BY DEF LadderInv, ClimbsTheLadder, Climbs

LEMMA LadderInit == InitBilling => LadderInv
<1> SUFFICES ASSUME InitBilling PROVE LadderInv
  OBVIOUS
<1>1. claims = << >> /\ reminders = << >> /\ reminding = [w \in Dunner |-> NotReminding]
  BY DEF InitBilling, InitReminders
<1>2. reminders \in Seq({})
  BY <1>1
<1> QED
  BY <1>1, <1>2 DEF LadderInv, ReminderTypes

LEMMA NumberedClaims ==
  ASSUME InvoiceInv PROVE DOMAIN claims = 1..Len(claims) /\ Len(claims) \in Nat /\ 0 \notin DOMAIN claims
  BY DEF InvoiceInv, InvoiceTypes

\* Claims are added at the end, and their due dates stay.
DuesStay ==
    /\ DOMAIN claims \subseteq DOMAIN claims'
    /\ \A n \in DOMAIN claims : claims'[n].due = claims[n].due

LEMMA LadderStays ==
  ASSUME InvoiceInv, InvoiceInv', LadderInv, DuesStay, UNCHANGED << reminders, reminding, overlapped >>
  PROVE  LadderInv'
<1>1. 0 \notin DOMAIN claims'
  BY DEF InvoiceInv, InvoiceTypes
<1>2. ReminderTypes'
  BY DEF LadderInv, ReminderTypes, DuesStay
<1>3. \A n : HistoryOf(n)' = HistoryOf(n) /\ WithFee(HistoryOf(n))' = WithFee(HistoryOf(n))
  BY DEF HistoryOf, WithFee
<1>4. ASSUME NEW n \in DOMAIN claims' \ overlapped' PROVE (Climbs(n) /\ AloneOn(n) /\ StillFits(n))'
  <2>1. CASE n \in DOMAIN claims
    <3>1. Climbs(n) /\ AloneOn(n) /\ StillFits(n) /\ claims'[n].due = claims[n].due
      BY <1>4, <2>1 DEF LadderInv, DuesStay
    <3> QED
      BY <3>1, <1>3 DEF Climbs, AloneOn, StillFits, StepFits
  <2>2. CASE n \notin DOMAIN claims
    <3>1. HistoryOf(n) = {} /\ WithFee(HistoryOf(n)) = {}
      BY <2>2 DEF LadderInv, ReminderTypes, HistoryOf, WithFee
    <3>2. \A d \in Dunner : reminding[d].claim # n
      BY <2>2, <1>1, <1>4 DEF LadderInv, ReminderTypes, NotReminding
    <3>3. Cardinality({}) = 0
      BY FS_EmptySet
    <3> QED
      BY <3>1, <3>2, <3>3, <1>3 DEF Climbs, AloneOn, StillFits
  <2> QED
    BY <2>1, <2>2
<1> QED
  BY <1>2, <1>4 DEF LadderInv

\* A step is prepared on a claim.
LEMMA PrepareClimbs ==
  ASSUME InvoiceInv, LadderInv, NEW w \in Dunner, NEW n \in DOMAIN claims, NEW draft, Prepare(w, n, draft)
  PROVE  LadderInv'
<1>1. PICK r : /\ reminding' = [reminding EXCEPT ![w] = r]
               /\ r.claim = n /\ StepFits(n, r)
  <2> DEFINE interest == IF draft.interest
                 THEN LatePaymentInterest(claims[n].remaining, claims[n].due, remindDay) ELSE 0
             r == [claim |-> n, step |-> draft.step, sent |-> remindDay, fee |-> draft.fee, interest |-> interest]
  <2>1. /\ reminding' = [reminding EXCEPT ![w] = r]
        /\ ValidStep(draft.step, remindDay, draft.grace, claims[n].due, draft.fee,
                     Ceiling(draft.domain, remindDay), HistoryOf(n))
    BY DEF Prepare
  <2>2. r.claim = n /\ r.step = draft.step /\ r.sent = remindDay /\ r.fee = draft.fee
    OBVIOUS
  <2> HIDE DEF r, interest
  <2>3. StepFits(n, r)
    BY <2>1, <2>2 DEF ValidStep, StepFits
  <2> QED
    BY <2>1, <2>2, <2>3
<1>2. /\ overlapped' = overlapped \cup {m \in {n} : \E v \in Dunner \ {w} : reminding[v].claim = n}
      /\ UNCHANGED << claims, reminders >>
  BY DEF Prepare
<1>3. /\ reminding'[w] = r /\ \A d \in Dunner : d # w => reminding'[d] = reminding[d]
      /\ reminding' = [d \in Dunner |-> reminding'[d]]
  BY <1>1 DEF LadderInv, ReminderTypes
<1>4. ReminderTypes'
  BY <1>1, <1>2, <1>3 DEF LadderInv, ReminderTypes
<1>5. \A m : HistoryOf(m)' = HistoryOf(m) /\ WithFee(HistoryOf(m))' = WithFee(HistoryOf(m))
  BY <1>2 DEF HistoryOf, WithFee
<1>6. ASSUME NEW m \in DOMAIN claims' \ overlapped' PROVE (Climbs(m) /\ AloneOn(m) /\ StillFits(m))'
  <2>1. Climbs(m) /\ AloneOn(m) /\ StillFits(m)
    BY <1>2, <1>6 DEF LadderInv
  <2>2. Climbs(m)'
    BY <2>1, <1>2, <1>5 DEF Climbs
  <2>3. CASE m # n
    BY <2>1, <2>2, <2>3, <1>1, <1>2, <1>3, <1>5 DEF AloneOn, StillFits, StepFits
  <2>4. CASE m = n
    <3>1. \A d \in Dunner : d # w => reminding'[d].claim # n
      BY <2>4, <1>2, <1>3, <1>6
    <3> QED
      BY <2>2, <2>4, <3>1, <1>1, <1>2, <1>3, <1>5 DEF AloneOn, StillFits, StepFits
  <2> QED
    BY <2>3, <2>4
<1> QED
  BY <1>4, <1>6 DEF LadderInv

\* A prepared step is given up.
GivesUp(w) ==
    /\ reminding' = [d \in Dunner |-> IF d = w THEN NotReminding ELSE reminding[d]]
    /\ UNCHANGED << claims, reminders, overlapped >>

LEMMA GivingUpClimbs ==
  ASSUME InvoiceInv, LadderInv, NEW w, GivesUp(w)
  PROVE  LadderInv'
<1>1. \A n : HistoryOf(n)' = HistoryOf(n) /\ WithFee(HistoryOf(n))' = WithFee(HistoryOf(n))
  BY DEF HistoryOf, WithFee, GivesUp
<1>2. ReminderTypes'
  BY DEF LadderInv, ReminderTypes, GivesUp
<1>3. \A d \in Dunner, n \in DOMAIN claims :
         reminding'[d].claim = n => reminding'[d] = reminding[d] /\ reminding[d].claim = n
  BY NumberedClaims DEF GivesUp, NotReminding
<1>4. ASSUME NEW n \in DOMAIN claims' \ overlapped' PROVE (Climbs(n) /\ AloneOn(n) /\ StillFits(n))'
  <2>1. n \in DOMAIN claims /\ Climbs(n) /\ AloneOn(n) /\ StillFits(n)
    BY <1>4 DEF LadderInv, GivesUp
  <2>2. UNCHANGED << claims, reminders >>
    BY DEF GivesUp
  <2> QED
    BY <2>1, <2>2, <1>1, <1>3 DEF Climbs, AloneOn, StillFits, StepFits
<1> QED
  BY <1>2, <1>4 DEF LadderInv

\* A prepared step becomes a row.
LEMMA RowClimbs ==
  ASSUME InvoiceInv, LadderInv, NEW w \in Dunner, CreateReminder(w)
  PROVE  LadderInv'
<1>0. PICK r, m, k : r = reminding[w] /\ m = r.claim /\ k = Len(reminders')
  OBVIOUS
<1>1. /\ r # NotReminding /\ reminders' = Append(reminders, r)
      /\ reminding' = [reminding EXCEPT ![w] = NotReminding]
      /\ UNCHANGED << claims, overlapped >>
  BY <1>0 DEF CreateReminder
<1>2. m \in DOMAIN claims
  BY <1>0, <1>1 DEF LadderInv, ReminderTypes
<1>3. PICK S : reminders \in Seq(S)
  BY DEF LadderInv, ReminderTypes
<1>4. /\ reminders' \in Seq(S \cup {r}) /\ k \in Nat
      /\ DOMAIN reminders' = DOMAIN reminders \cup {k} /\ reminders'[k] = r
      /\ \A i \in DOMAIN reminders : i < k /\ i \in Nat /\ reminders'[i] = reminders[i]
  <2>1. reminders \in Seq(S \cup {r})
    BY <1>3
  <2> QED
    BY <2>1, <1>0, <1>1, OneAppended
<1>5. /\ reminding'[w] = NotReminding /\ \A d \in Dunner : d # w => reminding'[d] = reminding[d]
      /\ reminding' = [d \in Dunner |-> reminding'[d]]
  BY <1>1 DEF LadderInv, ReminderTypes
<1>6. ReminderTypes'
  <2>1. \A i \in DOMAIN reminders' : reminders'[i].claim \in DOMAIN claims'
    BY <1>0, <1>1, <1>2, <1>4 DEF LadderInv, ReminderTypes
  <2> QED
    BY <2>1, <1>1, <1>4, <1>5 DEF LadderInv, ReminderTypes
<1>7. \A n : n # m => HistoryOf(n)' = HistoryOf(n)
  BY <1>0, <1>4 DEF HistoryOf
<1>8. HistoryOf(m)' = HistoryOf(m) \cup {k} /\ k \notin HistoryOf(m) /\ HistoryOf(m) \subseteq DOMAIN reminders
  BY <1>0, <1>4 DEF HistoryOf
<1>9. ASSUME NEW n \in DOMAIN claims' \ overlapped' PROVE (Climbs(n) /\ AloneOn(n) /\ StillFits(n))'
  <2>1. n \in DOMAIN claims /\ Climbs(n) /\ AloneOn(n) /\ StillFits(n)
    BY <1>1, <1>9 DEF LadderInv
  <2>2. /\ \A d \in Dunner : reminding'[d].claim = n => reminding'[d] = reminding[d] /\ d # w
        /\ n # 0
    BY <1>5, <2>1, NumberedClaims DEF NotReminding
  <2>3. AloneOn(n)'
    BY <2>1, <2>2 DEF AloneOn
  <2>4. CASE n # m
    <3>1. HistoryOf(n)' = HistoryOf(n) /\ HistoryOf(n) \subseteq DOMAIN reminders
      BY <2>4, <1>7 DEF HistoryOf
    <3>2. WithFee(HistoryOf(n))' = WithFee(HistoryOf(n)) /\ WithFee(HistoryOf(n)) \subseteq HistoryOf(n)
      BY <3>1, <1>4 DEF WithFee
    <3>3. Climbs(n)'
      BY <2>1, <3>1, <3>2, <1>1, <1>4 DEF Climbs
    <3>4. \A d \in Dunner : reminding'[d].claim = n => StepFits(n, reminding[d])
      BY <2>1, <2>2 DEF StillFits
    <3>5. ASSUME NEW d \in Dunner, reminding'[d].claim = n PROVE StepFits(n, reminding[d])'
      <4>1. StepFits(n, reminding[d]) /\ reminding'[d] = reminding[d]
        BY <3>4, <3>5, <2>2
      <4>2. \A i \in HistoryOf(n) : reminders'[i] = reminders[i]
        BY <3>1, <1>4
      <4> QED
        BY <4>1, <4>2, <3>1, <3>2, <1>1 DEF StepFits
    <3> QED
      BY <2>3, <3>3, <3>5 DEF StillFits
  <2>5. CASE n = m
    <3>1. StepFits(m, r)
      BY <1>0, <2>1, <2>5 DEF StillFits
    <3>2. \A d \in Dunner : reminding'[d].claim # m
      BY <1>0, <2>1, <2>2, <2>5 DEF AloneOn
    <3>3. /\ WithFee(HistoryOf(m))' = WithFee(HistoryOf(m)) \cup {i \in {k} : r.fee > 0}
          /\ WithFee(HistoryOf(m)) \subseteq HistoryOf(m)
      BY <1>4, <1>8 DEF WithFee
    <3>4. IsFiniteSet(WithFee(HistoryOf(m)))
      <4>1. DOMAIN reminders = 1..Len(reminders) /\ Len(reminders) \in Nat
        BY <1>3
      <4>2. IsFiniteSet(1..Len(reminders))
        BY <4>1, FS_Interval
      <4> QED
        BY <4>1, <4>2, <3>3, <1>8, FS_Subset
    <3>5. Cardinality(WithFee(HistoryOf(m)))' <= 2
      <4>1. CASE r.fee > 0
        <5>1. WithFee(HistoryOf(m))' = WithFee(HistoryOf(m)) \cup {k} /\ k \notin WithFee(HistoryOf(m))
          BY <4>1, <3>3, <1>8
        <5>2. Cardinality(WithFee(HistoryOf(m)) \cup {k}) = Cardinality(WithFee(HistoryOf(m))) + 1
          BY <5>1, <3>4, FS_AddElement
        <5>3. Cardinality(WithFee(HistoryOf(m))) < 2 /\ Cardinality(WithFee(HistoryOf(m))) \in Nat
          BY <4>1, <3>1, <3>4, FS_CardinalityType DEF StepFits
        <5> QED
          BY <5>1, <5>2, <5>3
      <4>2. CASE ~ (r.fee > 0)
        <5>1. WithFee(HistoryOf(m))' = WithFee(HistoryOf(m))
          BY <4>2, <3>3
        <5> QED
          BY <5>1, <2>1, <2>5 DEF Climbs
      <4> QED
        BY <4>1, <4>2
    <3>6. ASSUME NEW i \in HistoryOf(m)', NEW j \in HistoryOf(m)', i < j
          PROVE  Rung(reminders'[i].step) <= Rung(reminders'[j].step)
      <4>1. i \in HistoryOf(m) /\ i # k
        BY <3>6, <1>4, <1>8
      <4>2. CASE j = k
        BY <4>1, <4>2, <3>1, <1>4, <1>8 DEF StepFits
      <4>3. CASE j \in HistoryOf(m)
        BY <4>1, <4>3, <3>6, <2>1, <2>5, <1>4, <1>8 DEF Climbs
      <4> QED
        BY <4>2, <4>3, <1>8
    <3>7. ASSUME NEW i \in WithFee(HistoryOf(m))'
          PROVE  reminders'[i].step # "paminnelse" /\ reminders'[i].sent >= claims'[m].due + FeeAfter
      <4>1. CASE i = k /\ r.fee > 0
        BY <4>1, <3>1, <1>1, <1>4 DEF StepFits
      <4>2. CASE i \in WithFee(HistoryOf(m))
        BY <4>2, <3>3, <2>1, <2>5, <1>1, <1>4, <1>8 DEF Climbs
      <4> QED
        BY <4>1, <4>2, <3>3
    <3>8. Climbs(m)'
      BY <3>5, <3>6, <3>7 DEF Climbs
    <3> QED
      BY <2>3, <2>5, <3>2, <3>8 DEF StillFits
  <2> QED
    BY <2>4, <2>5
<1> QED
  BY <1>6, <1>9 DEF LadderInv

(***************************************************************************)
(* What every step does to the tables: only these kinds of steps there     *)
(* are.                                                                    *)
(***************************************************************************)
Rows3 == << claims, reminders, reminding, overlapped, remindDay >>
Books3 == << coverage, trail, follow, unlogged >>

Opened(by) == (OpenCoverage(by) \/ UNCHANGED coverage) /\ UNCHANGED << Rows3, trail, follow, unlogged >>
Closed(by) == CloseCoverage(remindDay, by) /\ UNCHANGED << Rows3, trail, follow, unlogged >>
Billed == UNCHANGED << reminders, reminding, overlapped, remindDay, coverage, trail, follow, unlogged >>
Charged ==
    /\ UNCHANGED << reminders, reminding, overlapped, remindDay, coverage, trail, unlogged >>
    /\ follow[Webhook] = Resting /\ follow' = [follow EXCEPT ![Webhook].pc = "restore"]
Passed == /\ UNCHANGED << claims, reminders, reminding, overlapped, Books3 >> /\ remindDay' = remindDay + 1
Written(w) == (CreateReminder(w) \/ ReminderFails(w)) /\ UNCHANGED << remindDay, Books3 >>
Reminded(f) ==
    \E x \in follow[f].left :
        /\ follow' = [follow EXCEPT ![f].left = @ \ {x}]
        /\ (\E draft : Prepare(f, x.claim, draft)) \/ UNCHANGED Rows3
        /\ UNCHANGED << remindDay, coverage, trail, unlogged >>

InvoiceStep ==
    \/ \E r \in MonthlyRun : InvoiceOne(r)
    \/ \E s \in Subscription, i \in StripePayment : InvoicePaid(s, i)
    \/ \E n \in DOMAIN claims : BankPays(n) \/ \E ok \in BOOLEAN : CardOutcome(n, ok)

LEMMA Kinds ==
  ASSUME NextBilling
  PROVE  \/ \E by \in {"ops", "portal", "stripe"} : Opened(by) \/ Closed(by)
         \/ InvoiceStep /\ (Billed \/ Charged)
         \/ Passed
         \/ \E w \in Person : Written(w) \/ \E n \in DOMAIN claims : \E draft : Prepare(w, n, draft) /\ UNCHANGED Books3
         \/ \E f \in Follower : Written(f) \/ Reminded(f) \/ Snapshot(f) \/ EndCoverage(f) \/ LogBlock(f)
         \/ \E w \in Worker : CheckRestore(w) \/ Reopen(w) \/ LogRestored(w) \/ FollowerCrash(w)
<1>1. CASE OpsOpens \/ OpsCloses \/ TomorrowBilling
  BY <1>1 DEF OpsOpens, OpsCloses, TomorrowBilling, RestOfBilling, varsReminders, Opened, Closed, Passed, Rows3,
     Books3, Unfollowed
<1>2. CASE \E r \in MonthlyRun : ReadCustomers(r)
  BY <1>2 DEF ReadCustomers, varsReminders, Opened, Rows3
<1>3. CASE \E r \in MonthlyRun : InvoiceOne(r)
  BY <1>3 DEF InvoiceOne, Invoice, varsReminders, InvoiceStep, Billed
<1>4. CASE \E n \in DOMAIN claims : BankPays(n)
  BY <1>4 DEF BankPays, InvoiceStep, Billed
<1>5. CASE \E n \in DOMAIN claims, ok \in BOOLEAN : CardOutcome(n, ok)
  BY <1>5 DEF CardOutcome, InvoiceStep, Billed, Charged
<1>6. CASE \E p \in Person : \/ StartSubscription(p) \/ OpenStarted(p)
                             \/ \E s \in Subscription : Checkout(p, s)
  BY <1>6 DEF StartSubscription, OpenStarted, Checkout, AtProvider, RestOfBilling, varsReminders, Opened, Rows3
<1>7. CASE \E s \in Subscription : \/ ProviderEnds(s) \/ SubscriptionCreated(s) \/ SubscriptionDeleted(s)
                                   \/ \E i \in StripePayment : ProviderCharges(s, i)
  BY <1>7 DEF ProviderEnds, SubscriptionCreated, SubscriptionDeleted, ProviderCharges, AtProvider, RestOfBilling,
     varsReminders, Opened, Closed, Rows3
<1>8. CASE \E s \in Subscription, i \in StripePayment : InvoicePaid(s, i)
  BY <1>8 DEF InvoicePaid, Invoice, InvoiceStep, Billed
<1>9. CASE \E f \in Follower : RemindOne(f)
  <2>1. PICK f \in Follower : RemindOne(f)
    BY <1>9
  <2>2. PICK x \in follow[f].left : /\ Purr(f, x) \/ UNCHANGED varsReminders
                                   /\ follow' = [follow EXCEPT ![f].left = @ \ {x}]
                                   /\ UNCHANGED << coverage, trail, unlogged >>
    BY <2>1 DEF RemindOne
  <2>3. CASE UNCHANGED varsReminders
    BY <2>2, <2>3 DEF varsReminders, Reminded, Rows3
  <2>4. CASE Purr(f, x)
    <3>1. PICK draft : Prepare(f, x.claim, draft)
      BY <2>4 DEF Purr
    <3>2. UNCHANGED remindDay
      BY <3>1 DEF Prepare
    <3> QED
      BY <2>2, <3>1, <3>2 DEF Reminded
  <2> QED
    BY <2>2, <2>3, <2>4
<1>10. CASE \E f \in Follower : RecordOne(f)
  BY <1>10 DEF RecordOne, Written, Books3, CreateReminder, ReminderFails
<1>11. CASE NextPersonReminds /\ UNCHANGED << Unfollowed, coverage, follow, trail, unlogged, billingTrouble >>
  BY <1>11 DEF NextPersonReminds, AskForReminder, Written, Books3, CreateReminder, ReminderFails
<1> QED
  BY <1>1, <1>2, <1>3, <1>4, <1>5, <1>6, <1>7, <1>8, <1>9, <1>10, <1>11
     DEF NextBilling, NextInvoices, NextSubscriptions, NextFollowUp

LEMMA InvoicesKeepDues ==
  ASSUME InvoiceInv, InvoiceStep PROVE DuesStay
<1>1. claims \in Seq(Claim)
  BY DEF InvoiceInv, InvoiceTypes
<1>2. ASSUME NEW c, NEW m, NEW d, NEW l, NEW s, Invoice(m, d, l, s, c) PROVE DuesStay
  <2> DEFINE row == [due |-> d, amount |-> MonthlyGross, remaining |-> l]
  <2>1. claims' = Append(claims, row)
    BY <1>2 DEF Invoice
  <2> HIDE DEF row
  <2>2. claims \in Seq(Claim \cup {row})
    BY <1>1
  <2> QED
    BY <2>1, <2>2, OneAppended DEF DuesStay
<1>3. CASE UNCHANGED claims
  BY <1>3 DEF DuesStay
<1>4. ASSUME NEW n \in DOMAIN claims, NEW left, claims' = [claims EXCEPT ![n].remaining = left] PROVE DuesStay
  <2>1. claims[n] \in Claim
    BY <1>1
  <2> DEFINE row == [claims[n] EXCEPT !.remaining = left]
  <2>2. row.due = claims[n].due /\ claims' = [claims EXCEPT ![n] = row]
    BY <1>4, <2>1 DEF Claim
  <2> HIDE DEF row
  <2> QED
    BY <1>1, <2>2 DEF DuesStay
<1>5. CASE \E r \in MonthlyRun : InvoiceOne(r)
  BY <1>5, <1>2, <1>3 DEF InvoiceOne, varsReminders
<1>6. CASE \E s \in Subscription, i \in StripePayment : InvoicePaid(s, i)
  BY <1>6, <1>2 DEF InvoicePaid
<1>7. CASE \E n \in DOMAIN claims : BankPays(n)
  <2>1. PICK n \in DOMAIN claims : claims' = [claims EXCEPT ![n].remaining = 0]
    BY <1>7 DEF BankPays
  <2>2. PICK left : left = 0
    OBVIOUS
  <2> QED
    BY <2>1, <2>2, <1>4
<1>8. CASE \E n \in DOMAIN claims, ok \in BOOLEAN : CardOutcome(n, ok)
  <2>1. PICK n \in DOMAIN claims, ok \in BOOLEAN : CardOutcome(n, ok)
    BY <1>8
  <2>2. PICK left : left = claims[n].remaining - claims[n].amount
    OBVIOUS
  <2>3. CASE ok
    BY <2>1, <2>2, <2>3, <1>4 DEF CardOutcome
  <2>4. CASE ~ ok
    BY <2>1, <2>4, <1>3 DEF CardOutcome
  <2> QED
    BY <2>3, <2>4
<1> QED
  BY <1>5, <1>6, <1>7, <1>8 DEF InvoiceStep

(***************************************************************************)
(* The follow-up.  What a worker has seen of a claim stays true of the due *)
(* date and of the rows of reminders; coverage it ended had a demand.      *)
(***************************************************************************)
Shaped(r) == r = [pc |-> r.pc, snap |-> r.snap, left |-> r.left]

SeenTrue(x) ==
    /\ x.claim \in DOMAIN claims /\ x.due = claims[x.claim].due
    /\ \A l \in x.last : \E k \in DOMAIN reminders : reminders[k] = l /\ reminders[k].claim = x.claim

SnapInv ==
    /\ follow = [w \in Worker |-> follow[w]]
    /\ \A w \in Worker : /\ Shaped(follow[w])
                         /\ follow[w].left \subseteq follow[w].snap
                         /\ \A x \in follow[w].snap : SeenTrue(x)

LEMMA SnapInit == InitBilling => SnapInv
  BY DEF InitBilling, SnapInv, Resting, Shaped

RowsStay ==
    \A k \in DOMAIN reminders : k \in DOMAIN reminders' /\ reminders'[k] = reminders[k]

LEMMA SeenStays ==
  ASSUME NEW x, SeenTrue(x), DuesStay, RowsStay PROVE SeenTrue(x)'
  BY DEF SeenTrue, DuesStay, RowsStay

\* One worker moves to another record.
LEMMA OneMoves ==
  ASSUME SnapInv, NEW w \in Worker, NEW r, Shaped(r), follow' = [follow EXCEPT ![w] = r]
  PROVE  /\ follow' = [v \in Worker |-> follow'[v]]
         /\ follow'[w] = r /\ \A v \in Worker : v # w => follow'[v] = follow[v]
         /\ \A v \in Worker : Shaped(follow'[v])
  BY DEF SnapInv

\* It keeps what it saw, or part of it.
LEMMA SnapMoves ==
  ASSUME SnapInv, DuesStay, RowsStay, NEW w \in Worker, NEW r, Shaped(r), follow' = [follow EXCEPT ![w] = r],
         r.left \subseteq r.snap, r.snap \subseteq follow[w].snap
  PROVE  SnapInv'
<1>1. /\ follow' = [v \in Worker |-> follow'[v]]
      /\ follow'[w] = r /\ \A v \in Worker : v # w => follow'[v] = follow[v]
      /\ \A v \in Worker : Shaped(follow'[v])
  BY OneMoves
<1>2. \A v \in Worker : follow'[v].snap \subseteq follow[v].snap /\ follow'[v].left \subseteq follow'[v].snap
  BY <1>1 DEF SnapInv
<1>3. \A v \in Worker : \A x \in follow'[v].snap : SeenTrue(x)'
  BY <1>2, SeenStays DEF SnapInv
<1> QED
  BY <1>1, <1>2, <1>3 DEF SnapInv, Shaped

LEMMA SnapStays ==
  ASSUME SnapInv, DuesStay, RowsStay, UNCHANGED follow PROVE SnapInv'
<1>1. \A v \in Worker : \A x \in follow[v].snap : SeenTrue(x)'
  BY SeenStays DEF SnapInv
<1> QED
  BY <1>1 DEF SnapInv, Shaped

\* Another place in the program, the same knowledge.
LEMMA GoesTo ==
  ASSUME SnapInv, NEW w \in Worker, NEW pc, follow' = [follow EXCEPT ![w].pc = pc]
  PROVE  \E r : /\ Shaped(r) /\ follow' = [follow EXCEPT ![w] = r] /\ r.pc = pc
               /\ r.left \subseteq r.snap /\ r.snap \subseteq follow[w].snap
<1>1. PICK r : r = [follow[w] EXCEPT !.pc = pc]
  OBVIOUS
<1>2. PICK a, b, c : follow[w] = [pc |-> a, snap |-> b, left |-> c] /\ c \subseteq b
  BY DEF SnapInv, Shaped
<1>3. r = [pc |-> pc, snap |-> b, left |-> c]
  BY <1>1, <1>2
<1>4. Shaped(r) /\ r.pc = pc /\ r.left \subseteq r.snap /\ r.snap \subseteq follow[w].snap
  BY <1>2, <1>3 DEF Shaped
<1> QED
  BY <1>1, <1>4

LEMMA RestIsShaped ==
  ASSUME NEW w \in Worker PROVE /\ Shaped(Resting) /\ Resting.left \subseteq Resting.snap
                                /\ Resting.snap \subseteq follow[w].snap /\ Resting.pc = "idle"
  BY DEF Resting, Shaped

LEMMA LadderRowsStay ==
  ASSUME InvoiceInv, LadderInv, NEW w \in Dunner, CreateReminder(w) PROVE RowsStay
<1>1. PICK S : reminders \in Seq(S)
  BY DEF LadderInv, ReminderTypes
<1>2. PICK r : reminders' = Append(reminders, r)
  BY DEF CreateReminder
<1>3. reminders \in Seq(S \cup {r})
  BY <1>1
<1> QED
  BY <1>2, <1>3, OneAppended DEF RowsStay

Tables == DuesStay /\ RowsStay

LEMMA TablesStay == ASSUME UNCHANGED << claims, reminders >> PROVE Tables
  BY DEF Tables, DuesStay, RowsStay

LEMMA SnapshotKeeps ==
  ASSUME SnapInv, NEW f \in Follower, Snapshot(f) PROVE SnapInv'
<1>1. PICK r : r = [pc |-> "remind", snap |-> OpenClaims, left |-> OpenClaims]
  OBVIOUS
<1>2. Shaped(r) /\ r.snap = OpenClaims /\ r.left = OpenClaims
  BY <1>1 DEF Shaped
<1>3. follow' = [follow EXCEPT ![f] = r] /\ UNCHANGED << claims, reminders >>
  BY <1>1 DEF Snapshot, varsReminders
<1>4. \A x \in OpenClaims : SeenTrue(x)
  BY DEF OpenClaims, SeenTrue, LastStep, HistoryOf
<1>5. f \in Worker
  BY DEF Worker
<1>6. /\ follow' = [v \in Worker |-> follow'[v]]
      /\ follow'[f] = r /\ \A v \in Worker : v # f => follow'[v] = follow[v]
      /\ \A v \in Worker : Shaped(follow'[v])
  BY <1>2, <1>3, <1>5, OneMoves
<1>7. Tables
  BY <1>3, TablesStay
<1>8. \A x : SeenTrue(x) => SeenTrue(x)'
  BY <1>7, SeenStays DEF Tables
<1>9. \A v \in Worker : \A x \in follow'[v].snap : SeenTrue(x)'
  BY <1>2, <1>4, <1>6, <1>8 DEF SnapInv
<1> QED
  BY <1>2, <1>6, <1>9 DEF SnapInv, Shaped

LEMMA SnapNext ==
  ASSUME InvoiceInv, LadderInv, SnapInv, NextBilling
  PROVE  SnapInv' /\ Tables
<1>1. CASE \E by \in {"ops", "portal", "stripe"} : Opened(by) \/ Closed(by)
  <2>1. UNCHANGED << claims, reminders, follow >>
    BY <1>1 DEF Opened, Closed, Rows3
  <2> QED
    BY <2>1, TablesStay, SnapStays DEF Tables
<1>2. CASE InvoiceStep /\ (Billed \/ Charged)
  <2>1. DuesStay /\ UNCHANGED reminders
    BY <1>2, InvoicesKeepDues DEF Billed, Charged
  <2>2. Tables
    BY <2>1 DEF Tables, RowsStay
  <2>3. CASE Billed
    BY <2>2, <2>3, SnapStays DEF Billed, Tables
  <2>4. CASE Charged
    BY <2>2, <2>4, GoesTo, SnapMoves DEF Charged, Tables, Worker
  <2> QED
    BY <1>2, <2>2, <2>3, <2>4
<1>3. CASE Passed
  BY <1>3, TablesStay, SnapStays DEF Tables, Passed, Books3
<1>4. ASSUME NEW w \in Dunner, Written(w) PROVE SnapInv' /\ Tables
  <2>1. UNCHANGED << claims, follow >>
    BY <1>4 DEF Written, CreateReminder, ReminderFails, Books3
  <2>2. RowsStay
    BY <1>4, LadderRowsStay DEF Written, ReminderFails, RowsStay
  <2>3. Tables
    BY <2>1, <2>2 DEF Tables, DuesStay
  <2> QED
    BY <2>1, <2>3, SnapStays DEF Tables
<1>5. CASE \E w \in Person, n \in DOMAIN claims : \E draft : Prepare(w, n, draft) /\ UNCHANGED Books3
  BY <1>5, TablesStay, SnapStays DEF Tables, Prepare, Books3
<1>6. ASSUME NEW f \in Follower, Reminded(f) PROVE SnapInv' /\ Tables
  <2>1. UNCHANGED << claims, reminders >>
    BY <1>6 DEF Reminded, Prepare, Rows3
  <2>2. PICK x \in follow[f].left : follow' = [follow EXCEPT ![f].left = @ \ {x}]
    BY <1>6 DEF Reminded
  <2>3. PICK a, b, c : follow[f] = [pc |-> a, snap |-> b, left |-> c] /\ c \subseteq b
    BY ZenonT(60) DEF SnapInv, Shaped, Worker
  <2>4. PICK r : r = [follow[f] EXCEPT !.left = @ \ {x}]
    OBVIOUS
  <2>5. r = [pc |-> a, snap |-> b, left |-> c \ {x}]
    BY <2>3, <2>4
  <2>6. /\ Shaped(r) /\ follow' = [follow EXCEPT ![f] = r] /\ r.left \subseteq r.snap
        /\ r.snap \subseteq follow[f].snap
    BY <2>2, <2>3, <2>4, <2>5 DEF Shaped
  <2>7. f \in Worker
    BY DEF Worker
  <2> QED
    BY <2>1, <2>6, <2>7, TablesStay, SnapMoves DEF Tables
<1>7. CASE \E f \in Follower : Snapshot(f)
  BY <1>7, SnapshotKeeps, TablesStay DEF Snapshot, varsReminders
<1>8. ASSUME NEW w \in Worker, UNCHANGED << claims, reminders >>,
             \/ \E pc : GoTo(w, pc)
             \/ follow' = [follow EXCEPT ![w] = Resting]
      PROVE  SnapInv' /\ Tables
  <2>1. Tables
    BY <1>8, TablesStay
  <2>2. CASE \E pc : GoTo(w, pc)
    BY <2>1, <2>2, GoesTo, SnapMoves DEF GoTo, Tables
  <2>3. CASE follow' = [follow EXCEPT ![w] = Resting]
    BY <2>1, <2>3, RestIsShaped, SnapMoves DEF Tables
  <2> QED
    BY <1>8, <2>1, <2>2, <2>3
<1>9. CASE \E f \in Follower : EndCoverage(f) \/ LogBlock(f)
  BY <1>9, <1>8 DEF EndCoverage, LogBlock, varsReminders, Worker
<1>10. CASE \E w \in Worker : CheckRestore(w) \/ Reopen(w) \/ LogRestored(w) \/ FollowerCrash(w)
  BY <1>10, <1>8 DEF CheckRestore, Reopen, LogRestored, FollowerCrash, varsReminders
<1>11. Person \subseteq Dunner /\ Follower \subseteq Dunner
  BY DEF Dunner
<1> QED
  BY Kinds, <1>1, <1>2, <1>3, <1>4, <1>5, <1>6, <1>7, <1>9, <1>10, <1>11

LEMMA LadderNext ==
  ASSUME InvoiceInv, InvoiceInv', LadderInv, SnapInv, NextBilling
  PROVE  LadderInv'
<1>0. DuesStay
  BY SnapNext DEF Tables
<1>1. ASSUME UNCHANGED << reminders, reminding, overlapped >> PROVE LadderInv'
  BY <1>0, <1>1, LadderStays
<1>2. ASSUME NEW w \in Dunner, Written(w) PROVE LadderInv'
  <2>1. CASE CreateReminder(w)
    BY <2>1, RowClimbs
  <2>2. CASE ReminderFails(w)
    <3>1. GivesUp(w)
      BY <2>2 DEF ReminderFails, GivesUp, LadderInv, ReminderTypes
    <3> QED
      BY <3>1, GivingUpClimbs
  <2> QED
    BY <1>2, <2>1, <2>2 DEF Written
<1>3. ASSUME NEW f \in Follower, Reminded(f) PROVE LadderInv'
  <2>1. PICK x \in follow[f].left : (\E draft : Prepare(f, x.claim, draft)) \/ UNCHANGED Rows3
    BY <1>3 DEF Reminded
  <2>2. x.claim \in DOMAIN claims /\ f \in Dunner
    BY DEF SnapInv, SeenTrue, Worker, Dunner
  <2> QED
    BY <2>1, <2>2, <1>1, PrepareClimbs DEF Rows3
<1>4. CASE \E w \in Worker : FollowerCrash(w)
  <2>1. PICK w \in Worker : GivesUp(w)
    BY <1>4 DEF FollowerCrash, GivesUp
  <2> QED
    BY <2>1, GivingUpClimbs
<1>5. CASE \E w \in Person, n \in DOMAIN claims : \E draft : Prepare(w, n, draft)
  BY <1>5, PrepareClimbs DEF Dunner
<1>6. Person \subseteq Dunner /\ Follower \subseteq Dunner
  BY DEF Dunner
<1>7. CASE \E f \in Follower : Snapshot(f) \/ EndCoverage(f) \/ LogBlock(f)
  BY <1>7, <1>1 DEF Snapshot, EndCoverage, LogBlock, varsReminders
<1>8. CASE \E w \in Worker : CheckRestore(w) \/ Reopen(w) \/ LogRestored(w)
  BY <1>8, <1>1 DEF CheckRestore, Reopen, LogRestored, varsReminders
<1>9. CASE (\E by \in {"ops", "portal", "stripe"} : Opened(by) \/ Closed(by)) \/ Billed \/ Charged \/ Passed
  BY <1>9, <1>1 DEF Opened, Closed, Rows3, Billed, Charged, Passed
<1> QED
  BY Kinds, <1>2, <1>3, <1>4, <1>5, <1>6, <1>7, <1>8, <1>9

(***************************************************************************)
(* Coverage.  A row is ended once; what the machine ended it does not end  *)
(* again.                                                                  *)
(***************************************************************************)
Hand == {"ops", "portal", "stripe"}
Covered == [from : 1..LastBillingDay, to : Int, by : Hand \cup {"machine"},
            endedBy : Hand \cup {"none", "machine"}]

CoverInv ==
    /\ coverage \in Seq(Covered)
    /\ \A i \in DOMAIN coverage : coverage[i].endedBy = "machine" => coverage[i].to # OpenEnd

LEMMA CoverInit == InitBilling => CoverInv
  BY DEF InitBilling, CoverInv

LEMMA OpensRow ==
  ASSUME InvoiceInv, CoverInv, NEW by \in Hand \cup {"machine"}, OpenCoverage(by)
  PROVE  /\ CoverInv' /\ BlockedRows' = BlockedRows
         /\ \E k : k \notin Rows("machine") /\ Rows("machine")' = Rows("machine") \cup {i \in {k} : by = "machine"}
<1>1. PICK c, k : c = [from |-> remindDay, to |-> OpenEnd, by |-> by, endedBy |-> "none"] /\ k = Len(coverage')
  OBVIOUS
<1>2. c \in Covered /\ c.by = by /\ c.endedBy = "none"
  <2>1. remindDay \in 1..LastBillingDay /\ OpenEnd \in Int
    BY BillingAssumption DEF InvoiceInv, InvoiceTypes, OpenEnd
  <2> QED
    BY <1>1, <2>1 DEF Covered
<1>3. coverage' = Append(coverage, c)
  BY <1>1 DEF OpenCoverage
<1>4. /\ coverage' \in Seq(Covered) /\ coverage'[k] = c
      /\ DOMAIN coverage' = DOMAIN coverage \cup {k} /\ k \notin DOMAIN coverage
      /\ \A i \in DOMAIN coverage : coverage'[i] = coverage[i]
  <2>1. coverage \in Seq(Covered)
    BY DEF CoverInv
  <2>2. k \notin DOMAIN coverage
    BY <1>1, <1>2, <1>3, <2>1
  <2> QED
    BY <1>1, <1>2, <1>3, <2>1, <2>2, OneAppended
<1>5. CoverInv'
  BY <1>2, <1>4 DEF CoverInv
<1>6. BlockedRows' = BlockedRows
  BY <1>2, <1>4 DEF BlockedRows
<1>7. Rows("machine")' = Rows("machine") \cup {i \in {k} : by = "machine"} /\ k \notin Rows("machine")
  BY <1>2, <1>4 DEF Rows
<1> QED
  BY <1>5, <1>6, <1>7

LEMMA ClosesRows ==
  ASSUME InvoiceInv, CoverInv, NEW by \in Hand \cup {"machine"}, CloseCoverage(remindDay, by)
  PROVE  /\ CoverInv' /\ Rows("machine")' = Rows("machine")
         /\ BlockedRows' = BlockedRows \cup {i \in OpenRows : by = "machine"}
         /\ OpenRows \cap BlockedRows = {}
<1>1. /\ DOMAIN coverage' = DOMAIN coverage
      /\ \A i \in DOMAIN coverage : coverage'[i] =
            IF i \in OpenRows
            THEN [coverage[i] EXCEPT !.to = Shortest(coverage[i].from, remindDay), !.endedBy = by]
            ELSE coverage[i]
  BY DEF CloseCoverage
<1>2. remindDay \in 1..LastBillingDay /\ OpenEnd = LastBillingDay + 2 /\ LastBillingDay \in Nat
  BY BillingAssumption DEF InvoiceInv, InvoiceTypes, OpenEnd
<1>3. \A i \in DOMAIN coverage : coverage[i] \in Covered
  BY DEF CoverInv
<1>4. ASSUME NEW i \in OpenRows
      PROVE  /\ coverage'[i] \in Covered /\ coverage'[i].to # OpenEnd /\ coverage'[i].endedBy = by
             /\ coverage'[i].by = coverage[i].by
  <2>1. i \in DOMAIN coverage /\ coverage[i] \in Covered
    BY <1>3 DEF OpenRows
  <2>2. coverage[i].from \in 1..LastBillingDay
    BY <2>1 DEF Covered
  <2>3. PICK to : to = Shortest(coverage[i].from, remindDay) /\ to \in Int /\ to # OpenEnd
    BY <1>2, <2>2 DEF Shortest
  <2>4. coverage'[i] = [coverage[i] EXCEPT !.to = to, !.endedBy = by]
    BY <1>1, <2>1, <2>3
  <2> QED
    BY <2>1, <2>3, <2>4 DEF Covered
<1>5. \A i \in DOMAIN coverage : i \notin OpenRows => coverage'[i] = coverage[i]
  BY <1>1
<1>6. OpenRows \cap BlockedRows = {}
  BY DEF CoverInv, OpenRows, BlockedRows
<1>7. CoverInv'
  <2>1. coverage' \in Seq(Covered)
    <3>1. Len(coverage) \in Nat /\ DOMAIN coverage = 1..Len(coverage)
      BY DEF CoverInv
    <3>2. \A i \in DOMAIN coverage : coverage'[i] \in Covered
      BY <1>3, <1>4, <1>5
    <3>3. coverage' = [i \in 1..Len(coverage) |-> coverage'[i]]
      BY <3>1 DEF CloseCoverage
    <3> QED
      BY <3>1, <3>2, <3>3
  <2>2. \A i \in DOMAIN coverage : coverage'[i].endedBy = "machine" => coverage'[i].to # OpenEnd
    BY <1>4, <1>5 DEF CoverInv
  <2> QED
    BY <2>1, <2>2, <1>1 DEF CoverInv
<1>8. Rows("machine")' = Rows("machine")
  BY <1>1, <1>4, <1>5 DEF Rows
<1>9. BlockedRows' = BlockedRows \cup {i \in OpenRows : by = "machine"}
  <2>1. OpenRows \subseteq DOMAIN coverage
    BY DEF OpenRows
  <2> QED
    BY <2>1, <1>1, <1>4, <1>5, <1>6, ZenonT(60) DEF BlockedRows
<1> QED
  BY <1>6, <1>7, <1>8, <1>9

(***************************************************************************)
(* The count.  A restoring worker uses up a logged block: while nothing is *)
(* unlogged one worker restores at a time, after the newest block, and     *)
(* every logged block has coverage that it ended.                          *)
(***************************************************************************)
Blocks == {i \in DOMAIN trail : trail[i] = "sperret"}
Restores == {i \in DOMAIN trail : trail[i] = "gjenopprettet"}
Restoring == {w \in Worker : follow[w].pc \in {"reopen", "reopened"}}
Restored == {w \in Worker : follow[w].pc = "reopened"}
Blocking == {w \in Worker : follow[w].pc = "blocked"}

Tally ==
    /\ \A v, w \in Restoring : v = w
    /\ Restoring # {} \/ LastIsBlock => Cardinality(Restores) < Cardinality(Blocks)
    /\ Cardinality(Restores) <= Cardinality(Blocks)
    /\ Cardinality(Rows("machine")) <= Cardinality(Restores) + (IF Restored # {} THEN 1 ELSE 0)
    /\ Cardinality(Blocks) + Cardinality(Blocking) <= Cardinality(BlockedRows)

CountInv ==
    /\ trail \in Seq({"sperret", "gjenopprettet"})
    /\ IsFiniteSet(Blocking)
    /\ unlogged \/ Tally

LEMMA CoverCounts ==
  ASSUME CoverInv
  PROVE  /\ IsFiniteSet(Rows("machine")) /\ IsFiniteSet(BlockedRows)
         /\ Cardinality(Rows("machine")) \in Nat /\ Cardinality(BlockedRows) \in Nat
<1>1. DOMAIN coverage = 1..Len(coverage) /\ Len(coverage) \in Nat
  BY DEF CoverInv
<1>2. IsFiniteSet(1..Len(coverage))
  BY <1>1, FS_Interval
<1>3. Rows("machine") \subseteq 1..Len(coverage) /\ BlockedRows \subseteq 1..Len(coverage)
  BY <1>1 DEF Rows, BlockedRows
<1>4. IsFiniteSet(Rows("machine")) /\ IsFiniteSet(BlockedRows)
  BY <1>2, <1>3, FS_Subset
<1> QED
  BY <1>4, FS_CardinalityType

LEMMA TrailCounts ==
  ASSUME CountInv
  PROVE  /\ IsFiniteSet(Blocks) /\ IsFiniteSet(Restores)
         /\ Cardinality(Blocks) \in Nat /\ Cardinality(Restores) \in Nat /\ Cardinality(Blocking) \in Nat
<1>1. DOMAIN trail = 1..Len(trail) /\ Len(trail) \in Nat
  BY DEF CountInv
<1>2. IsFiniteSet(1..Len(trail))
  BY <1>1, FS_Interval
<1>3. Blocks \subseteq 1..Len(trail) /\ Restores \subseteq 1..Len(trail)
  BY <1>1 DEF Blocks, Restores
<1>4. IsFiniteSet(Blocks) /\ IsFiniteSet(Restores)
  BY <1>2, <1>3, FS_Subset
<1> QED
  BY <1>4, FS_CardinalityType DEF CountInv

LEMMA CountsFair ==
  ASSUME CoverInv, CountInv
  PROVE  unlogged \/ Cardinality(Rows("machine")) <= Cardinality(BlockedRows)
<1> SUFFICES ASSUME ~ unlogged PROVE Cardinality(Rows("machine")) <= Cardinality(BlockedRows)
  OBVIOUS
<1>1. Tally
  BY DEF CountInv
<1>2. Restored \subseteq Restoring
  BY DEF Restored, Restoring
<1>3. Cardinality(Rows("machine")) <= Cardinality(Blocks)
  BY <1>1, <1>2, CoverCounts, TrailCounts DEF Tally
<1> QED
  BY <1>1, <1>3, CoverCounts, TrailCounts DEF Tally

LEMMA CountInit == InitBilling => CountInv
<1> SUFFICES ASSUME InitBilling PROVE CountInv
  OBVIOUS
<1>1. Blocks = {} /\ Restores = {} /\ Rows("machine") = {} /\ BlockedRows = {} /\ ~ LastIsBlock
  BY DEF InitBilling, Blocks, Restores, Rows, BlockedRows, LastIsBlock
<1>2. Restoring = {} /\ Blocking = {} /\ Restored = {}
  BY DEF InitBilling, Resting, Restoring, Blocking, Restored
<1>3. Cardinality({}) = 0 /\ IsFiniteSet({})
  BY FS_EmptySet
<1>4. Tally
  BY <1>1, <1>2, <1>3 DEF Tally
<1> QED
  BY <1>2, <1>3, <1>4 DEF CountInv, InitBilling

MovesTo(w, pc) == \E r : follow' = [follow EXCEPT ![w] = r] /\ r.pc = pc

LEMMA Places ==
  ASSUME SnapInv, NEW w \in Worker, NEW pc, MovesTo(w, pc)
  PROVE  /\ Restoring' = (Restoring \ {w}) \cup {v \in {w} : pc \in {"reopen", "reopened"}}
         /\ Restored' = (Restored \ {w}) \cup {v \in {w} : pc = "reopened"}
         /\ Blocking' = (Blocking \ {w}) \cup {v \in {w} : pc = "blocked"}
<1>1. follow'[w].pc = pc /\ \A v \in Worker : v # w => follow'[v] = follow[v]
  BY DEF SnapInv, MovesTo
<1> QED
  BY <1>1 DEF Restoring, Restored, Blocking

LEMMA SameCount ==
  ASSUME CountInv, UNCHANGED << trail, unlogged >>, Rows("machine")' = Rows("machine"),
         BlockedRows' = BlockedRows, Restoring' = Restoring, Restored' = Restored, Blocking' = Blocking
  PROVE  CountInv'
<1>1. Blocks' = Blocks /\ Restores' = Restores /\ (LastIsBlock' <=> LastIsBlock)
  BY DEF Blocks, Restores, LastIsBlock
<1> QED
  BY <1>1 DEF CountInv, Tally

LEMMA CoverStays ==
  ASSUME CoverInv, UNCHANGED coverage
  PROVE  CoverInv' /\ Rows("machine")' = Rows("machine") /\ BlockedRows' = BlockedRows
  BY DEF CoverInv, Rows, BlockedRows

LEMMA PlacesStay ==
  ASSUME UNCHANGED follow
  PROVE  Restoring' = Restoring /\ Restored' = Restored /\ Blocking' = Blocking
  BY DEF Restoring, Restored, Blocking

\* A worker between two places that do not count.
LEMMA QuietMove ==
  ASSUME SnapInv, CoverInv, CountInv, NEW w \in Worker, NEW pc, MovesTo(w, pc),
         pc \notin {"blocked", "reopen", "reopened"},
         follow[w].pc \notin {"blocked", "reopen", "reopened"},
         UNCHANGED << coverage, trail, unlogged >>
  PROVE  CoverInv' /\ CountInv'
<1>1. Restoring' = Restoring /\ Restored' = Restored /\ Blocking' = Blocking
  <2>1. w \notin Restoring /\ w \notin Restored /\ w \notin Blocking
    BY DEF Restoring, Restored, Blocking
  <2> QED
    BY <2>1, Places
<1> QED
  BY <1>1, CoverStays, SameCount

LEMMA MovesBy ==
  ASSUME SnapInv, NEW w \in Worker
  PROVE  /\ \A pc : GoTo(w, pc) => MovesTo(w, pc)
         /\ follow' = [follow EXCEPT ![w] = Resting] => MovesTo(w, "idle")
  BY GoesTo, RestIsShaped DEF GoTo, MovesTo

LEMMA EndCounts ==
  ASSUME InvoiceInv, SnapInv, CoverInv, CountInv, NEW f \in Follower, EndCoverage(f)
  PROVE  CoverInv' /\ CountInv'
<1>1. f \in Worker /\ follow[f].pc = "remind" /\ UNCHANGED << trail, unlogged >>
  BY DEF EndCoverage, At, Worker
<1>2. CASE UNCHANGED coverage /\ GoTo(f, "restore")
  BY <1>1, <1>2, MovesBy, QuietMove
<1>3. CASE OpenRows # {} /\ CloseCoverage(remindDay, "machine") /\ GoTo(f, "blocked")
  <2>1. /\ CoverInv' /\ Rows("machine")' = Rows("machine")
        /\ BlockedRows' = BlockedRows \cup OpenRows /\ OpenRows \cap BlockedRows = {}
    BY <1>3, ClosesRows
  <2>2. /\ Restoring' = Restoring /\ Restored' = Restored
        /\ Blocking' = Blocking \cup {f} /\ f \notin Blocking
    <3>1. f \notin Restoring /\ f \notin Restored /\ f \notin Blocking
      BY <1>1 DEF Restoring, Restored, Blocking
    <3>2. MovesTo(f, "blocked")
      BY <1>1, <1>3, MovesBy
    <3> QED
      BY <3>1, <3>2, <1>1, Places
  <2>3. /\ IsFiniteSet(Blocking \cup {f}) /\ Cardinality(Blocking \cup {f}) = Cardinality(Blocking) + 1
    BY <2>2, FS_AddElement DEF CountInv
  <2>4. PICK i \in OpenRows : i \notin BlockedRows
    BY <1>3, <2>1
  <2>5. Cardinality(BlockedRows \cup {i}) = Cardinality(BlockedRows) + 1
    BY <2>4, CoverCounts, FS_AddElement
  <2>6. IsFiniteSet(BlockedRows \cup OpenRows)
    <3>1. DOMAIN coverage = 1..Len(coverage) /\ Len(coverage) \in Nat /\ OpenRows \subseteq DOMAIN coverage
      BY DEF CoverInv, OpenRows
    <3>2. IsFiniteSet(1..Len(coverage))
      BY <3>1, FS_Interval
    <3>3. IsFiniteSet(OpenRows)
      BY <3>1, <3>2, FS_Subset
    <3> QED
      BY <3>3, CoverCounts, FS_Union
  <2>7. /\ Cardinality(BlockedRows \cup {i}) <= Cardinality(BlockedRows \cup OpenRows)
        /\ Cardinality(BlockedRows \cup OpenRows) \in Nat
    <3>1. BlockedRows \cup {i} \subseteq BlockedRows \cup OpenRows
      BY <2>4
    <3> QED
      BY <3>1, <2>6, FS_Subset, FS_CardinalityType
  <2>8. Blocks' = Blocks /\ Restores' = Restores /\ (LastIsBlock' <=> LastIsBlock)
    BY <1>1 DEF Blocks, Restores, LastIsBlock
  <2>9. Tally => Cardinality(Blocks) + Cardinality(Blocking)' <= Cardinality(BlockedRows)'
    BY <2>1, <2>2, <2>3, <2>5, <2>7, CoverCounts, TrailCounts DEF Tally
  <2>10. Tally => Tally'
    BY <2>1, <2>2, <2>8, <2>9 DEF Tally
  <2> QED
    BY <1>1, <2>1, <2>2, <2>3, <2>10 DEF CountInv
<1> QED
  BY <1>2, <1>3 DEF EndCoverage

\* A row of the trail more.
LEMMA TrailGrows ==
  ASSUME CountInv, NEW e \in {"sperret", "gjenopprettet"}, trail' = Append(trail, e)
  PROVE  /\ trail' \in Seq({"sperret", "gjenopprettet"})
         /\ LastIsBlock' <=> e = "sperret"
         /\ e = "sperret" => Restores' = Restores /\ Cardinality(Blocks)' = Cardinality(Blocks) + 1
         /\ e = "gjenopprettet" => Blocks' = Blocks /\ Cardinality(Restores)' = Cardinality(Restores) + 1
<1>1. PICK k : k = Len(trail')
  OBVIOUS
<1>2. /\ trail' \in Seq({"sperret", "gjenopprettet"}) /\ trail'[k] = e /\ trail' # << >>
      /\ DOMAIN trail' = DOMAIN trail \cup {k} /\ k \notin DOMAIN trail
      /\ \A i \in DOMAIN trail : trail'[i] = trail[i]
  BY <1>1 DEF CountInv
<1>3. /\ Blocks' = Blocks \cup {i \in {k} : e = "sperret"} /\ k \notin Blocks
      /\ Restores' = Restores \cup {i \in {k} : e = "gjenopprettet"} /\ k \notin Restores
  BY <1>2 DEF Blocks, Restores
<1>4. /\ Cardinality(Blocks \cup {k}) = Cardinality(Blocks) + 1
      /\ Cardinality(Restores \cup {k}) = Cardinality(Restores) + 1
  BY <1>3, TrailCounts, FS_AddElement
<1>5. LastIsBlock' <=> e = "sperret"
  BY <1>1, <1>2 DEF LastIsBlock
<1>6. CASE e = "sperret"
  <2>1. Blocks' = Blocks \cup {k} /\ Restores' = Restores
    BY <1>3, <1>6
  <2> QED
    BY <2>1, <1>2, <1>4, <1>5, <1>6
<1>7. CASE e = "gjenopprettet"
  <2>1. Restores' = Restores \cup {k} /\ Blocks' = Blocks
    BY <1>3, <1>7
  <2> QED
    BY <2>1, <1>2, <1>4, <1>5, <1>7
<1> QED
  BY <1>6, <1>7

LEMMA LogBlockCounts ==
  ASSUME SnapInv, CoverInv, CountInv, NEW f \in Follower, LogBlock(f)
  PROVE  CoverInv' /\ CountInv'
<1>1. /\ f \in Worker /\ follow[f].pc = "blocked" /\ UNCHANGED << coverage, unlogged >>
      /\ trail' = Append(trail, "sperret") /\ MovesTo(f, "restore")
  BY MovesBy DEF LogBlock, At, Worker
<1>2. CoverInv' /\ Rows("machine")' = Rows("machine") /\ BlockedRows' = BlockedRows
  BY <1>1, CoverStays
<1>3. /\ Restoring' = Restoring /\ Restored' = Restored
      /\ Blocking' = Blocking \ {f} /\ f \in Blocking
  <2>1. f \notin Restoring /\ f \notin Restored /\ f \in Blocking
    BY <1>1 DEF Restoring, Restored, Blocking
  <2>2. /\ Restoring' = (Restoring \ {f}) \cup {v \in {f} : "restore" \in {"reopen", "reopened"}}
        /\ Restored' = (Restored \ {f}) \cup {v \in {f} : "restore" = "reopened"}
        /\ Blocking' = (Blocking \ {f}) \cup {v \in {f} : "restore" = "blocked"}
    BY <1>1, Places
  <2>3. /\ Restoring' = Restoring \ {f} /\ Restored' = Restored \ {f}
        /\ Blocking' = Blocking \ {f}
    BY <2>2
  <2> QED
    BY <2>1, <2>3
<1>4. IsFiniteSet(Blocking \ {f}) /\ Cardinality(Blocking \ {f}) = Cardinality(Blocking) - 1
  BY <1>3, FS_RemoveElement DEF CountInv
<1>5. /\ trail' \in Seq({"sperret", "gjenopprettet"}) /\ LastIsBlock' /\ Restores' = Restores
      /\ Cardinality(Blocks)' = Cardinality(Blocks) + 1
  BY <1>1, TrailGrows
<1>6. Tally => /\ Cardinality(Restores) < Cardinality(Blocks)'
               /\ Cardinality(Blocks)' + Cardinality(Blocking)' <= Cardinality(BlockedRows)
  BY <1>3, <1>4, <1>5, CoverCounts, TrailCounts DEF Tally
<1>7. Cardinality(Blocks)' \in Nat /\ Cardinality(Restores) \in Nat
  BY <1>5, TrailCounts
<1>8. Tally => Tally'
  <2> SUFFICES ASSUME Tally PROVE Tally'
    OBVIOUS
  <2>1. Cardinality(Restores)' < Cardinality(Blocks)' /\ Cardinality(Restores)' <= Cardinality(Blocks)'
    BY <1>5, <1>6, <1>7
  <2> QED
    BY <2>1, <1>2, <1>3, <1>5, <1>6 DEF Tally
<1> QED
  BY <1>1, <1>2, <1>3, <1>4, <1>5, <1>8 DEF CountInv

LEMMA CheckCounts ==
  ASSUME SnapInv, CoverInv, CountInv, NEW w \in Worker, CheckRestore(w)
  PROVE  CoverInv' /\ CountInv'
<1>1. follow[w].pc = "restore" /\ UNCHANGED << coverage, trail >>
  BY DEF CheckRestore, At
<1>2. CASE ~ Restorable(w)
  BY <1>1, <1>2, MovesBy, QuietMove DEF CheckRestore
<1>3. CASE Restorable(w)
  <2>1. /\ MovesTo(w, "reopen") /\ LastIsBlock
        /\ unlogged' = (unlogged \/ \E v \in Worker \ {w} : follow[v].pc \in {"reopen", "reopened"})
    BY <1>3, MovesBy DEF CheckRestore, Restorable
  <2>2. CoverInv' /\ Rows("machine")' = Rows("machine") /\ BlockedRows' = BlockedRows
    BY <1>1, CoverStays
  <2>3. /\ Restoring' = Restoring \cup {w} /\ Restored' = Restored /\ Blocking' = Blocking
        /\ w \notin Restoring
    <3>1. w \notin Restoring /\ w \notin Restored /\ w \notin Blocking
      BY <1>1 DEF Restoring, Restored, Blocking
    <3> QED
      BY <3>1, <2>1, Places
  <2>4. Blocks' = Blocks /\ Restores' = Restores /\ (LastIsBlock' <=> LastIsBlock)
    BY <1>1 DEF Blocks, Restores, LastIsBlock
  <2>5. ASSUME ~ unlogged' PROVE Tally'
    <3>1. ~ unlogged /\ Restoring = {}
      BY <2>1, <2>3, <2>5 DEF Restoring
    <3>2. Tally
      BY <3>1 DEF CountInv
    <3> QED
      BY <2>1, <2>2, <2>3, <2>4, <3>1, <3>2 DEF Tally
  <2> QED
    BY <1>1, <2>2, <2>3, <2>5 DEF CountInv
<1> QED
  BY <1>2, <1>3

LEMMA ReopenCounts ==
  ASSUME InvoiceInv, SnapInv, CoverInv, CountInv, NEW w \in Worker, Reopen(w)
  PROVE  CoverInv' /\ CountInv'
<1>1. /\ follow[w].pc = "reopen" /\ UNCHANGED << trail, unlogged >> /\ OpenCoverage("machine")
      /\ MovesTo(w, "reopened")
  BY MovesBy DEF Reopen, At
<1>2. CoverInv' /\ BlockedRows' = BlockedRows
  BY <1>1, OpensRow
<1>3. PICK k : k \notin Rows("machine") /\ Rows("machine")' = Rows("machine") \cup {k}
  BY <1>1, OpensRow
<1>4. Cardinality(Rows("machine") \cup {k}) = Cardinality(Rows("machine")) + 1
  BY <1>3, CoverCounts, FS_AddElement
<1>5. /\ Restoring' = Restoring /\ Restored' = Restored \cup {w} /\ Blocking' = Blocking
      /\ w \in Restoring /\ w \notin Restored /\ Restored \subseteq Restoring
  <2>1. w \in Restoring /\ w \notin Restored /\ w \notin Blocking /\ Restored \subseteq Restoring
    BY <1>1 DEF Restoring, Restored, Blocking
  <2> QED
    BY <2>1, <1>1, Places
<1>6. Blocks' = Blocks /\ Restores' = Restores /\ (LastIsBlock' <=> LastIsBlock)
  BY <1>1 DEF Blocks, Restores, LastIsBlock
<1>7. Tally => Tally'
  <2> SUFFICES ASSUME Tally PROVE Tally'
    OBVIOUS
  <2>1. Restored = {}
    BY <1>5 DEF Tally
  <2>2. Cardinality(Rows("machine")) <= Cardinality(Restores)
    BY <2>1, TrailCounts DEF Tally
  <2>3. Cardinality(Rows("machine"))' <= Cardinality(Restores) + 1
    <3>1. Cardinality(Rows("machine"))' = Cardinality(Rows("machine")) + 1
      BY <1>3, <1>4
    <3> QED
      BY <2>2, <3>1, CoverCounts, TrailCounts
  <2>4. Restored' # {}
    BY <1>5
  <2> QED
    BY <2>3, <2>4, <1>2, <1>5, <1>6 DEF Tally
<1> QED
  BY <1>1, <1>2, <1>5, <1>7 DEF CountInv

LEMMA LogRestoredCounts ==
  ASSUME SnapInv, CoverInv, CountInv, NEW w \in Worker, LogRestored(w)
  PROVE  CoverInv' /\ CountInv'
<1>1. /\ follow[w].pc = "reopened" /\ UNCHANGED << coverage, unlogged >>
      /\ trail' = Append(trail, "gjenopprettet") /\ MovesTo(w, "idle")
  BY MovesBy DEF LogRestored, At
<1>2. CoverInv' /\ Rows("machine")' = Rows("machine") /\ BlockedRows' = BlockedRows
  BY <1>1, CoverStays
<1>3. /\ Restoring' = Restoring \ {w} /\ Restored' = Restored \ {w} /\ Blocking' = Blocking
      /\ w \in Restoring /\ w \in Restored
  <2>1. w \in Restoring /\ w \in Restored /\ w \notin Blocking
    BY <1>1 DEF Restoring, Restored, Blocking
  <2>2. /\ Restoring' = (Restoring \ {w}) \cup {v \in {w} : "idle" \in {"reopen", "reopened"}}
        /\ Restored' = (Restored \ {w}) \cup {v \in {w} : "idle" = "reopened"}
        /\ Blocking' = (Blocking \ {w}) \cup {v \in {w} : "idle" = "blocked"}
    BY <1>1, Places
  <2>3. /\ Restoring' = Restoring \ {w} /\ Restored' = Restored \ {w}
        /\ Blocking' = Blocking \ {w}
    BY <2>2
  <2> QED
    BY <2>1, <2>3
<1>4. /\ trail' \in Seq({"sperret", "gjenopprettet"}) /\ ~ LastIsBlock' /\ Blocks' = Blocks
      /\ Cardinality(Restores)' = Cardinality(Restores) + 1
  BY <1>1, TrailGrows
<1>5. Tally => Tally'
  <2> SUFFICES ASSUME Tally PROVE Tally'
    OBVIOUS
  <2>1. Restoring' = {} /\ Restored' = {}
    <3>1. Restored \subseteq Restoring /\ Restoring = {w}
      BY <1>3 DEF Tally, Restored, Restoring
    <3> QED
      BY <3>1, <1>3
  <2>2. Cardinality(Rows("machine")) <= Cardinality(Restores) + 1
    BY <1>3 DEF Tally
  <2>3. /\ Cardinality(Restores)' <= Cardinality(Blocks)'
        /\ Cardinality(Rows("machine"))' <= Cardinality(Restores)' + (IF Restored' # {} THEN 1 ELSE 0)
    BY <2>1, <2>2, <1>2, <1>3, <1>4, CoverCounts, TrailCounts DEF Tally
  <2> QED
    BY <2>1, <2>3, <1>2, <1>3, <1>4 DEF Tally
<1> QED
  BY <1>1, <1>2, <1>3, <1>4, <1>5 DEF CountInv

LEMMA CrashCounts ==
  ASSUME SnapInv, CoverInv, CountInv, NEW w \in Worker, FollowerCrash(w)
  PROVE  CoverInv' /\ CountInv'
<1>1. /\ UNCHANGED << coverage, trail >> /\ MovesTo(w, "idle")
      /\ unlogged' = (unlogged \/ follow[w].pc \in {"blocked", "reopened"})
  BY MovesBy DEF FollowerCrash
<1>2. CoverInv' /\ Rows("machine")' = Rows("machine") /\ BlockedRows' = BlockedRows
  BY <1>1, CoverStays
<1>3. Restoring' = Restoring \ {w} /\ Restored' = Restored \ {w} /\ Blocking' = Blocking \ {w}
  BY <1>1, Places
<1>4. Blocks' = Blocks /\ Restores' = Restores /\ (LastIsBlock' <=> LastIsBlock)
  BY <1>1 DEF Blocks, Restores, LastIsBlock
<1>5. IsFiniteSet(Blocking')
  BY <1>3, FS_Subset DEF CountInv
<1>6. ASSUME ~ unlogged' PROVE Tally'
  <2>1. Tally /\ Restored' = Restored /\ Blocking' = Blocking
    BY <1>1, <1>3, <1>6 DEF CountInv, Restored, Blocking
  <2> QED
    BY <2>1, <1>2, <1>3, <1>4 DEF Tally
<1> QED
  BY <1>1, <1>2, <1>5, <1>6 DEF CountInv

(***************************************************************************)
(* Together.                                                               *)
(***************************************************************************)
Demanded ==
    \E k \in DOMAIN reminders :
        Rung(reminders[k].step) >= 2 /\ claims[reminders[k].claim].due + BlockAfterDue <= remindDay

BlockInv == BlockedRows # {} => Demanded

FollowInv == InvoiceInv /\ LadderInv /\ SnapInv /\ CoverInv /\ CountInv /\ BlockInv

LEMMA FollowFair == FollowInv => FollowUpIsFair
  BY LadderClimbs, CountsFair DEF FollowInv, FollowUpIsFair, BlockInv, Demanded

LEMMA FollowInit == InitBilling => FollowInv
<1>1. InitBilling => BlockedRows = {}
  BY DEF InitBilling, BlockedRows
<1> QED
  BY <1>1, InvoiceInit, LadderInit, SnapInit, CoverInit, CountInit DEF FollowInv, BlockInv

\* Days pass and rows are added: a demand stays a demand.
LEMMA DemandStays ==
  ASSUME InvoiceInv, InvoiceInv', LadderInv, Tables, remindDay <= remindDay', Demanded
  PROVE  Demanded'
<1>1. PICK k \in DOMAIN reminders :
        Rung(reminders[k].step) >= 2 /\ claims[reminders[k].claim].due + BlockAfterDue <= remindDay
  BY DEF Demanded
<1>2. reminders[k].claim \in DOMAIN claims /\ k \in DOMAIN reminders' /\ reminders'[k] = reminders[k]
  BY DEF LadderInv, ReminderTypes, Tables, RowsStay
<1>3. claims'[reminders[k].claim].due = claims[reminders[k].claim].due
  BY <1>2 DEF Tables, DuesStay
<1>4. claims[reminders[k].claim].due \in Int /\ remindDay \in Int /\ remindDay' \in Int /\ BlockAfterDue \in Int
  <2>1. claims[reminders[k].claim] \in Claim
    BY <1>2 DEF InvoiceInv, InvoiceTypes
  <2> QED
    BY <2>1, BillingAssumption DEF Claim, InvoiceInv, InvoiceTypes
<1>5. claims'[reminders'[k].claim].due + BlockAfterDue <= remindDay'
  BY <1>1, <1>2, <1>3, <1>4
<1> QED
  BY <1>1, <1>2, <1>5 DEF Demanded

LEMMA CoverNext ==
  ASSUME InvoiceInv, LadderInv, SnapInv, CoverInv, CountInv, NextBilling
  PROVE  CoverInv' /\ CountInv'
<1>1. ASSUME NEW by \in Hand, Opened(by) PROVE CoverInv' /\ CountInv'
  <2>1. CoverInv' /\ Rows("machine")' = Rows("machine") /\ BlockedRows' = BlockedRows
    <3>1. CASE UNCHANGED coverage
      BY <3>1, CoverStays
    <3>2. CASE OpenCoverage(by)
      <4>1. by # "machine"
        BY DEF Hand
      <4> QED
        BY <3>2, <4>1, OpensRow
    <3> QED
      BY <1>1, <3>1, <3>2 DEF Opened
  <2>2. UNCHANGED << trail, follow, unlogged >>
    BY <1>1 DEF Opened
  <2> QED
    BY <2>1, <2>2, PlacesStay, SameCount
<1>2. ASSUME NEW by \in Hand, Closed(by) PROVE CoverInv' /\ CountInv'
  <2>1. by # "machine"
    BY DEF Hand
  <2>2. CoverInv' /\ Rows("machine")' = Rows("machine") /\ BlockedRows' = BlockedRows
    BY <1>2, <2>1, ClosesRows DEF Closed
  <2>3. UNCHANGED << trail, follow, unlogged >>
    BY <1>2 DEF Closed
  <2> QED
    BY <2>2, <2>3, PlacesStay, SameCount
<1>3. ASSUME UNCHANGED Books3 PROVE CoverInv' /\ CountInv'
  BY <1>3, CoverStays, PlacesStay, SameCount DEF Books3
<1>4. CASE Charged
  <2>1. Webhook \in Worker
    BY DEF Worker
  <2>2. follow[Webhook].pc = "idle" /\ GoTo(Webhook, "restore") /\ UNCHANGED << coverage, trail, unlogged >>
    BY <1>4 DEF Charged, Resting, GoTo
  <2>3. MovesTo(Webhook, "restore")
    BY <2>1, <2>2, MovesBy
  <2> QED
    BY <2>1, <2>2, <2>3, QuietMove
<1>5. ASSUME NEW f \in Follower, Reminded(f) PROVE CoverInv' /\ CountInv'
  <2>1. PICK x \in follow[f].left : follow' = [follow EXCEPT ![f].left = @ \ {x}]
    BY <1>5 DEF Reminded
  <2>2. f \in Worker /\ Shaped(follow[f]) /\ follow = [v \in Worker |-> follow[v]]
    BY DEF SnapInv, Worker
  <2>3. \A v \in Worker : follow'[v].pc = follow[v].pc
    BY <2>1, <2>2 DEF Shaped
  <2>4. Restoring' = Restoring /\ Restored' = Restored /\ Blocking' = Blocking
    BY <2>3 DEF Restoring, Restored, Blocking
  <2> QED
    BY <1>5, <2>4, CoverStays, SameCount DEF Reminded
<1>6. CASE \E f \in Follower : Snapshot(f)
  <2>1. PICK f \in Follower : Snapshot(f)
    BY <1>6
  <2>2. /\ f \in Worker /\ follow[f].pc = "idle" /\ UNCHANGED << coverage, trail, unlogged >>
        /\ MovesTo(f, "remind")
    <3>1. PICK r : r = [pc |-> "remind", snap |-> OpenClaims, left |-> OpenClaims]
      OBVIOUS
    <3>2. follow' = [follow EXCEPT ![f] = r] /\ r.pc = "remind"
      BY <2>1, <3>1 DEF Snapshot
    <3> QED
      BY <2>1, <3>2 DEF Snapshot, At, MovesTo, Worker
  <2> QED
    BY <2>2, QuietMove
<1>7. CASE \E f \in Follower : EndCoverage(f) \/ LogBlock(f)
  BY <1>7, EndCounts, LogBlockCounts
<1>8. CASE \E w \in Worker : CheckRestore(w) \/ Reopen(w) \/ LogRestored(w) \/ FollowerCrash(w)
  BY <1>8, CheckCounts, ReopenCounts, LogRestoredCounts, CrashCounts
<1>9. CASE Billed \/ Passed \/ \E w : Written(w)
  BY <1>9, <1>3 DEF Billed, Passed, Written, Books3
<1> QED
  BY Kinds, <1>1, <1>2, <1>3, <1>4, <1>5, <1>6, <1>7, <1>8, <1>9 DEF Hand

\* Coverage is ended for want of payment only on a ripe claim.
LEMMA BlockNext ==
  ASSUME FollowInv, InvoiceInv', NextBilling
  PROVE  BlockInv'
<1>1. Tables
  BY SnapNext DEF FollowInv
<1>2. remindDay <= remindDay' /\ remindDay \in Int
  <2>1. remindDay \in Int
    BY BillingAssumption DEF FollowInv, InvoiceInv, InvoiceTypes
  <2>2. remindDay' = remindDay \/ remindDay' = remindDay + 1
    BY Kinds DEF Opened, Closed, Billed, Charged, Passed, Written, Reminded, Rows3, Prepare, Snapshot, EndCoverage,
       LogBlock, CheckRestore, Reopen, LogRestored, FollowerCrash, varsReminders
  <2> QED
    BY <2>1, <2>2
<1>3. Demanded => Demanded'
  BY <1>1, <1>2, DemandStays DEF FollowInv
<1>4. ASSUME BlockedRows' = BlockedRows PROVE BlockInv'
  BY <1>3, <1>4 DEF FollowInv, BlockInv
<1>5. CASE \E by \in Hand : Opened(by) \/ Closed(by)
  <2>1. BlockedRows' = BlockedRows
    <3>1. \A by \in Hand : by # "machine"
      BY DEF Hand
    <3> QED
      BY <1>5, <3>1, OpensRow, ClosesRows, CoverStays DEF Opened, Closed, FollowInv
  <2> QED
    BY <2>1, <1>4
<1>6. CASE \E f \in Follower : EndCoverage(f)
  <2>1. PICK f \in Follower : EndCoverage(f)
    BY <1>6
  <2>2. CASE UNCHANGED coverage
    BY <2>2, <1>4, CoverStays DEF FollowInv
  <2>3. CASE \E x \in follow[f].snap : Ripe(x)
    <3>1. PICK x \in follow[f].snap : Ripe(x)
      BY <2>3
    <3>2. PICK l \in x.last : Rung(l.step) >= 2 /\ remindDay >= x.due + BlockAfterDue
      BY <3>1 DEF Ripe
    <3>3. SeenTrue(x)
      BY DEF FollowInv, SnapInv, Worker
    <3>4. PICK k \in DOMAIN reminders : reminders[k] = l /\ reminders[k].claim = x.claim
      BY <3>3 DEF SeenTrue
    <3>5. claims[x.claim].due \in Int /\ x.due = claims[x.claim].due /\ BlockAfterDue \in Int
      <4>1. claims[x.claim] \in Claim /\ x.due = claims[x.claim].due
        BY <3>3 DEF SeenTrue, FollowInv, InvoiceInv, InvoiceTypes
      <4> QED
        BY <4>1, BillingAssumption DEF Claim
    <3>6. Demanded
      BY <3>2, <3>4, <3>5, <1>2 DEF Demanded
    <3> QED
      BY <3>6, <1>3 DEF BlockInv
  <2> QED
    BY <2>1, <2>2, <2>3 DEF EndCoverage
<1>7. CASE \E w \in Worker : Reopen(w)
  BY <1>7, <1>4, OpensRow DEF Reopen, FollowInv
<1>8. ASSUME UNCHANGED coverage PROVE BlockInv'
  BY <1>8, <1>4, CoverStays DEF FollowInv
<1>9. CASE Billed \/ Charged \/ Passed \/ \E w : Written(w) \/ Reminded(w)
  BY <1>9, <1>8 DEF Billed, Charged, Passed, Written, Reminded, Books3
<1>10. CASE \E f \in Follower : Snapshot(f) \/ LogBlock(f)
  BY <1>10, <1>8 DEF Snapshot, LogBlock
<1>11. CASE \E w \in Worker : CheckRestore(w) \/ LogRestored(w) \/ FollowerCrash(w)
  BY <1>11, <1>8 DEF CheckRestore, LogRestored, FollowerCrash
<1>12. CASE UNCHANGED Books3
  BY <1>12, <1>8 DEF Books3
<1> QED
  BY Kinds, <1>5, <1>6, <1>7, <1>9, <1>10, <1>11, <1>12 DEF Hand

LEMMA FollowNext == ASSUME FollowInv, NextBilling PROVE FollowInv'
<1>1. InvoiceInv'
  BY InvoiceNext DEF FollowInv
<1>2. LadderInv' /\ SnapInv'
  BY <1>1, LadderNext, SnapNext DEF FollowInv
<1>3. CoverInv' /\ CountInv'
  BY CoverNext DEF FollowInv
<1> QED
  BY <1>1, <1>2, <1>3, BlockNext DEF FollowInv

LEMMA FollowStutter == ASSUME FollowInv, UNCHANGED varsBilling PROVE FollowInv'
<1>1. UNCHANGED << claims, reminders, reminding, overlapped, remindDay, coverage, trail, follow, unlogged >>
  BY DEF varsBilling, varsReminders
<1>2. InvoiceInv' /\ Tables
  BY <1>1, InvoiceStutter, TablesStay DEF FollowInv
<1>3. LadderInv' /\ SnapInv'
  BY <1>1, <1>2, LadderStays, SnapStays DEF FollowInv, Tables
<1>4. CoverInv' /\ CountInv' /\ BlockedRows' = BlockedRows
  BY <1>1, CoverStays, PlacesStay, SameCount DEF FollowInv
<1>5. BlockInv'
  BY <1>1, <1>4 DEF FollowInv, BlockInv, Demanded
<1> QED
  BY <1>2, <1>3, <1>4, <1>5 DEF FollowInv

\* A claim that nobody contended climbs the ladder by the rules; coverage ends
\* for want of payment only after a demand; and unless a worker died between
\* the two statements, or two restored at once, the machine restores at most
\* what it has ended, whatever sweep, webhook, people and payments interleave.
THEOREM FollowedUpFairly == SpecBilling => []FollowUpIsFair
<1>1. FollowInv /\ [NextBilling]_varsBilling => FollowInv'
  BY FollowNext, FollowStutter
<1> QED
  BY FollowInit, <1>1, FollowFair, PTL DEF SpecBilling

=============================================================================
