----------------------------- MODULE Membership -----------------------------
(***************************************************************************)
(* Who has access to a company, by every route: memberships and the        *)
(* company's own roles, a firm with an engagement, machines with a grant;  *)
(* and the platform, which assigns memberships and grants none of its own. *)
(* A company and a firm keep their members alike, so both are an Org here. *)
(***************************************************************************)
EXTENDS Rights, Sequences, FiniteSetsExt

CONSTANTS
    Human, Robot, NotLinked,
    Founder,            \* who onboards the company
    Company, Firm,
    EngagementRole,     \* what the firm's kind of engagement grants: bokforing or revisor
    OwnRole,            \* names the company may give roles of its own
    OwnRights,          \* sets of rights somebody asks to put in one
    AssignedRole,       \* the roles tried for each organisation
    Invite,
    MaxChange           \* bound: rows of the trails

Org == {Company, Firm}
NoRole == "none"

ASSUME MembershipAssumption ==
    /\ Company # Firm /\ Founder \in Human /\ NotLinked \notin Human
    /\ Human \cap Robot = {} /\ OwnRole \cap (Role \cup {NoRole}) = {}
    /\ EngagementRole \in {"bokforing", "revisor"}
    /\ AssignedRole \in [Org -> SUBSET (Role \cup OwnRole)]
    /\ OwnRights \subseteq SUBSET Right

VARIABLES
    member,         \* the membership rows of each organisation
    changes,        \* the trail of each membership, oldest first
    invitation,     \* the invitations, addressed to a human's e-mail
    linked,         \* the portal user of the one employee, or NotLinked
    ownRole,        \* the company's own roles
    engagement,     \* whether one is requested, and whether one is open
    grant,          \* the role of each robot's open grant
    platformRole,   \* the platform roles that are active
    cleared,        \* the guard each human's request has passed and not yet used
    onboarding,     \* how far creating the company has come
    demoted         \* organisations where the platform took an administrator's role,
                    \* or came before the founder's

varsMembership == << member, changes, invitation, linked, ownRole, engagement, grant,
                     platformRole, cleared, onboarding, demoted >>

NoRow == [role |-> NoRole, active |-> FALSE]
NoOwnRole == [rights |-> {}, active |-> FALSE, created |-> FALSE]
NoInvite == [status |-> "none"]

InitMembership ==
    /\ member = [o \in Org |-> [p \in Human |-> NoRow]]
    /\ changes = [o \in Org |-> [p \in Human |-> << >>]]
    /\ invitation = [i \in Invite |-> NoInvite]
    /\ linked = NotLinked
    /\ ownRole = [r \in OwnRole |-> NoOwnRole]
    /\ engagement = [pending |-> FALSE, open |-> FALSE]
    /\ grant = [m \in Robot |-> NoRole]
    /\ \E q \in Human :
          platformRole = [p \in Human |-> IF p = q THEN {"systemadmin"} ELSE {}]
    /\ cleared = [p \in Human |-> "none"]
    /\ onboarding = "none"
    /\ demoted = {}

-----------------------------------------------------------------------------
(***************************************************************************)
(* What a person may do in the company: the union over every route in.     *)
(***************************************************************************)
IsActive(o, p) == member[o][p].active
IsAdmin(o, p) == IsActive(o, p) /\ member[o][p].role = "admin"

\* Faulty: somebody in the firm has in the company the role they have in the firm.
FirmRoleCarried(p) ==
    IF p \in Robot THEN {grant[p]} \ {NoRole}
    ELSE {member[Company][p].role : x \in {y \in {1} : IsActive(Company, p)}}
            \cup {member[Firm][p].role : x \in {y \in {1} : IsActive(Firm, p) /\ engagement.open}}

\* company_access_for_person, for this company.
CompanyRoles(p) ==
    IF p \in Robot THEN {grant[p]} \ {NoRole}
    ELSE {member[Company][p].role : x \in {y \in {1} : IsActive(Company, p)}}
            \cup {EngagementRole : x \in {y \in {1} : IsActive(Firm, p) /\ engagement.open}}

\* rights_for: names that are not built in, by what the company says of them.
RightsFor(roles) ==
    {right \in UNION {ownRole[r].rights : r \in {s \in roles \cap OwnRole : ownRole[s].active}} :
        Delegable(right)}

Holds(p, right) == Has(CompanyRoles(p), RightsFor(CompanyRoles(p)), p \in Robot, right)

\* The strongest platform role that is active.
ActivePlatformRole(p) ==
    IF "systemadmin" \in platformRole[p] THEN "systemadmin"
    ELSE IF "support" \in platformRole[p] THEN "support" ELSE "none"

\* The guard is passed in one statement; what it guards comes later.
Gate(o) == IF o = Company THEN "member" ELSE "firm"

Clear(p, gate) ==
    /\ cleared[p] = "none"
    /\ \/ gate = "member" /\ Holds(p, "MemberAdmin")
       \/ gate = "firm" /\ IsAdmin(Firm, p)
       \/ gate \in {"systemadmin", "support"} /\ ActivePlatformRole(p) = gate
    /\ cleared' = [cleared EXCEPT ![p] = gate]
    /\ UNCHANGED << member, changes, invitation, linked, ownRole, engagement, grant,
                    platformRole, onboarding, demoted >>

Done(p) == cleared' = [cleared EXCEPT ![p] = "none"]

\* A request that is refused for any other reason leaves no trace.
Refuse(p) ==
    /\ cleared[p] # "none"
    /\ Done(p)
    /\ UNCHANGED << member, changes, invitation, linked, ownRole, engagement, grant,
                    platformRole, onboarding, demoted >>

-----------------------------------------------------------------------------
(***************************************************************************)
(* The members of an organisation.                                         *)
(***************************************************************************)
Changes == MapThenSumSet(LAMBDA o : MapThenSumSet(LAMBDA p : Len(changes[o][p]), Human), Org)

Log(o, p, change, from, to) ==
    /\ Changes < MaxChange
    /\ changes' = [changes EXCEPT ![o][p] =
                     Append(@, [change |-> change, from |-> from, to |-> to])]

Put(o, p, role, active) ==
    member' = [member EXCEPT ![o][p] = [role |-> role, active |-> active]]

\* Faulty: counts the members that remain, not the administrators.
AnyoneRemains(rows) == \E p \in Human : rows[p].active

\* Counted after the change, with every row of the organisation locked.
RemainingAdmin(rows) == \E p \in Human : rows[p].active /\ rows[p].role = "admin"

SetRole(o, p, q, role) ==
    /\ cleared[p] = Gate(o)
    /\ role \in AssignedRole[o]
    /\ role \in OwnRole => ownRole[role].active
    /\ IsActive(o, q)
    /\ role # member[o][q].role
    /\ Put(o, q, role, TRUE)
    /\ RemainingAdmin(member'[o])
    /\ Log(o, q, "rolle_endret", member[o][q].role, role)
    /\ Done(p)
    /\ UNCHANGED << invitation, linked, ownRole, engagement, grant, platformRole, onboarding,
                    demoted >>

\* The company's own administration, or the platform's for a company.
SetActive(o, p, q, active) ==
    LET role == member[o][q].role IN
    /\ cleared[p] \in {Gate(o)} \cup (IF o = Company THEN {"systemadmin"} ELSE {})
    /\ member[o][q] # NoRow
    /\ active # IsActive(o, q)
    /\ Put(o, q, role, active)
    /\ RemainingAdmin(member'[o])
    /\ Log(o, q, IF active THEN "reaktivert" ELSE "deaktivert", role, role)
    /\ Done(p)
    /\ UNCHANGED << invitation, linked, ownRole, engagement, grant, platformRole, onboarding,
                    demoted >>

\* A new membership by support too; a change of one only by systemadmin.
PlatformAssign(o, p, q, role) ==
    LET row == member[o][q] IN
    /\ cleared[p] \in {"systemadmin", "support"}
    /\ o = Company => onboarding # "none"
    /\ o = Firm => changes[Firm] # [h \in Human |-> << >>]
    /\ role \in AssignedRole[o] \ OwnRole
    /\ row # NoRow => cleared[p] = "systemadmin"
    /\ Put(o, q, role, TRUE)
    /\ Log(o, q, CASE row = NoRow -> "lagt_til"
                   [] row.active  -> "rolle_endret"
                   [] OTHER       -> "reaktivert", row.role, role)
    /\ demoted' = IF role # "admin" /\ (IsAdmin(o, q) \/ (o = Company /\ onboarding = "created"))
                  THEN demoted \cup {o} ELSE demoted
    /\ Done(p)
    /\ UNCHANGED << invitation, linked, ownRole, engagement, grant, platformRole, onboarding >>

-----------------------------------------------------------------------------
(***************************************************************************)
(* Invitations: sent to an address, redeemed when its owner shows up.      *)
(***************************************************************************)
Open(o, q) ==
    {i \in Invite : /\ invitation[i].status = "open"
                    /\ invitation[i].org = o /\ invitation[i].to = q}

\* An invitation to the company may carry the employee that it will link.
Inviter(p, i, o, q, role, carries) ==
    /\ cleared[p] = Gate(o)
    /\ role \in AssignedRole[o]
    /\ role \in OwnRole => ownRole[role].active
    /\ carries => /\ o = Company
                  /\ Holds(p, "PayrollWrite")
                  /\ linked = NotLinked
                  /\ \A j \in Invite : invitation[j].status = "open" => ~ invitation[j].carries
    /\ invitation[i] = NoInvite
    /\ Open(o, q) = {}
    /\ invitation' = [invitation EXCEPT ![i] =
                        [status |-> "open", org |-> o, to |-> q, role |-> role, carries |-> carries]]
    /\ Done(p)
    /\ UNCHANGED << member, changes, linked, ownRole, engagement, grant, platformRole, onboarding,
                    demoted >>

RevokeInvitation(p, i) ==
    /\ invitation[i].status = "open"
    /\ cleared[p] = Gate(invitation[i].org)
    /\ invitation' = [invitation EXCEPT ![i].status = "revoked"]
    /\ Done(p)
    /\ UNCHANGED << member, changes, linked, ownRole, engagement, grant, platformRole, onboarding,
                    demoted >>

\* Faulty: an invitation overwrites the membership that is there.
RedeemReactivates(o, q) ==
    \E i \in Open(o, q) :
        /\ invitation' = [invitation EXCEPT ![i].status = "accepted"]
        /\ Put(o, q, invitation[i].role, TRUE)
        /\ IF member[o][q] = NoRow
           THEN Log(o, q, "lagt_til", NoRole, invitation[i].role)
           ELSE UNCHANGED changes
        /\ UNCHANGED << linked, ownRole, engagement, grant, platformRole, cleared, onboarding,
                        demoted >>

\* A membership that exists stands as it is, also one that is switched off.
RedeemInvitations(o, q) ==
    \E i \in Open(o, q) :
        /\ invitation' = [invitation EXCEPT ![i].status = "accepted"]
        /\ IF member[o][q] = NoRow
           THEN /\ Put(o, q, invitation[i].role, TRUE)
                /\ Log(o, q, "lagt_til", NoRole, invitation[i].role)
           ELSE UNCHANGED << member, changes >>
        /\ linked' = IF invitation[i].carries /\ linked = NotLinked THEN q ELSE linked
        /\ UNCHANGED << ownRole, engagement, grant, platformRole, cleared, onboarding, demoted >>

-----------------------------------------------------------------------------
(***************************************************************************)
(* The company's own roles.                                                *)
(***************************************************************************)

\* Faulty: the rights that are asked for are taken as they are.
CreateRoleUnchecked(p, r, rights) ==
    /\ cleared[p] = "member"
    /\ ~ ownRole[r].created
    /\ ownRole' = [ownRole EXCEPT ![r] = [rights |-> rights, active |-> TRUE, created |-> TRUE]]
    /\ Done(p)
    /\ UNCHANGED << member, changes, invitation, linked, engagement, grant, platformRole,
                    onboarding, demoted >>

\* godkjenn refuses a right that governs who has access.
CreateRole(p, r, rights) ==
    /\ cleared[p] = "member"
    /\ \A right \in rights : Delegable(right)
    /\ ~ ownRole[r].created
    /\ ownRole' = [ownRole EXCEPT ![r] = [rights |-> rights, active |-> TRUE, created |-> TRUE]]
    /\ Done(p)
    /\ UNCHANGED << member, changes, invitation, linked, engagement, grant, platformRole,
                    onboarding, demoted >>

SetRights(p, r, rights) ==
    /\ cleared[p] = "member"
    /\ \A right \in rights : Delegable(right)
    /\ ownRole[r].created
    /\ ownRole' = [ownRole EXCEPT ![r].rights = rights]
    /\ Done(p)
    /\ UNCHANGED << member, changes, invitation, linked, engagement, grant, platformRole,
                    onboarding, demoted >>

SetRoleActive(p, r, active) ==
    /\ cleared[p] = "member"
    /\ ownRole[r].created
    /\ ownRole' = [ownRole EXCEPT ![r].active = active]
    /\ Done(p)
    /\ UNCHANGED << member, changes, invitation, linked, engagement, grant, platformRole,
                    onboarding, demoted >>

-----------------------------------------------------------------------------
(***************************************************************************)
(* How the organisations come about, and what connects them.               *)
(***************************************************************************)

\* The company is a row of its own before it has an administrator.
CreateCompany ==
    /\ onboarding = "none"
    /\ onboarding' = "created"
    /\ UNCHANGED << member, changes, invitation, linked, ownRole, engagement, grant,
                    platformRole, cleared, demoted >>

\* The statements after it; whatever fails before the administrator is
\* inserted leaves the company, which can be onboarded only once.
OnboardCompany ==
    /\ onboarding = "created"
    /\ \/ /\ onboarding' = "done"
          /\ IF member[Company][Founder] = NoRow THEN Put(Company, Founder, "admin", TRUE)
             ELSE UNCHANGED member
       \/ onboarding' = "failed" /\ UNCHANGED member
    /\ UNCHANGED << changes, invitation, linked, ownRole, engagement, grant, platformRole,
                    cleared, demoted >>

CreateVerifiedFirm(p) ==
    /\ changes[Firm] = [h \in Human |-> << >>]
    /\ Put(Firm, p, "admin", TRUE)
    /\ Log(Firm, p, "lagt_til", NoRole, "admin")
    /\ UNCHANGED << invitation, linked, ownRole, engagement, grant, platformRole, cleared,
                    onboarding, demoted >>

RequestEngagement(p) ==
    /\ Holds(p, "EngagementAdmin")
    /\ engagement = [pending |-> FALSE, open |-> FALSE]
    /\ engagement' = [engagement EXCEPT !.pending = TRUE]
    /\ UNCHANGED << member, changes, invitation, linked, ownRole, grant, platformRole, cleared,
                    onboarding, demoted >>

DecideRequest(p, accept) ==
    /\ cleared[p] = "firm"
    /\ engagement.pending
    /\ engagement' = [pending |-> FALSE, open |-> engagement.open \/ accept]
    /\ Done(p)
    /\ UNCHANGED << member, changes, invitation, linked, ownRole, grant, platformRole, onboarding,
                    demoted >>

EndEngagement(p) ==
    /\ Holds(p, "EngagementAdmin")
    /\ engagement.open
    /\ engagement' = [engagement EXCEPT !.open = FALSE]
    /\ UNCHANGED << member, changes, invitation, linked, ownRole, grant, platformRole, cleared,
                    onboarding, demoted >>

\* Granted, changed (one grant ends and another begins) or revoked.
SetGrant(p, m, role) ==
    /\ Holds(p, "IntegrationAdmin")
    /\ role \in {NoRole} \cup AssignedRole[Company]
    /\ role \in OwnRole => ownRole[role].active
    /\ role # grant[m]
    /\ grant' = [grant EXCEPT ![m] = role]
    /\ UNCHANGED << member, changes, invitation, linked, ownRole, engagement, platformRole,
                    cleared, onboarding, demoted >>

GrantPlatformRole(p, q, role) ==
    /\ cleared[p] = "systemadmin"
    /\ platformRole' = [platformRole EXCEPT ![q] = @ \cup {role}]
    /\ Done(p)
    /\ UNCHANGED << member, changes, invitation, linked, ownRole, engagement, grant, onboarding,
                    demoted >>

EndPlatformMember(p, q, role) ==
    /\ cleared[p] = "systemadmin"
    /\ platformRole' = [platformRole EXCEPT ![q] = @ \ {role}]
    /\ Done(p)
    /\ UNCHANGED << member, changes, invitation, linked, ownRole, engagement, grant, onboarding,
                    demoted >>

\* Every platform role ends by a date.
PlatformRoleExpires(q, role) ==
    /\ role \in platformRole[q]
    /\ platformRole' = [platformRole EXCEPT ![q] = @ \ {role}]
    /\ UNCHANGED << member, changes, invitation, linked, ownRole, engagement, grant, cleared,
                    onboarding, demoted >>

\* A company's members and a firm's are handled alike, by handlers of their own.
SetMemberRole(p, q, role) == SetRole(Company, p, q, role)
SetFirmRole(p, q, role) == SetRole(Firm, p, q, role)
SetMemberActive(p, q, active) == SetActive(Company, p, q, active)
SetFirmActive(p, q, active) == SetActive(Firm, p, q, active)
AssignCompany(p, q, role) == PlatformAssign(Company, p, q, role)
AssignFirm(p, q, role) == PlatformAssign(Firm, p, q, role)
InviteMember(p, i, q, role, carries) == Inviter(p, i, Company, q, role, carries)
InviteToFirm(p, i, q, role) == Inviter(p, i, Firm, q, role, FALSE)
RedeemCompany(q) == RedeemInvitations(Company, q)
RedeemFirm(q) == RedeemInvitations(Firm, q)

NextMembers ==
    \/ \E p, q \in Human, role \in AssignedRole[Company] :
          \/ SetMemberRole(p, q, role) \/ AssignCompany(p, q, role)
          \/ \E i \in Invite, carries \in BOOLEAN : InviteMember(p, i, q, role, carries)
    \/ \E p, q \in Human, role \in AssignedRole[Firm] :
          \/ SetFirmRole(p, q, role) \/ AssignFirm(p, q, role)
          \/ \E i \in Invite : InviteToFirm(p, i, q, role)
    \/ \E p, q \in Human, active \in BOOLEAN :
          SetMemberActive(p, q, active) \/ SetFirmActive(p, q, active)
    \/ \E p \in Human, i \in Invite : RevokeInvitation(p, i)
    \/ \E q \in Human : RedeemCompany(q) \/ RedeemFirm(q)

NextMembership ==
    \/ \E p \in Human, gate \in {"member", "firm", "systemadmin", "support"} : Clear(p, gate)
    \/ \E p \in Human : Refuse(p) \/ CreateVerifiedFirm(p) \/ RequestEngagement(p)
                          \/ EndEngagement(p)
    \/ NextMembers
    \/ \E p \in Human, r \in OwnRole, rights \in OwnRights :
          CreateRole(p, r, rights) \/ SetRights(p, r, rights)
    \/ \E p \in Human, r \in OwnRole, active \in BOOLEAN : SetRoleActive(p, r, active)
    \/ CreateCompany \/ OnboardCompany
    \/ \E p \in Human, accept \in BOOLEAN : DecideRequest(p, accept)
    \/ \E p \in Human, m \in Robot, role \in {NoRole} \cup AssignedRole[Company] :
          SetGrant(p, m, role)
    \/ \E p, q \in Human, role \in {"systemadmin", "support"} :
          GrantPlatformRole(p, q, role) \/ EndPlatformMember(p, q, role)
    \/ \E q \in Human, role \in {"systemadmin", "support"} : PlatformRoleExpires(q, role)

SpecMembership == InitMembership /\ [][NextMembership]_varsMembership

-----------------------------------------------------------------------------
TypeOKMembership ==
    /\ member \in [Org -> [Human -> [role : Role \cup OwnRole \cup {NoRole}, active : BOOLEAN]]]
    /\ \A i \in Invite : invitation[i].status \in {"none", "open", "accepted", "revoked"}
    /\ linked \in Human \cup {NotLinked}
    /\ ownRole \in [OwnRole -> [rights : SUBSET {right \in Right : Delegable(right)},
                                active : BOOLEAN, created : BOOLEAN]]
    /\ engagement \in [pending : BOOLEAN, open : BOOLEAN]
    /\ grant \in [Robot -> Role \cup OwnRole \cup {NoRole}]
    /\ platformRole \in [Human -> SUBSET {"systemadmin", "support"}]
    /\ cleared \in [Human -> {"none", "member", "firm", "systemadmin", "support"}]
    /\ onboarding \in {"none", "created", "done", "failed"}
    /\ demoted \subseteq Org

HasAdmin(o) == \E p \in Human : IsAdmin(o, p)
SetUp(o) == IF o = Company THEN onboarding = "done" ELSE \E p \in Human : member[o][p] # NoRow

(***************************************************************************)
(* "The platform must not orphan a company either" (platform.rs:526): an   *)
(* organisation that has been set up keeps an administrator, however its   *)
(* administrators demote and switch off each other at once.                *)
(***************************************************************************)
NeverOrphaned == \A o \in Org : SetUp(o) => HasAdmin(o)

(***************************************************************************)
(* What does hold of it: an organisation that has been set up is without   *)
(* an administrator only if the platform took the role from one, or gave   *)
(* the founder a lesser one first; platform_assign_company and             *)
(* platform_assign_firm do not count the administrators that remain.       *)
(***************************************************************************)
OrphanedOnlyByPlatform == \A o \in Org \ demoted : SetUp(o) => HasAdmin(o)

(***************************************************************************)
(* The trail answers the question a revisor asks: replayed from the first  *)
(* row to the last, each starting from the role the one before it left, it *)
(* ends in the membership that stands, whoever changed it and by whichever *)
(* route.  (The founder alone begins without a row.)                       *)
(***************************************************************************)
TrailReplays ==
    \A o \in Org, p \in Human :
        LET t == changes[o][p]
            founder == o = Company /\ p = Founder
        IN
        /\ \A i \in 2..Len(t) :
              /\ t[i].from = t[i-1].to
              /\ t[i].change = "reaktivert" <=> t[i-1].change = "deaktivert"
              /\ t[i].change # "lagt_til"
        /\ t # << >> =>
              /\ t[1].change = "lagt_til" \/ (founder /\ t[1].from = "admin")
              /\ member[o][p] = [role |-> t[Len(t)].to, active |-> t[Len(t)].change # "deaktivert"]
        /\ t = << >> => member[o][p] = NoRow \/ founder

(***************************************************************************)
(* Who has access is decided by people: whoever holds a right that governs *)
(* it is an active administrator in person, not a machine, not somebody    *)
(* with a role the company made up, and not by way of a firm.              *)
(***************************************************************************)
GovernedByAdmins ==
    \A p \in Human \cup Robot :
        (\E right \in {"MemberAdmin", "EngagementAdmin", "IntegrationAdmin", "CompanyAdmin"} :
            Holds(p, right)) => p \in Human /\ IsAdmin(Company, p)

=============================================================================
