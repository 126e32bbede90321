------------------------------- MODULE Inbox -------------------------------
(***************************************************************************)
(* The inbox of documents waiting to be booked, and the attestation that   *)
(* booking may require.  Uploading and attesting read in one statement and *)
(* insert in another; booking is one transaction with the row locked.      *)
(***************************************************************************)
EXTENDS Access, Sequences, FiniteSetsExt

CONSTANTS
    Document, Content,
    InboxPolicy,        \* the policies an administrator may set
    BookedAmount,       \* the debit sums vouchers are drafted with
    MaxTrail,           \* bound: attestations
    MaxPolicy           \* bound: changes of policy

ASSUME InboxPolicyAssumption ==
    /\ InboxPolicy \subseteq [active : BOOLEAN, limit : Nat, attestant : Person \cup {Nobody},
                              machine : BOOLEAN]
    /\ MaxPolicy \in Nat

VARIABLES
    inbox,          \* the rows: status and content
    booking,        \* who booked each document, and what the policy asked for then
    trail,          \* the attestations of each document, oldest first
    policy,         \* the row that governs
    policies,       \* rows of the policy so far
    sending,        \* what each person's request has read and not yet inserted
    crossed,        \* documents decided while an attestation was on its way
    raced           \* contents that two requests were uploading at once

varsInbox == << inbox, booking, trail, policy, policies, sending, crossed, raced >>

Decision == {"godkjent", "avvist"}
AtRest == [op |-> "none"]
Uploading == [op : {"upload"}, content : Content]
Attesting == [op : {"attest"}, document : Document, decision : Decision]
NoPolicy == [active |-> FALSE, limit |-> 0, attestant |-> Nobody, machine |-> FALSE]

InitInbox ==
    /\ inbox = [d \in Document |-> [status |-> "none"]]
    /\ booking = [d \in Document |-> [by |-> Nobody, attested |-> FALSE, human |-> FALSE]]
    /\ trail = [d \in Document |-> << >>]
    /\ policy = NoPolicy
    /\ policies = 0
    /\ sending = [p \in Person |-> AtRest]
    /\ crossed = {}
    /\ raced = {}

Settle(p) == sending' = [sending EXCEPT ![p] = AtRest]

\* An attestation of d is between its read and its insert.
BeingAttested(d) == \E p \in Person : sending[p].op = "attest" /\ sending[p].document = d

-----------------------------------------------------------------------------
(***************************************************************************)
(* Uploading: the same content twice is refused, by a read of its own.     *)
(***************************************************************************)
Duplicate(c) == \E d \in Document : inbox[d].status # "none" /\ inbox[d].content = c

\* Faulty: nothing looks for the content before it is stored.
UploadUnread(p, c) ==
    /\ sending' = [sending EXCEPT ![p] = [op |-> "upload", content |-> c]]
    /\ UNCHANGED raced

StartUpload(p, c) ==
    /\ ~ Duplicate(c)
    /\ sending' = [sending EXCEPT ![p] = [op |-> "upload", content |-> c]]
    /\ raced' = IF \E q \in Person : sending[q].op = "upload" /\ sending[q].content = c
                THEN raced \cup {c} ELSE raced

InsertDocument(p, d) ==
    /\ sending[p].op = "upload"
    /\ inbox[d].status = "none"
    /\ inbox' = [inbox EXCEPT ![d] = [status |-> "ny", content |-> sending[p].content]]
    /\ Settle(p)
    /\ UNCHANGED << booking, trail, policy, policies, crossed, raced >>

Upload(p, c) ==
    /\ Allowed(p, "VoucherUpload")
    /\ sending[p] = AtRest
    /\ StartUpload(p, c)
    /\ UNCHANGED << inbox, booking, trail, policy, policies, crossed >>

-----------------------------------------------------------------------------
(***************************************************************************)
(* Attestation.  The newest row on the trail governs.                      *)
(***************************************************************************)
SetPolicy(p, x) ==
    /\ Allowed(p, "ApprovalAdmin")
    /\ policies < MaxPolicy
    /\ x.attestant # Nobody => RolesOf[x.attestant] \cap {"admin", "bokforing"} # {}
    /\ policy' = x
    /\ policies' = policies + 1
    /\ UNCHANGED << inbox, booking, trail, sending, crossed, raced >>

MayAttest(p) == policy.active => policy.attestant \in {Nobody, p}

StartAttest(p, d, decision) ==
    /\ MayAttest(p)
    /\ inbox[d].status = "ny"
    /\ sending' = [sending EXCEPT ![p] = [op |-> "attest", document |-> d, decision |-> decision]]

Attest(p, d, decision) ==
    /\ Allowed(p, "ApprovalPerform")
    /\ sending[p] = AtRest
    /\ StartAttest(p, d, decision)
    /\ UNCHANGED << inbox, booking, trail, policy, policies, crossed, raced >>

Attestations == MapThenSumSet(LAMBDA d : Len(trail[d]), Document)

InsertAttestation(p) ==
    LET s == sending[p] IN
    /\ s.op = "attest"
    /\ Attestations < MaxTrail
    /\ trail' = [trail EXCEPT ![s.document] = Append(@, [decision |-> s.decision, by |-> p])]
    /\ Settle(p)
    /\ UNCHANGED << inbox, booking, policy, policies, crossed, raced >>

\* The row that governs, of those of a trail that is not empty.
Governing(d) == trail[d][Len(trail[d])]

-----------------------------------------------------------------------------
(***************************************************************************)
(* Deciding: booked or rejected, once.                                     *)
(***************************************************************************)
MachineRule(p) == p \in Machine /\ policy.machine

NeedsAttestation(p, amount) == policy.active /\ (MachineRule(p) \/ amount >= policy.limit)

\* Faulty: whoever books may have approved it too.
AttestedByAnyone(p, d) ==
    /\ trail[d] # << >>
    /\ Governing(d).decision = "godkjent"
    /\ MachineRule(p) => Governing(d).by \notin Machine

\* Approved by somebody else; by a human, when it is a machine that books.
AttestationHolds(p, d) ==
    /\ trail[d] # << >>
    /\ Governing(d).decision = "godkjent"
    /\ Governing(d).by # p
    /\ MachineRule(p) => Governing(d).by \notin Machine

Decide(d, status) ==
    /\ inbox' = [inbox EXCEPT ![d].status = status]
    /\ crossed' = IF BeingAttested(d) THEN crossed \cup {d} ELSE crossed

BokforInboxDocument(p, d, amount) ==
    /\ inbox[d].status = "ny"
    /\ NeedsAttestation(p, amount) => AttestationHolds(p, d)
    /\ Decide(d, "bokfort")
    /\ booking' = [booking EXCEPT ![d] = [by |-> p, attested |-> NeedsAttestation(p, amount),
                                          human |-> policy.active /\ MachineRule(p)]]

Bokfor(p, d, amount) ==
    /\ Allowed(p, "VoucherPost")
    /\ sending[p] = AtRest
    /\ BokforInboxDocument(p, d, amount)
    /\ UNCHANGED << trail, policy, policies, sending, raced >>

\* Faulty: the rejection puts the document back with a status nobody knows.
AvvisAsHidden(d) == inbox[d].status = "ny" /\ Decide(d, "skjult")

AvvisInboxDocument(d) == inbox[d].status = "ny" /\ Decide(d, "avvist")

Avvis(p, d) ==
    /\ Allowed(p, "VoucherPost")
    /\ sending[p] = AtRest
    /\ AvvisInboxDocument(d)
    /\ UNCHANGED << booking, trail, policy, policies, sending, raced >>

NextInbox ==
    \/ \E p \in Person, c \in Content : Upload(p, c)
    \/ \E p \in Person, d \in Document : InsertDocument(p, d)
    \/ \E p \in Person, x \in InboxPolicy : SetPolicy(p, x)
    \/ \E p \in Person, d \in Document, decision \in Decision : Attest(p, d, decision)
    \/ \E p \in Person : InsertAttestation(p)
    \/ \E p \in Person, d \in Document, amount \in BookedAmount : Bokfor(p, d, amount)
    \/ \E p \in Person, d \in Document : Avvis(p, d)

SpecInbox == InitInbox /\ [][NextInbox]_varsInbox

-----------------------------------------------------------------------------
Stored == [status : {"ny", "bokfort", "avvist"}, content : Content]

TypeOKInbox ==
    /\ inbox \in [Document -> {[status |-> "none"]} \cup Stored]
    /\ booking \in [Document -> [by : Person \cup {Nobody}, attested : BOOLEAN, human : BOOLEAN]]
    /\ trail \in [Document -> Seq([decision : Decision, by : Person])]
    /\ policy \in InboxPolicy \cup {NoPolicy}
    /\ policies \in 0..MaxPolicy
    /\ sending \in [Person -> {AtRest} \cup Uploading \cup Attesting]
    /\ crossed \subseteq Document
    /\ raced \subseteq Content

(***************************************************************************)
(* A document that was booked when the policy asked for an attestation has *)
(* an approval by somebody other than whoever booked it, by a human when a *)
(* machine booked it under that rule; and if what governs it now is a      *)
(* rejection, then that rejection was already on its way when it was       *)
(* booked: attester_inbox_document reads the status in one statement and   *)
(* inserts in another, so the trail of a booked document can still grow.   *)
(***************************************************************************)
AttestedByAnother ==
    \A d \in Document : booking[d].attested =>
        /\ \E i \in 1..Len(trail[d]) :
              /\ trail[d][i].decision = "godkjent"
              /\ trail[d][i].by # booking[d].by
              /\ booking[d].human => trail[d][i].by \notin Machine
        /\ Governing(d).decision = "avvist" => d \in crossed

(***************************************************************************)
(* A document does not become two because the phone was unsure whether its *)
(* first attempt arrived: the same content is in the inbox twice only when *)
(* two uploads of it overlapped, for nothing but the read before the       *)
(* insert keeps them apart.                                                *)
(***************************************************************************)
TwinsOnlyIfContended ==
    \A d, e \in Document :
        /\ d # e
        /\ inbox[d].status # "none" /\ inbox[e].status # "none"
        /\ inbox[d].content = inbox[e].content
        => inbox[d].content \in raced

=============================================================================
