--------------------------- MODULE DocumentProofs ---------------------------
(***************************************************************************)
(* Proofs about the documents of a company: the inbox they are attested    *)
(* in, the mail they come with, the mail that is sent, the claims of its   *)
(* people and their hours, its quotes, orders and templates, its invoices, *)
(* credit notes and stock; for any number of people, machines, documents,  *)
(* policies, mails, claims, entries and invoices, and any number of        *)
(* crashes and redeliveries.                                               *)
(***************************************************************************)
EXTENDS Inbox, InboundMail, Dispatch, Expenses, Timesheet, SalesDocuments, FiniteSums, TLAPS

(***************************************************************************)
(* The inbox.                                                              *)
(***************************************************************************)

\* A booking that asked for an attestation found one, and the document is decided.
Attested ==
    \A d \in Document : booking[d].attested =>
        /\ inbox[d].status = "bokfort"
        /\ trail[d] # << >>

\* An attestation still on its way to a document that is decided met the decision.
Overtaken ==
    \A p \in Person : LET s == sending[p] IN
        /\ s.op = "attest" => inbox[s.document].status # "none"
        /\ s.op = "attest" /\ inbox[s.document].status # "ny" => s.document \in crossed

\* Two uploads of one content at once raced, and so did one that an insert came before.
Racing ==
    /\ \A p, q \in Person :
          (p # q /\ sending[p].op = "upload" /\ sending[q].op = "upload"
                 /\ sending[p].content = sending[q].content) => sending[p].content \in raced
    /\ \A p \in Person, d \in Document :
          (sending[p].op = "upload" /\ inbox[d].status # "none"
                 /\ inbox[d].content = sending[p].content) => sending[p].content \in raced

InboxInv ==
    TypeOKInbox /\ Attested /\ Overtaken /\ Racing /\ AttestedByAnother /\ TwinsOnlyIfContended

LEMMA InitInboxInv == InitInbox => InboxInv
<1> SUFFICES ASSUME InitInbox PROVE InboxInv
  OBVIOUS
<1>1. TypeOKInbox
  BY InboxPolicyAssumption DEF InitInbox, TypeOKInbox, AtRest
<1>2. /\ \A d \in Document : booking[d].attested = FALSE /\ inbox[d].status = "none"
      /\ \A p \in Person : sending[p].op = "none"
  BY DEF InitInbox, AtRest
<1> QED
  BY <1>1, <1>2
  DEF InboxInv, Attested, Overtaken, Racing, AttestedByAnother, TwinsOnlyIfContended

\* What a request can be doing.
LEMMA SendingShape ==
  ASSUME TypeOKInbox, NEW p \in Person
  PROVE  /\ sending[p].op \in {"none", "upload", "attest"}
         /\ sending[p].op = "upload" => sending[p].content \in Content
         /\ sending[p].op = "attest" => /\ sending[p].document \in Document
                                        /\ sending[p].decision \in Decision
  BY DEF TypeOKInbox, AtRest, Uploading, Attesting

\* The content is looked for, and the request goes on to store it.
LEMMA UploadKeeps ==
  ASSUME InboxInv, NEW p \in Person, NEW c \in Content, Upload(p, c)
  PROVE  InboxInv'
<1>1. /\ sending' = [sending EXCEPT ![p] = [op |-> "upload", content |-> c]]
      /\ UNCHANGED << inbox, booking, trail, policy, policies, crossed >>
      /\ sending[p] = AtRest /\ ~ Duplicate(c)
      /\ raced' = IF \E q \in Person : sending[q].op = "upload" /\ sending[q].content = c
                  THEN raced \cup {c} ELSE raced
  BY DEF Upload, StartUpload
<1>2. /\ sending'[p] = [op |-> "upload", content |-> c]
      /\ \A q \in Person : q # p => sending'[q] = sending[q]
      /\ sending' \in [Person -> {AtRest} \cup Uploading \cup Attesting]
  BY <1>1 DEF InboxInv, TypeOKInbox, Uploading
<1>3. raced \subseteq raced' /\ raced' \subseteq Content
  BY <1>1 DEF InboxInv, TypeOKInbox
<1>4. TypeOKInbox'
  BY <1>1, <1>2, <1>3 DEF InboxInv, TypeOKInbox
<1>5. Attested' /\ AttestedByAnother'
  BY <1>1 DEF InboxInv, Attested, AttestedByAnother, Governing
<1>6. Overtaken'
  BY <1>1, <1>2 DEF InboxInv, Overtaken
<1>7. Racing'
  BY <1>1, <1>2, <1>3 DEF InboxInv, Racing, Duplicate
<1>8. TwinsOnlyIfContended'
  BY <1>1, <1>3 DEF InboxInv, TwinsOnlyIfContended
<1> QED
  BY <1>4, <1>5, <1>6, <1>7, <1>8 DEF InboxInv

\* A second copy of a content goes in only where two uploads of it met.
LEMMA InsertDocumentKeeps ==
  ASSUME InboxInv, NEW p \in Person, NEW d \in Document, InsertDocument(p, d)
  PROVE  InboxInv'
<1> DEFINE c == sending[p].content
<1>1. /\ sending[p].op = "upload" /\ c \in Content /\ inbox[d].status = "none"
      /\ inbox' = [inbox EXCEPT ![d] = [status |-> "ny", content |-> c]]
      /\ sending' = [sending EXCEPT ![p] = AtRest]
      /\ UNCHANGED << booking, trail, policy, policies, crossed, raced >>
  BY SendingShape DEF InsertDocument, Settle, InboxInv
<1>2. /\ sending'[p] = AtRest
      /\ \A q \in Person : q # p => sending'[q] = sending[q]
      /\ sending' \in [Person -> {AtRest} \cup Uploading \cup Attesting]
  BY <1>1 DEF InboxInv, TypeOKInbox
<1>3. /\ inbox'[d] = [status |-> "ny", content |-> c]
      /\ \A e \in Document : e # d => inbox'[e] = inbox[e]
      /\ inbox' \in [Document -> {[status |-> "none"]} \cup Stored]
  BY <1>1 DEF InboxInv, TypeOKInbox, Stored
<1>4. TypeOKInbox'
  BY <1>1, <1>2, <1>3 DEF InboxInv, TypeOKInbox
<1>5. Attested' /\ AttestedByAnother'
  BY <1>1, <1>3 DEF InboxInv, Attested, AttestedByAnother, Governing
<1>6. Overtaken'
  BY <1>1, <1>2, <1>3, SendingShape DEF InboxInv, Overtaken, AtRest
<1>7. Racing'
  BY <1>1, <1>2, <1>3 DEF InboxInv, Racing, AtRest
<1>8. \A e \in Document : e # d /\ inbox[e].status # "none" /\ inbox[e].content = c => c \in raced
  BY <1>1 DEF InboxInv, Racing
<1>9. TwinsOnlyIfContended'
  BY <1>1, <1>3, <1>8 DEF InboxInv, TwinsOnlyIfContended
<1> QED
  BY <1>4, <1>5, <1>6, <1>7, <1>9 DEF InboxInv

LEMMA PolicyKeeps ==
  ASSUME InboxInv, NEW p \in Person, NEW x \in InboxPolicy, SetPolicy(p, x)
  PROVE  InboxInv'
<1>1. policies' \in 0..MaxPolicy /\ policy' \in InboxPolicy
  BY InboxPolicyAssumption DEF SetPolicy, InboxInv, TypeOKInbox
<1> QED
  BY <1>1 DEF SetPolicy, InboxInv, TypeOKInbox, Attested, Overtaken, Racing, AttestedByAnother,
              TwinsOnlyIfContended, Governing

\* An attestation reads that the document is undecided.
LEMMA AttestKeeps ==
  ASSUME InboxInv, NEW p \in Person, NEW d \in Document, NEW decision \in Decision,
         Attest(p, d, decision)
  PROVE  InboxInv'
<1>1. /\ sending' = [sending EXCEPT ![p] = [op |-> "attest", document |-> d, decision |-> decision]]
      /\ inbox[d].status = "ny"
      /\ UNCHANGED << inbox, booking, trail, policy, policies, crossed, raced >>
  BY DEF Attest, StartAttest
<1>2. /\ sending'[p] = [op |-> "attest", document |-> d, decision |-> decision]
      /\ \A q \in Person : q # p => sending'[q] = sending[q]
      /\ sending' \in [Person -> {AtRest} \cup Uploading \cup Attesting]
  BY <1>1 DEF InboxInv, TypeOKInbox, Attesting
<1>3. TypeOKInbox'
  BY <1>1, <1>2 DEF InboxInv, TypeOKInbox
<1>4. Attested' /\ AttestedByAnother' /\ TwinsOnlyIfContended'
  BY <1>1 DEF InboxInv, Attested, AttestedByAnother, TwinsOnlyIfContended, Governing
<1>5. Overtaken' /\ Racing'
  BY <1>1, <1>2 DEF InboxInv, Overtaken, Racing
<1> QED
  BY <1>3, <1>4, <1>5 DEF InboxInv

LEMMA Appended ==
  ASSUME NEW S, NEW t \in Seq(S), NEW x \in S
  PROVE  Append(t, x) \in Seq(S)
  OBVIOUS

\* The row goes in, on a document that may be decided by now.
LEMMA InsertAttestationKeeps ==
  ASSUME InboxInv, NEW p \in Person, InsertAttestation(p)
  PROVE  InboxInv'
<1>0. PICK n \in Document, decision \in Decision :
        sending[p].op = "attest" /\ sending[p].document = n /\ sending[p].decision = decision
  BY SendingShape DEF InsertAttestation, InboxInv
<1> DEFINE a == [decision |-> decision, by |-> p]
           Trails == Seq([decision : Decision, by : Person])
<1>1. /\ trail' = [trail EXCEPT ![n] = Append(@, a)]
      /\ sending' = [sending EXCEPT ![p] = AtRest]
      /\ UNCHANGED << inbox, booking, policy, policies, crossed, raced >>
  BY <1>0 DEF InsertAttestation, Settle
<1>2. /\ sending'[p] = AtRest
      /\ \A q \in Person : q # p => sending'[q] = sending[q]
      /\ sending' \in [Person -> {AtRest} \cup Uploading \cup Attesting]
  BY <1>1 DEF InboxInv, TypeOKInbox
<1>3. /\ trail[n] \in Trails /\ a \in [decision : Decision, by : Person]
      /\ trail'[n] = Append(trail[n], a)
      /\ \A e \in Document : e # n => trail'[e] = trail[e]
      /\ trail' \in [Document -> Trails]
  <2>1. trail \in [Document -> Trails] /\ a \in [decision : Decision, by : Person]
    BY <1>0 DEF InboxInv, TypeOKInbox
  <2>2. Append(trail[n], a) \in Trails
    BY <2>1, Appended
  <2>3. trail' = [trail EXCEPT ![n] = Append(trail[n], a)]
    BY <1>1
  <2> HIDE DEF a, Trails
  <2> QED
    BY <2>1, <2>2, <2>3
<1>4. TypeOKInbox'
  BY <1>1, <1>2, <1>3 DEF InboxInv, TypeOKInbox
<1>5. /\ Len(trail'[n]) = Len(trail[n]) + 1
      /\ trail'[n] # << >>
      /\ \A i \in 1..Len(trail[n]) : trail'[n][i] = trail[n][i]
      /\ Governing(n)' = a
  BY <1>3 DEF Governing
<1>6. Attested'
  BY <1>1, <1>3, <1>5 DEF InboxInv, Attested
<1>7. Overtaken' /\ Racing' /\ TwinsOnlyIfContended'
  BY <1>1, <1>2 DEF InboxInv, Overtaken, Racing, TwinsOnlyIfContended, AtRest
\* A rejection that becomes the governing row of a booked document was on its way.
<1>8. AttestedByAnother'
  <2> SUFFICES ASSUME NEW d \in Document, booking[d].attested
               PROVE  /\ \E i \in 1..Len(trail'[d]) :
                            /\ trail'[d][i].decision = "godkjent"
                            /\ trail'[d][i].by # booking[d].by
                            /\ booking[d].human => trail'[d][i].by \notin Machine
                      /\ Governing(d)'.decision = "avvist" => d \in crossed
    BY <1>1 DEF AttestedByAnother
  <2>1. PICK i \in 1..Len(trail[d]) :
              /\ trail[d][i].decision = "godkjent"
              /\ trail[d][i].by # booking[d].by
              /\ booking[d].human => trail[d][i].by \notin Machine
    BY DEF InboxInv, AttestedByAnother
  <2>2. CASE d # n
    BY <2>1, <2>2, <1>3 DEF InboxInv, AttestedByAnother, Governing
  <2>3. CASE d = n
    <3>1. i \in 1..Len(trail'[d]) /\ trail'[d][i] = trail[d][i]
      BY <2>3, <1>3, <1>5
    <3>2. d \in crossed
      BY <2>3, <1>0 DEF InboxInv, Attested, Overtaken
    <3> QED
      BY <2>1, <3>1, <3>2
  <2> QED
    BY <2>2, <2>3
<1> QED
  BY <1>4, <1>6, <1>7, <1>8 DEF InboxInv

\* A decision, booked or rejected, and what it does to attestations on their way.
LEMMA DecideKeeps ==
  ASSUME InboxInv, NEW d \in Document, NEW status \in {"bokfort", "avvist"},
         inbox[d].status = "ny", Decide(d, status),
         UNCHANGED << trail, policy, policies, sending, raced >>
  PROVE  /\ inbox' \in [Document -> {[status |-> "none"]} \cup Stored]
         /\ inbox'[d].status = status
         /\ \A e \in Document : e # d => inbox'[e] = inbox[e]
         /\ crossed \subseteq crossed' /\ crossed' \subseteq Document
         /\ Overtaken' /\ Racing' /\ TwinsOnlyIfContended'
<1> DEFINE R == [status |-> status, content |-> inbox[d].content]
<1>1. inbox[d] \in Stored /\ inbox \in [Document -> {[status |-> "none"]} \cup Stored]
  BY DEF InboxInv, TypeOKInbox
<1>2. R \in Stored /\ [inbox[d] EXCEPT !.status = status] = R
  BY <1>1 DEF Stored
<1>3. inbox' = [inbox EXCEPT ![d] = R]
  BY <1>2 DEF Decide
<1>4. /\ inbox' \in [Document -> {[status |-> "none"]} \cup Stored]
      /\ inbox'[d] = R
      /\ \A e \in Document : e # d => inbox'[e] = inbox[e]
  BY <1>1, <1>2, <1>3
<1>5. /\ crossed \subseteq crossed' /\ crossed' \subseteq Document
      /\ BeingAttested(d) => d \in crossed'
  BY DEF Decide, InboxInv, TypeOKInbox
<1>6. Overtaken'
  BY <1>4, <1>5, SendingShape DEF InboxInv, Overtaken, BeingAttested
<1>7. \A e \in Document : /\ inbox'[e].status = "none" <=> inbox[e].status = "none"
                          /\ inbox[e].status # "none" => inbox'[e].content = inbox[e].content
  BY <1>4
<1>8. Racing' /\ TwinsOnlyIfContended'
  BY <1>7 DEF InboxInv, Racing, TwinsOnlyIfContended
<1> QED
  BY <1>4, <1>5, <1>6, <1>8

\* A booking finds its attestation, and writes what it was asked for.
LEMMA BokforKeeps ==
  ASSUME InboxInv, NEW p \in Person, NEW d \in Document, NEW amount \in BookedAmount,
         Bokfor(p, d, amount)
  PROVE  InboxInv'
<1> DEFINE needs == NeedsAttestation(p, amount)
           human == policy.active /\ MachineRule(p)
<1>1. /\ inbox[d].status = "ny" /\ Decide(d, "bokfort")
      /\ needs => AttestationHolds(p, d)
      /\ booking' = [booking EXCEPT ![d] = [by |-> p, attested |-> needs, human |-> human]]
      /\ UNCHANGED << trail, policy, policies, sending, raced >>
  BY DEF Bokfor, BokforInboxDocument
<1>2. needs \in BOOLEAN /\ human \in BOOLEAN
  BY DEF NeedsAttestation, MachineRule
<1> HIDE DEF needs, human
<1>3. /\ booking' \in [Document -> [by : Person \cup {Nobody}, attested : BOOLEAN, human : BOOLEAN]]
      /\ booking'[d] = [by |-> p, attested |-> needs, human |-> human]
      /\ \A e \in Document : e # d => booking'[e] = booking[e]
  BY <1>1, <1>2 DEF InboxInv, TypeOKInbox
<1>4. /\ inbox' \in [Document -> {[status |-> "none"]} \cup Stored]
      /\ inbox'[d].status = "bokfort"
      /\ \A e \in Document : e # d => inbox'[e] = inbox[e]
      /\ crossed \subseteq crossed' /\ crossed' \subseteq Document
      /\ Overtaken' /\ Racing' /\ TwinsOnlyIfContended'
  BY <1>1, DecideKeeps
<1>5. TypeOKInbox'
  BY <1>1, <1>3, <1>4 DEF InboxInv, TypeOKInbox
<1>6. needs => /\ trail[d] # << >>
               /\ Governing(d).decision = "godkjent"
               /\ Governing(d).by # p
               /\ human => Governing(d).by \notin Machine
  BY <1>1 DEF AttestationHolds, human
<1>7. Attested'
  BY <1>1, <1>3, <1>4, <1>6 DEF InboxInv, Attested
<1>8. AttestedByAnother'
  <2> SUFFICES ASSUME NEW e \in Document, booking'[e].attested
               PROVE  /\ \E i \in 1..Len(trail[e]) :
                            /\ trail[e][i].decision = "godkjent"
                            /\ trail[e][i].by # booking'[e].by
                            /\ booking'[e].human => trail[e][i].by \notin Machine
                      /\ Governing(e).decision = "avvist" => e \in crossed'
    BY <1>1 DEF AttestedByAnother, Governing
  <2>1. CASE e # d
    BY <2>1, <1>3, <1>4 DEF InboxInv, AttestedByAnother
  <2>2. CASE e = d
    <3>1. needs
      BY <2>2, <1>3
    <3>2. trail[d] \in Seq([decision : Decision, by : Person])
      BY DEF InboxInv, TypeOKInbox
    <3>3. Len(trail[d]) \in 1..Len(trail[d])
      BY <3>1, <3>2, <1>6
    <3> QED
      BY <2>2, <3>1, <3>3, <1>3, <1>6 DEF Governing
  <2> QED
    BY <2>1, <2>2
<1> QED
  BY <1>4, <1>5, <1>7, <1>8 DEF InboxInv

LEMMA AvvisKeeps ==
  ASSUME InboxInv, NEW p \in Person, NEW d \in Document, Avvis(p, d)
  PROVE  InboxInv'
<1>1. /\ inbox[d].status = "ny" /\ Decide(d, "avvist")
      /\ UNCHANGED << booking, trail, policy, policies, sending, raced >>
  BY DEF Avvis, AvvisInboxDocument
<1>2. /\ inbox' \in [Document -> {[status |-> "none"]} \cup Stored]
      /\ \A e \in Document : e # d => inbox'[e] = inbox[e]
      /\ crossed \subseteq crossed' /\ crossed' \subseteq Document
      /\ Overtaken' /\ Racing' /\ TwinsOnlyIfContended'
  BY <1>1, DecideKeeps
<1>3. TypeOKInbox'
  BY <1>1, <1>2 DEF InboxInv, TypeOKInbox
<1>4. Attested' /\ AttestedByAnother'
  BY <1>1, <1>2 DEF InboxInv, Attested, AttestedByAnother, Governing
<1> QED
  BY <1>2, <1>3, <1>4 DEF InboxInv

LEMMA NextInboxInv == InboxInv /\ [NextInbox]_varsInbox => InboxInv'
<1> SUFFICES ASSUME InboxInv, [NextInbox]_varsInbox PROVE InboxInv'
  OBVIOUS
<1>1. CASE UNCHANGED varsInbox
  BY <1>1 DEF varsInbox, InboxInv, TypeOKInbox, Attested, Overtaken, Racing, AttestedByAnother,
              TwinsOnlyIfContended, Governing
<1> QED
  BY <1>1, UploadKeeps, InsertDocumentKeeps, PolicyKeeps, AttestKeeps, InsertAttestationKeeps,
     BokforKeeps, AvvisKeeps DEF NextInbox

LEMMA InboxInvariant == SpecInbox => []InboxInv
  BY InitInboxInv, NextInboxInv, PTL DEF SpecInbox

(***************************************************************************)
(* Nobody books on their own attestation, and no machine on a machine's,   *)
(* for any policy and any interleaving of the two statements of attesting  *)
(* with the booking (db/inbox.rs, db/approval.rs).                         *)
(***************************************************************************)
THEOREM BookedOnAnothersWord == SpecInbox => []AttestedByAnother
<1>1. InboxInv => AttestedByAnother
  BY DEF InboxInv
<1> QED
  BY InboxInvariant, <1>1, PTL

(***************************************************************************)
(* The read before the insert (db/inbox.rs) keeps two copies of a content  *)
(* apart wherever two uploads of it did not overlap, for any number of     *)
(* uploads.                                                                *)
(***************************************************************************)
THEOREM TwinsRaced == SpecInbox => []TwinsOnlyIfContended
<1>1. InboxInv => TwinsOnlyIfContended
  BY DEF InboxInv
<1> QED
  BY InboxInvariant, <1>1, PTL

-----------------------------------------------------------------------------
(***************************************************************************)
(* The mail that comes in.                                                 *)
(***************************************************************************)

MailInv == TypeOKMail /\ FiledOnce

LEMMA InitMailInv == InitMail => MailInv
<1> SUFFICES ASSUME InitMail PROVE MailInv
  OBVIOUS
<1>1. TypeOKMail
  BY EnvelopeAssumption DEF InitMail, TypeOKMail, Waiting, Resting
<1>2. FiledOnce
  BY DEF InitMail, FiledOnce
<1> QED
  BY <1>1, <1>2 DEF MailInv

\* A step that leaves the rows and the inbox alone.
LEMMA RowsStay ==
  ASSUME MailInv, UNCHANGED << mailRow, filed >>, TypeOKMail'
  PROVE  MailInv'
  BY DEF MailInv, FiledOnce

\* A row that gets a status it did not have before, filed as that status says.
LEMMA RowDecided ==
  ASSUME MailInv, NEW i \in MessageId, NEW R \in Received,
         mailRow[i].status # "mottatt",
         mailRow' = [mailRow EXCEPT ![i] = R],
         filed' = IF R.status = "mottatt" THEN [filed EXCEPT ![i] = @ + 1] ELSE filed
  PROVE  /\ mailRow' \in [MessageId -> {[status |-> "none"]} \cup Received]
         /\ filed' \in [MessageId -> Nat]
         /\ FiledOnce'
<1>1. /\ mailRow \in [MessageId -> {[status |-> "none"]} \cup Received]
      /\ filed \in [MessageId -> Nat]
      /\ filed[i] = 0
  BY DEF MailInv, TypeOKMail, FiledOnce
<1>2. /\ mailRow' \in [MessageId -> {[status |-> "none"]} \cup Received]
      /\ mailRow'[i] = R
      /\ \A j \in MessageId : j # i => mailRow'[j] = mailRow[j]
  BY <1>1
<1>3. /\ filed' \in [MessageId -> Nat]
      /\ filed'[i] = IF R.status = "mottatt" THEN 1 ELSE 0
      /\ \A j \in MessageId : j # i => filed'[j] = filed[j]
  BY <1>1
<1>4. FiledOnce'
  BY <1>2, <1>3 DEF MailInv, FiledOnce
<1> QED
  BY <1>2, <1>3, <1>4

\* What a delivery finds or leaves.
LEMMA ReceiveKeeps == ASSUME MailInv, ReceiveMail PROVE MailInv'
<1> DEFINE e == consumer.mail
<1>1. e \in Envelope /\ consumer.trusted \in BOOLEAN /\ e.id \in MessageId
  BY DEF ReceiveMail, MailInv, TypeOKMail, Waiting, MessageId
<1>2. consumer' \in [pc : {"routed", "done"}, mail : Envelope, trusted : BOOLEAN]
  BY DEF ReceiveMail, MailInv, TypeOKMail, Waiting
<1>3. /\ UNCHANGED << address, allowed, queued, deciding, unroutable, trouble >>
  BY DEF ReceiveMail
<1>4. CASE mailRow[e.id].status # "none"
  <2>1. UNCHANGED << mailRow, filed >>
    BY <1>4 DEF ReceiveMail
  <2> QED
    BY <1>2, <1>3, <2>1, RowsStay DEF MailInv, TypeOKMail
<1>5. CASE mailRow[e.id].status = "none"
  <2> DEFINE R == [status |-> MailStatus(e, consumer.trusted), mail |-> e]
  <2>1. R \in Received
    BY <1>1 DEF MailStatus, Received
  <2>2. /\ mailRow' = [mailRow EXCEPT ![e.id] = R]
        /\ filed' = IF R.status = "mottatt" THEN [filed EXCEPT ![e.id] = @ + 1] ELSE filed
    BY <1>5 DEF ReceiveMail
  <2>3. /\ mailRow' \in [MessageId -> {[status |-> "none"]} \cup Received]
        /\ filed' \in [MessageId -> Nat]
        /\ FiledOnce'
    BY <1>1, <1>5, <2>1, <2>2, RowDecided
  <2>4. TypeOKMail'
    BY <1>2, <1>3, <2>3 DEF MailInv, TypeOKMail
  <2> QED
    BY <2>3, <2>4 DEF MailInv
<1> QED
  BY <1>4, <1>5

\* A release, whether or not another decision came first.
LEMMA ReleaseKeeps == ASSUME MailInv, NEW p \in Person, ReleaseMail(p) PROVE MailInv'
<1> DEFINE r == deciding[p]
<1>1. r \in Releasing
  BY DEF ReleaseMail, MailInv, TypeOKMail, Resting, Rotating, Releasing, Trusting
<1>2. /\ r.id \in MessageId
      /\ UNCHANGED << address, allowed, queued, consumer, unroutable, trouble >>
  BY <1>1 DEF ReleaseMail, Releasing
<1>3. CASE MailGuard(r.id)
  <2> DEFINE R == [status |-> "mottatt", mail |-> mailRow[r.id].mail]
  <2>1. mailRow[r.id] \in Received /\ mailRow[r.id].status = "karantene"
    BY <1>2, <1>3 DEF MailGuard, MailInv, TypeOKMail
  <2>2. R \in Received /\ R.mail.from \in Sender
    BY <2>1 DEF Received, Sender
  <2>3. /\ mailRow' = [mailRow EXCEPT ![r.id] = R]
        /\ filed' = [filed EXCEPT ![r.id] = @ + 1]
    <3>1. mailRow' = [mailRow EXCEPT ![r.id].status = "mottatt"]
      BY <1>3 DEF ReleaseMail
    <3>2. [mailRow[r.id] EXCEPT !.status = "mottatt"] = R
      BY <2>1 DEF Received
    <3> QED
      BY <1>3, <3>1, <3>2 DEF ReleaseMail
  <2>4. /\ mailRow' \in [MessageId -> {[status |-> "none"]} \cup Received]
        /\ filed' \in [MessageId -> Nat]
        /\ FiledOnce'
    BY <1>2, <2>1, <2>2, <2>3, RowDecided
  <2>5. deciding' \in [Person -> {Resting} \cup Rotating \cup Releasing \cup Trusting]
    <3> DEFINE after == IF r.trust THEN [op |-> "trust", sender |-> mailRow[r.id].mail.from]
                                   ELSE Resting
    <3>1. after \in {Resting} \cup Trusting
      BY <2>2 DEF Trusting
    <3>2. deciding' = [deciding EXCEPT ![p] = after]
      BY <1>3 DEF ReleaseMail
    <3>3. deciding \in [Person -> {Resting} \cup Rotating \cup Releasing \cup Trusting]
      BY DEF MailInv, TypeOKMail
    <3> HIDE DEF after
    <3> QED
      BY <3>1, <3>2, <3>3
  <2>6. TypeOKMail'
    BY <1>2, <2>4, <2>5 DEF MailInv, TypeOKMail
  <2> QED
    BY <2>4, <2>6 DEF MailInv
<1>4. CASE ~ MailGuard(r.id)
  <2>1. UNCHANGED << mailRow, filed >> /\ deciding' = [deciding EXCEPT ![p] = Resting]
    BY <1>4 DEF ReleaseMail
  <2> QED
    BY <1>2, <2>1, RowsStay DEF MailInv, TypeOKMail
<1> QED
  BY <1>3, <1>4

LEMMA RejectKeeps == ASSUME MailInv, NEW p \in Person, NEW i \in MessageId, Reject(p, i) PROVE MailInv'
<1> DEFINE R == [status |-> "avvist", mail |-> mailRow[i].mail]
<1>1. /\ mailRow[i] \in Received /\ mailRow[i].status = "karantene"
      /\ mailRow' = [mailRow EXCEPT ![i].status = "avvist"]
      /\ UNCHANGED << address, allowed, queued, filed, consumer, deciding, unroutable, trouble >>
  BY DEF Reject, RejectMail, MailInv, TypeOKMail
<1>2. R \in Received /\ [mailRow[i] EXCEPT !.status = "avvist"] = R
  BY <1>1 DEF Received
<1>3. mailRow' = [mailRow EXCEPT ![i] = R] /\ R.status # "mottatt"
  BY <1>1, <1>2
<1>4. /\ mailRow' \in [MessageId -> {[status |-> "none"]} \cup Received]
      /\ filed' \in [MessageId -> Nat]
      /\ FiledOnce'
  BY <1>1, <1>2, <1>3, RowDecided
<1>5. TypeOKMail'
  BY <1>1, <1>4 DEF MailInv, TypeOKMail
<1> QED
  BY <1>4, <1>5 DEF MailInv

\* The settings of the company: the address and the list of senders.
LEMMA SettingsKeep ==
  ASSUME MailInv, NEW p \in Person,
         \/ StartRotate(p) \/ TrustSender(p)
         \/ \E a \in MailAddress : RotateMailAddress(p, a)
         \/ \E s \in AllowedSender : AddSender(p, s) \/ RevokeSender(p, s)
         \/ \E i \in MessageId, trust \in BOOLEAN : Release(p, i, trust)
  PROVE  MailInv'
<1>1. CASE StartRotate(p)
  BY <1>1, RowsStay DEF StartRotate, MailInv, TypeOKMail, Rotating, Active
<1>2. CASE TrustSender(p)
  <2>1. deciding[p].sender \in Sender
    BY <1>2 DEF TrustSender, MailInv, TypeOKMail, Resting, Rotating, Releasing, Trusting
  <2>2. allowed' \subseteq AllowedSender
    BY <1>2, <2>1 DEF TrustSender, AllowSender, AllowedSender, MailInv, TypeOKMail
  <2> QED
    BY <1>2, <2>2, RowsStay DEF TrustSender, MailInv, TypeOKMail
<1>3. ASSUME NEW a \in MailAddress, RotateMailAddress(p, a) PROVE MailInv'
  BY <1>3, RowsStay DEF RotateMailAddress, MailInv, TypeOKMail
<1>4. ASSUME NEW s \in AllowedSender, AddSender(p, s) \/ RevokeSender(p, s) PROVE MailInv'
  BY <1>4, RowsStay DEF AddSender, RevokeSender, AllowSender, MailInv, TypeOKMail
<1>5. ASSUME NEW i \in MessageId, NEW trust \in BOOLEAN, Release(p, i, trust) PROVE MailInv'
  BY <1>5, RowsStay DEF Release, StartRelease, MailInv, TypeOKMail, Releasing
<1> QED
  BY <1>1, <1>2, <1>3, <1>4, <1>5

\* The consumer and its queue, whatever is delivered again.
LEMMA ConsumerKeeps ==
  ASSUME MailInv,
         \/ \E e \in Envelope : MailArrives(e) \/ RouteMail(e)
         \/ ReceiveFails \/ AckMail \/ ConsumerCrash
  PROVE  MailInv'
<1>1. ASSUME NEW e \in Envelope, MailArrives(e) PROVE MailInv'
  BY <1>1, RowsStay DEF MailArrives, MailInv, TypeOKMail
<1>2. ASSUME NEW e \in Envelope, RouteMail(e) PROVE MailInv'
  <2>1. /\ consumer' \in [pc : {"routed", "done"}, mail : Envelope, trusted : BOOLEAN]
        /\ unroutable' \subseteq Envelope
    <3>1. PICK trusted \in BOOLEAN, pc \in {"routed", "done"} :
             consumer' = [pc |-> pc, mail |-> e, trusted |-> trusted]
      BY <1>2 DEF RouteMail, SenderAllowed
    <3> QED
      BY <1>2, <3>1 DEF RouteMail, MailInv, TypeOKMail
  <2> QED
    BY <1>2, <2>1, RowsStay DEF RouteMail, MailInv, TypeOKMail
<1>3. CASE ReceiveFails
  <2>1. consumer' \in [pc : {"routed", "done"}, mail : Envelope, trusted : BOOLEAN]
    BY <1>3 DEF ReceiveFails, MailInv, TypeOKMail, Waiting
  <2>2. trouble' \in 0..MaxMailTrouble
    BY <1>3, EnvelopeAssumption DEF ReceiveFails, MailInv, TypeOKMail
  <2> QED
    BY <1>3, <2>1, <2>2, RowsStay DEF ReceiveFails, MailInv, TypeOKMail
<1>4. CASE AckMail
  BY <1>4, RowsStay DEF AckMail, MailInv, TypeOKMail
<1>5. CASE ConsumerCrash
  <2>1. trouble' \in 0..MaxMailTrouble
    BY <1>5, EnvelopeAssumption DEF ConsumerCrash, MailInv, TypeOKMail
  <2> QED
    BY <1>5, <2>1, RowsStay DEF ConsumerCrash, MailInv, TypeOKMail
<1> QED
  BY <1>1, <1>2, <1>3, <1>4, <1>5

LEMMA NextMailInv == MailInv /\ [NextMail]_varsMail => MailInv'
<1> SUFFICES ASSUME MailInv, [NextMail]_varsMail PROVE MailInv'
  OBVIOUS
<1>1. ASSUME NEW p \in Person, ReleaseMail(p) PROVE MailInv'
  BY <1>1, ReleaseKeeps
<1>2. ASSUME NEW p \in Person, NEW i \in MessageId, Reject(p, i) PROVE MailInv'
  BY <1>2, RejectKeeps
<1>3. CASE ReceiveMail
  BY <1>3, ReceiveKeeps
<1>4. CASE UNCHANGED varsMail
  BY <1>4 DEF varsMail, MailInv, TypeOKMail, FiledOnce
<1> QED
  BY <1>1, <1>2, <1>3, <1>4, SettingsKeep, ConsumerKeeps DEF NextMail

(***************************************************************************)
(* What a mail brought is in the inbox once if it was let through and not  *)
(* at all otherwise, for any number of deliveries of it and of people who  *)
(* decide it at once: receive_mail by its message id, release_mail by the  *)
(* trigger inbox_mail_guard (db/email.rs, 0032).                           *)
(***************************************************************************)
THEOREM MailFiledOnce == SpecMail => []FiledOnce
<1>1. MailInv => FiledOnce
  BY DEF MailInv
<1> QED
  BY InitMailInv, NextMailInv, <1>1, PTL DEF SpecMail


-----------------------------------------------------------------------------
(***************************************************************************)
(* The mail that goes out.                                                 *)
(***************************************************************************)

\* Between the answer of the stream and the row of the log, the message is on the stream
\* under the id the row will have.
Accepted ==
    /\ \A p \in Person : publishing[p].pc # "idle" => publishing[p].subject \in Subject
    /\ \A p \in Person : publishing[p].pc \in DispatchId
                            => outbox[publishing[p].pc] = publishing[p].subject

\* What a person was told was sent is something that can be sent.
ToldOfSubject == \A p \in Person : reported[p].sent => reported[p].subject \in Subject

DispatchInv == TypeOKDispatch /\ Accepted /\ ToldOfSubject /\ LoggedIsSent

LEMMA InitDispatchInv == InitDispatch => DispatchInv
  BY DispatchAssumption
  DEF InitDispatch, DispatchInv, TypeOKDispatch, Accepted, ToldOfSubject, LoggedIsSent, NotSending

\* A request that begins.
LEMMA StartKeeps ==
  ASSUME DispatchInv, NEW p \in Person, NEW s \in Subject, NEW right, StartSend(p, s, right)
  PROVE  DispatchInv'
<1>1. publishing'[p] = [pc |-> "publish", subject |-> s]
      /\ \A q \in Person : q # p => publishing'[q] = publishing[q]
  BY DEF StartSend, DispatchInv, TypeOKDispatch
<1>2. TypeOKDispatch'
  BY DEF StartSend, DispatchInv, TypeOKDispatch
<1>3. Accepted'
  BY <1>1, DispatchAssumption DEF StartSend, DispatchInv, Accepted
<1>4. ToldOfSubject' /\ LoggedIsSent'
  BY DEF StartSend, DispatchInv, ToldOfSubject, LoggedIsSent
<1> QED
  BY <1>2, <1>3, <1>4 DEF DispatchInv

\* An id that is drawn is one nobody holds and no row has.
LEMMA PublishKeeps ==
  ASSUME DispatchInv, NEW p \in Person, NEW d \in DispatchId, Publish(p, d)
  PROVE  DispatchInv'
<1> DEFINE s == publishing[p].subject
<1>1. s \in Subject /\ s # NoSubject /\ outbox[d] = NoSubject
  BY DispatchAssumption DEF Publish, DispatchInv, Accepted
<1>2. /\ \A q \in Person : publishing[q].pc # d
      /\ utsendelse[d] = NoSubject
  BY <1>1, DispatchAssumption DEF DispatchInv, Accepted, LoggedIsSent, TypeOKDispatch
<1>3. /\ outbox' \in [DispatchId -> Subject \cup {NoSubject}]
      /\ \A c \in DispatchId : c # d => outbox'[c] = outbox[c]
      /\ utsendelse' = utsendelse /\ openInvitation' = openInvitation
  BY <1>1 DEF Publish, DispatchInv, TypeOKDispatch
<1>4. CASE /\ outbox' = [outbox EXCEPT ![d] = s]
           /\ publishing' = [publishing EXCEPT ![p] = [@ EXCEPT !.pc = d]]
           /\ UNCHANGED reported
  <2>1. /\ publishing'[p] = [pc |-> d, subject |-> s] /\ outbox'[d] = s
        /\ \A q \in Person : q # p => publishing'[q] = publishing[q]
        /\ publishing' \in [Person -> [pc : {"idle", "publish"} \cup DispatchId,
                                       subject : Subject \cup {NoSubject}]]
    BY <1>4, <1>1 DEF DispatchInv, TypeOKDispatch
  <2>2. Accepted'
    BY <1>1, <1>2, <1>3, <2>1 DEF DispatchInv, Accepted
  <2>3. TypeOKDispatch'
    BY <1>3, <1>4, <2>1 DEF DispatchInv, TypeOKDispatch
  <2>4. ToldOfSubject' /\ LoggedIsSent'
    BY <1>2, <1>3, <1>4 DEF DispatchInv, ToldOfSubject, LoggedIsSent
  <2> QED
    BY <2>2, <2>3, <2>4 DEF DispatchInv
<1>5. CASE /\ publishing' = [publishing EXCEPT ![p] = NotSending]
           /\ Told(p, s, FALSE)
  <2>1. /\ publishing'[p] = NotSending
        /\ \A q \in Person : q # p => publishing'[q] = publishing[q]
        /\ publishing' \in [Person -> [pc : {"idle", "publish"} \cup DispatchId,
                                       subject : Subject \cup {NoSubject}]]
    BY <1>5 DEF DispatchInv, TypeOKDispatch, NotSending
  <2>2. /\ reported' \in [Person -> [subject : Subject \cup {NoSubject}, sent : BOOLEAN]]
        /\ reported'[p].sent = FALSE
        /\ \A q \in Person : q # p => reported'[q] = reported[q]
    BY <1>5, <1>1 DEF DispatchInv, TypeOKDispatch, Told
  <2>3. Accepted'
    BY <1>2, <1>3, <2>1, DispatchAssumption DEF DispatchInv, Accepted, NotSending
  <2>4. TypeOKDispatch'
    BY <1>3, <2>1, <2>2 DEF DispatchInv, TypeOKDispatch
  <2>5. ToldOfSubject' /\ LoggedIsSent'
    BY <1>2, <1>3, <2>2 DEF DispatchInv, ToldOfSubject, LoggedIsSent
  <2> QED
    BY <2>3, <2>4, <2>5 DEF DispatchInv
<1> QED
  BY <1>4, <1>5 DEF Publish

\* The row goes in under the id whose message is on the stream.
LEMMA LogKeeps ==
  ASSUME DispatchInv, NEW p \in Person, LogDispatch(p)
  PROVE  DispatchInv'
<1> DEFINE s == publishing[p].subject
           d == publishing[p].pc
<1>1. d \in DispatchId /\ d # "idle" /\ s \in Subject /\ s # NoSubject /\ outbox[d] = s
  BY DispatchAssumption DEF LogDispatch, DispatchInv, Accepted
<1>2. /\ publishing' = [publishing EXCEPT ![p] = NotSending]
      /\ outbox' = outbox /\ openInvitation' = openInvitation
      /\ \/ utsendelse' = [utsendelse EXCEPT ![d] = s] /\ Told(p, s, TRUE)
         \/ utsendelse' = utsendelse /\ Told(p, s, FALSE)
  BY DEF LogDispatch
<1>3. /\ publishing'[p] = NotSending
      /\ \A q \in Person : q # p => publishing'[q] = publishing[q]
      /\ publishing' \in [Person -> [pc : {"idle", "publish"} \cup DispatchId,
                                     subject : Subject \cup {NoSubject}]]
  BY <1>2 DEF DispatchInv, TypeOKDispatch, NotSending
<1>4. /\ reported' \in [Person -> [subject : Subject \cup {NoSubject}, sent : BOOLEAN]]
      /\ reported'[p].subject = s
      /\ \A q \in Person : q # p => reported'[q] = reported[q]
  <2>1. PICK b \in BOOLEAN : reported' = [reported EXCEPT ![p] = [subject |-> s, sent |-> b]]
    BY <1>2 DEF Told
  <2> QED
    BY <1>1, <2>1 DEF DispatchInv, TypeOKDispatch
<1>5. Accepted'
  BY <1>2, <1>3, DispatchAssumption DEF DispatchInv, Accepted, NotSending
<1>6. ToldOfSubject'
  BY <1>1, <1>4 DEF DispatchInv, ToldOfSubject
\* A row that is there already stays as it is.
<1>7. \A c \in DispatchId : utsendelse[c] # NoSubject => utsendelse'[c] = utsendelse[c]
  BY <1>1, <1>2 DEF DispatchInv, TypeOKDispatch, LoggedIsSent
<1>8. CASE utsendelse' = [utsendelse EXCEPT ![d] = s] /\ Told(p, s, TRUE)
  <2>1. utsendelse'[d] = s /\ \A c \in DispatchId : c # d => utsendelse'[c] = utsendelse[c]
    BY <1>1, <1>8 DEF DispatchInv, TypeOKDispatch
  <2>2. \A c \in DispatchId : utsendelse'[c] # NoSubject => outbox'[c] = utsendelse'[c]
    BY <1>1, <1>2, <2>1 DEF DispatchInv, LoggedIsSent
  <2>3. ASSUME NEW q \in Person, reported'[q].sent
        PROVE  \E c \in DispatchId : utsendelse'[c] = reported'[q].subject
    <3>1. CASE q = p
      BY <3>1, <1>1, <1>4, <2>1
    <3>2. CASE q # p
      <4>1. PICK c \in DispatchId : utsendelse[c] = reported[q].subject
        BY <2>3, <3>2, <1>4 DEF DispatchInv, LoggedIsSent
      <4>2. utsendelse[c] # NoSubject
        BY <2>3, <3>2, <4>1, <1>4, DispatchAssumption DEF DispatchInv, ToldOfSubject
      <4> QED
        BY <4>1, <4>2, <3>2, <1>4, <1>7
    <3> QED
      BY <3>1, <3>2
  <2>4. TypeOKDispatch'
    BY <1>1, <1>2, <1>3, <1>4, <1>8 DEF DispatchInv, TypeOKDispatch
  <2> QED
    BY <1>5, <1>6, <2>2, <2>3, <2>4 DEF DispatchInv, LoggedIsSent
<1>9. CASE utsendelse' = utsendelse /\ Told(p, s, FALSE)
  <2>1. reported'[p].sent = FALSE
    BY <1>9 DEF DispatchInv, TypeOKDispatch, Told
  <2>2. LoggedIsSent'
    BY <1>2, <1>4, <1>9, <2>1 DEF DispatchInv, LoggedIsSent
  <2>3. TypeOKDispatch'
    BY <1>2, <1>3, <1>4, <1>9 DEF DispatchInv, TypeOKDispatch
  <2> QED
    BY <1>5, <1>6, <2>2, <2>3 DEF DispatchInv
<1> QED
  BY <1>2, <1>8, <1>9

LEMMA NextDispatchInv == DispatchInv /\ [NextDispatch]_varsDispatch => DispatchInv'
<1> SUFFICES ASSUME DispatchInv, [NextDispatch]_varsDispatch PROVE DispatchInv'
  OBVIOUS
<1>1. ASSUME NEW p \in Person, NEW s \in Subject, SendDocument(p, s) \/ SendInvitation(p, s)
      PROVE  DispatchInv'
  BY <1>1, StartKeeps DEF SendDocument, SendInvitation
<1>2. ASSUME NEW p \in Person, NEW d \in DispatchId, Publish(p, d) PROVE DispatchInv'
  BY <1>2, PublishKeeps
<1>3. ASSUME NEW p \in Person, LogDispatch(p) PROVE DispatchInv'
  BY <1>3, LogKeeps
<1>4. ASSUME NEW s \in Invitation, AnswerInvitation(s) PROVE DispatchInv'
  BY <1>4 DEF AnswerInvitation, DispatchInv, TypeOKDispatch, Accepted, ToldOfSubject, LoggedIsSent
<1>5. CASE UNCHANGED varsDispatch
  BY <1>5 DEF varsDispatch, DispatchInv, TypeOKDispatch, Accepted, ToldOfSubject, LoggedIsSent
<1> QED
  BY <1>1, <1>2, <1>3, <1>4, <1>5 DEF NextDispatch

(***************************************************************************)
(* Every row of the log has its message on the stream, and everybody who   *)
(* was told that a mail was sent finds its row: api/dispatch.rs publishes, *)
(* waits for the acknowledgement, and only then inserts.                   *)
(***************************************************************************)
THEOREM LogNeverClaims == SpecDispatch => []LoggedIsSent
<1>1. DispatchInv => LoggedIsSent
  BY DEF DispatchInv
<1> QED
  BY InitDispatchInv, NextDispatchInv, <1>1, PTL DEF SpecDispatch

-----------------------------------------------------------------------------
(***************************************************************************)
(* Expenses.  The amounts of a set of claims are a sum over a finite set:  *)
(* a claim that is approved or paid enters one sum or leaves it, and the   *)
(* books are moved by what the claim comes to.                             *)
(***************************************************************************)

\* What each row of r comes to.
AmountsOf(r) == [c \in Claim |-> r[c].amount]

\* The sum over claims of module Expenses is a sum of module FiniteSums.
LEMMA ClaimsSummed ==
  ASSUME NEW r, NEW S \in SUBSET Claim, IsFiniteSet(S)
  PROVE  MapThenSumSet(LAMBDA c : r[c].amount, S) = SumOver(AmountsOf(r), S)
<1> DEFINE sum(f) == f = [s \in SUBSET S |-> IF s = {} THEN 0 ELSE r[Pick(s)].amount + f[s \ {Pick(s)}]]
<1>1. ASSUME NEW s \in SUBSET S, s # {} PROVE AmountsOf(r)[Pick(s)] = r[Pick(s)].amount
  BY <1>1, PickIn DEF AmountsOf
<1>2. ASSUME NEW f PROVE sum(f) <=> Sums(f, AmountsOf(r), S)
  BY <1>1 DEF Sums
<1>3. MapThenSumSet(LAMBDA c : r[c].amount, S) = (CHOOSE f : sum(f))[S]
  BY DEF MapThenSumSet, MapThenFoldSet, Pick
<1>4. sum(CHOOSE f : sum(f))
  BY <1>2, SumsExist
<1> QED
  BY <1>2, <1>3, <1>4, SumsGiveTotal

\* The lines of a voucher, summed as a function of their positions.
LEMMA LinesSummed ==
  ASSUME NEW q, IsFiniteSet(DOMAIN q)
  PROVE  Total(q) = SumOver(q, DOMAIN q)
<1> DEFINE S == DOMAIN q
           sum(f) == f = [s \in SUBSET S |-> IF s = {} THEN 0 ELSE q[Pick(s)] + f[s \ {Pick(s)}]]
<1>1. ASSUME NEW f PROVE sum(f) <=> Sums(f, q, S)
  BY DEF Sums
<1>2. Total(q) = (CHOOSE f : sum(f))[S]
  BY DEF Total, FoldSeq, FoldFunction, FoldFunctionOnSet, MapThenFoldSet, Pick
<1>3. sum(CHOOSE f : sum(f))
  BY <1>1, SumsExist
<1> QED
  BY <1>1, <1>2, <1>3, SumsGiveTotal

\* Rounding gives a whole number.
LEMMA RoundedIsWhole ==
  ASSUME NEW n \in Int, NEW d \in Nat \ {0}
  PROVE  RoundDiv(n, d) \in Int
<1>1. Magnitude(n) \in Nat /\ d \div 2 \in Nat
  BY DEF Magnitude
<1>2. (Magnitude(n) + d \div 2) \div d \in Int
  BY <1>1
<1>3. Signum(n) \in {-1, 0, 1}
  BY DEF Signum
<1> DEFINE m == (Magnitude(n) + d \div 2) \div d
<1> HIDE DEF m
<1> QED
  BY <1>2, <1>3 DEF RoundDiv, m

\* Base and VAT of a gross amount come to the gross amount.
LEMMA SplitComesTo ==
  ASSUME NEW gross \in Int, NEW rate \in Nat
  PROVE  /\ SplitGross(gross, rate).base \in Int
         /\ SplitGross(gross, rate).vat \in Int
         /\ SplitGross(gross, rate).base + SplitGross(gross, rate).vat = gross
<1>1. BaseOfGross(gross, rate) \in Int
  BY RoundedIsWhole DEF BaseOfGross, BasisPoints
<1> QED
  BY <1>1 DEF SplitGross

\* The cost lines of a claim come to what is claimed.
LEMMA CostsComeTo ==
  ASSUME NEW c, claim[c].amount \in Int, NEW vat \in Nat
  PROVE  Total(CostLines(c, vat)) = claim[c].amount
<1> DEFINE a == claim[c].amount
           s == SplitGross(a, vat)
<1>1. ASSUME NEW q, q = << a >> PROVE Total(q) = a
  <2>1. DOMAIN q = {1} /\ q[1] = a
    BY <1>1
  <2>2. IsFiniteSet({1}) /\ a \in Int
    BY FS_Singleton
  <2>3. SumOver(q, {1}) = q[1]
    BY <2>1, <2>2, TotalOfOne
  <2> QED
    BY <2>1, <2>2, <2>3, LinesSummed
<1>2. ASSUME NEW q, q = << s.base, s.vat >> PROVE Total(q) = a
  <2>1. s.base \in Int /\ s.vat \in Int /\ s.base + s.vat = a
    BY SplitComesTo
  <2>2. DOMAIN q = {1} \cup {2} /\ q[1] = s.base /\ q[2] = s.vat
    BY <1>2
  <2>3. IsFiniteSet({1}) /\ IsFiniteSet({1} \cup {2})
    BY FS_Singleton, FS_Union
  <2>4. Numbers(q, {1} \cup {2})
    BY <2>1, <2>2 DEF Numbers
  <2>5. SumOver(q, {1}) = q[1]
    BY <2>1, <2>2, <2>3, TotalOfOne
  <2>6. SumOver(q, {1} \cup {2}) = SumOver(q, {1}) + q[2]
    BY <2>3, <2>4, TotalAdds
  <2>7. Total(q) = SumOver(q, DOMAIN q)
    BY <2>2, <2>3, LinesSummed
  <2> QED
    BY <2>1, <2>2, <2>5, <2>6, <2>7
<1> QED
  BY <1>1, <1>2 DEF CostLines

\* The claims that are approved, those that are paid, and those a contra account owes.
Approved(r) == {c \in Claim : r[c].status \in {"godkjent", "utbetalt"}}
Paid(r) == {c \in Claim : r[c].status \in {"utbetalt"}}
OwedOn(r, k) == {c \in {d \in Claim : r[d].status \in {"godkjent"}} : r[c].contra = k}

Claimed == {c \in Claim : claim[c] # NoClaim}

\* The books, as sums over those claims.
Booked ==
    /\ \A k \in ContraAccount : owed[k] = -SumOver(AmountsOf(claim), OwedOn(claim, k))
    /\ costs = SumOver(AmountsOf(claim), Approved(claim))
    /\ bank = -SumOver(AmountsOf(claim), Paid(claim))

ExpensesInv == TypeOKExpenses /\ IsFiniteSet(Claimed) /\ Booked

\* Only claims that were made are in any of the sums, each with its amount.
LEMMA SummedClaims ==
  ASSUME TypeOKExpenses, IsFiniteSet(Claimed)
  PROVE  /\ Approved(claim) \subseteq Claimed /\ Paid(claim) \subseteq Approved(claim)
         /\ \A k : OwedOn(claim, k) \subseteq Approved(claim)
         /\ IsFiniteSet(Approved(claim)) /\ IsFiniteSet(Paid(claim))
         /\ \A k : IsFiniteSet(OwedOn(claim, k))
         /\ \A c \in Claimed : claim[c] \in ClaimRow /\ AmountsOf(claim)[c] = claim[c].amount
<1>1. \A c \in Claimed : claim[c] \in ClaimRow /\ AmountsOf(claim)[c] = claim[c].amount
  BY DEF TypeOKExpenses, Claimed, AmountsOf
<1>2. /\ Approved(claim) \subseteq Claimed /\ Paid(claim) \subseteq Approved(claim)
      /\ \A k : OwedOn(claim, k) \subseteq Approved(claim)
  BY DEF Approved, Paid, OwedOn, Claimed, NoClaim
<1> QED
  BY <1>1, <1>2, FS_Subset

\* The books agree with the claims exactly if they agree with these sums.
LEMMA BooksSummed ==
  ASSUME TypeOKExpenses, IsFiniteSet(Claimed)
  PROVE  Booked <=> ClaimsAreInTheBooks
<1>1. \A S \in SUBSET Claim : IsFiniteSet(S) => Amounts(S) = SumOver(AmountsOf(claim), S)
  BY ClaimsSummed DEF Amounts
<1>2. /\ IsFiniteSet(Approved(claim)) /\ IsFiniteSet(Paid(claim))
      /\ \A k : IsFiniteSet(OwedOn(claim, k))
  BY SummedClaims
<1>3. /\ Approved(claim) = ClaimsIn({"godkjent", "utbetalt"})
      /\ Paid(claim) = ClaimsIn({"utbetalt"})
      /\ \A k : OwedOn(claim, k) = {c \in ClaimsIn({"godkjent"}) : claim[c].contra = k}
  BY DEF Approved, Paid, OwedOn, ClaimsIn
<1>4. /\ Approved(claim) \in SUBSET Claim /\ Paid(claim) \in SUBSET Claim
      /\ \A k : OwedOn(claim, k) \in SUBSET Claim
  BY DEF Approved, Paid, OwedOn
<1>5. /\ Amounts(Approved(claim)) = SumOver(AmountsOf(claim), Approved(claim))
      /\ Amounts(Paid(claim)) = SumOver(AmountsOf(claim), Paid(claim))
      /\ \A k : Amounts(OwedOn(claim, k)) = SumOver(AmountsOf(claim), OwedOn(claim, k))
  BY <1>1, <1>2, <1>4
<1> QED
  BY <1>3, <1>5 DEF Booked, ClaimsAreInTheBooks

LEMMA InitExpensesInv == InitExpenses => ExpensesInv
<1> SUFFICES ASSUME InitExpenses PROVE ExpensesInv
  OBVIOUS
<1>1. TypeOKExpenses
  <2>1. claim \in [Claim -> {NoClaim} \cup ClaimRow]
    BY DEF InitExpenses
  <2>2. owed \in [ContraAccount -> Int] /\ costs \in Int /\ bank \in Int
    BY DEF InitExpenses
  <2>4. strict \in BOOLEAN
    BY DEF InitExpenses
  <2>3. stricts \in 0..MaxStrict
    BY ExpensesAssumption DEF InitExpenses
  <2> QED
    BY <2>1, <2>2, <2>3, <2>4 DEF TypeOKExpenses
<1>2. Claimed = {} /\ IsFiniteSet({})
  BY FS_EmptySet DEF Claimed, InitExpenses
<1>3. Approved(claim) = {} /\ Paid(claim) = {} /\ \A k : OwedOn(claim, k) = {}
  BY DEF InitExpenses, NoClaim, Approved, Paid, OwedOn
<1>4. SumOver(AmountsOf(claim), {}) = 0
  BY EmptyTotal
<1> QED
  BY <1>1, <1>2, <1>3, <1>4 DEF ExpensesInv, Booked, InitExpenses

\* A step that leaves the rows of a set of claims alone leaves their sum alone.
LEMMA SumStays ==
  ASSUME NEW r, NEW s, NEW S \in SUBSET Claim, IsFiniteSet(S), \A c \in S : r[c].amount = s[c].amount
  PROVE  SumOver(AmountsOf(s), S) = SumOver(AmountsOf(r), S)
<1>1. Alike(AmountsOf(s), AmountsOf(r), S)
  BY DEF Alike, AmountsOf
<1> QED
  BY <1>1, TotalSame

\* A claim that enters a sum adds what it comes to.
LEMMA SumTakes ==
  ASSUME NEW r, NEW s, NEW S \in SUBSET Claim, IsFiniteSet(S), NEW c \in Claim, c \notin S,
         \A d \in S : r[d].amount = s[d].amount /\ r[d].amount \in Int, s[c].amount \in Int
  PROVE  SumOver(AmountsOf(s), S \cup {c}) = SumOver(AmountsOf(r), S) + s[c].amount
<1>1. Numbers(AmountsOf(s), S \cup {c})
  BY DEF Numbers, AmountsOf
<1>2. SumOver(AmountsOf(s), S \cup {c}) = SumOver(AmountsOf(s), S) + AmountsOf(s)[c]
  BY <1>1, TotalAdds
<1> QED
  BY <1>2, SumStays DEF AmountsOf

\* A step before which a claim is neither approved nor paid, and after which it is not either.
LEMMA BooksStay ==
  ASSUME ExpensesInv, NEW c \in Claim, NEW row \in ClaimRow,
         claim[c].status \in {"none", "innsendt"}, row.status \in {"innsendt", "avvist"},
         claim' = [claim EXCEPT ![c] = row], UNCHANGED << owed, costs, bank, strict, stricts >>
  PROVE  ExpensesInv'
<1>1. TypeOKExpenses /\ IsFiniteSet(Claimed) /\ Booked
  BY DEF ExpensesInv
<1>2. TypeOKExpenses'
  BY <1>1 DEF TypeOKExpenses
<1>3. IsFiniteSet(Claimed')
  <2>1. Claimed' \subseteq Claimed \cup {c}
    BY <1>1 DEF Claimed, TypeOKExpenses
  <2> QED
    BY <1>1, <2>1, OneMore
<1>4. claim \in [Claim -> {NoClaim} \cup ClaimRow]
  BY <1>1 DEF TypeOKExpenses
<1>5. /\ Approved(claim') = Approved(claim) /\ Paid(claim') = Paid(claim)
      /\ \A k : OwedOn(claim', k) = OwedOn(claim, k)
      /\ c \notin Approved(claim)
  BY <1>4 DEF Approved, Paid, OwedOn
<1>6. \A d \in Approved(claim) : claim[d].amount = claim'[d].amount
  BY <1>4, <1>5 DEF Approved
<1>7. /\ Paid(claim) \subseteq Approved(claim) /\ \A k : OwedOn(claim, k) \subseteq Approved(claim)
      /\ IsFiniteSet(Approved(claim)) /\ IsFiniteSet(Paid(claim))
      /\ \A k : IsFiniteSet(OwedOn(claim, k))
      /\ Approved(claim) \in SUBSET Claim
  BY <1>1, SummedClaims DEF Approved
<1>8. \A S \in SUBSET Approved(claim) : IsFiniteSet(S) =>
          SumOver(AmountsOf(claim'), S) = SumOver(AmountsOf(claim), S)
  <2> SUFFICES ASSUME NEW S \in SUBSET Approved(claim), IsFiniteSet(S)
               PROVE  SumOver(AmountsOf(claim'), S) = SumOver(AmountsOf(claim), S)
    OBVIOUS
  <2>1. S \in SUBSET Claim /\ \A d \in S : claim[d].amount = claim'[d].amount
    BY <1>6, <1>7
  <2> QED
    BY <2>1, SumStays, ZenonT(60)
<1>9. Booked'
  <2>1. /\ SumOver(AmountsOf(claim'), Approved(claim)) = SumOver(AmountsOf(claim), Approved(claim))
        /\ SumOver(AmountsOf(claim'), Paid(claim)) = SumOver(AmountsOf(claim), Paid(claim))
        /\ \A k : SumOver(AmountsOf(claim'), OwedOn(claim, k)) = SumOver(AmountsOf(claim), OwedOn(claim, k))
    BY <1>7, <1>8
  <2> QED
    BY <1>1, <1>5, <2>1 DEF Booked
<1> QED
  BY <1>2, <1>3, <1>9 DEF ExpensesInv

\* What a claim was made for is a whole number.
LEMMA SubmitKeeps ==
  ASSUME ExpensesInv, NEW c \in Claim, NEW p \in Person, NEW kind \in {"utlegg", "kjoring"},
         NEW amount \in Int, Submit(c, p, kind, amount),
         UNCHANGED << owed, costs, bank, strict, stricts >>
  PROVE  ExpensesInv'
<1> DEFINE row == [status |-> "innsendt", by |-> p, kind |-> kind,
                   amount |-> amount, contra |-> NoContra, approver |-> Nobody]
<1>1. amount \in Nat
  BY DEF Submit
<1>2. row \in ClaimRow /\ row.status = "innsendt"
  BY <1>1 DEF ClaimRow
<1>3. claim[c].status = "none" /\ claim' = [claim EXCEPT ![c] = row]
  BY DEF Submit, NoClaim
<1> HIDE DEF row
<1> QED
  BY <1>2, <1>3, BooksStay

LEMMA MileageKeeps ==
  ASSUME ExpensesInv, NEW p \in Person, NEW c \in Claim, NEW km \in Kilometres, NEW day \in ClaimDay,
         CreateExpenseRun(p, c, km, day)
  PROVE  ExpensesInv'
<1> DEFINE rate == RateOn(KmRates, day)
           free == RateOn(TaxFreeKmRates, day)
<1>1. rate \in Int /\ km \in Int
  BY ExpensesAssumption DEF CreateExpenseRun, HasRate, RateOn, InForce
<1>2. MileageAllowance(km, rate, free).amount = km * rate
  BY DEF MileageAllowance
<1>3. Submit(c, p, "kjoring", km * rate)
  BY <1>2 DEF CreateExpenseRun
<1>4. km * rate \in Int
  BY <1>1
<1>5. UNCHANGED << owed, costs, bank, strict, stricts >>
  BY DEF CreateExpenseRun
<1> HIDE DEF rate
<1> QED
  BY <1>3, <1>4, <1>5, SubmitKeeps

LEMMA RejectClaimKeeps ==
  ASSUME ExpensesInv, NEW c \in Claim, RejectExpense(c), UNCHANGED << owed, costs, bank, strict, stricts >>
  PROVE  ExpensesInv'
<1> DEFINE row == [claim[c] EXCEPT !.status = "avvist"]
<1>1. claim \in [Claim -> {NoClaim} \cup ClaimRow] /\ claim[c].status = "innsendt"
  BY DEF ExpensesInv, TypeOKExpenses, RejectExpense
<1>2. claim[c] \in ClaimRow
  BY <1>1 DEF NoClaim
<1>3. row \in ClaimRow /\ row.status = "avvist"
  BY <1>2 DEF ClaimRow
<1>4. claim' = [claim EXCEPT ![c] = row]
  BY DEF RejectExpense
<1> HIDE DEF row
<1> QED
  BY <1>1, <1>3, <1>4, BooksStay

\* An approval books costs and debt for what is claimed, whatever VAT is deducted.
LEMMA ApproveKeeps ==
  ASSUME ExpensesInv, NEW c \in Claim, NEW p \in Person, NEW vat \in ExpenseVat,
         NEW contra \in ContraAccount, ApproveExpense(c, p, vat, contra),
         UNCHANGED << bank, strict, stricts >>
  PROVE  ExpensesInv'
<1> DEFINE row == [claim[c] EXCEPT !.status = "godkjent", !.contra = contra, !.approver = p]
           a == claim[c].amount
<1>1. TypeOKExpenses /\ IsFiniteSet(Claimed) /\ Booked
  BY DEF ExpensesInv
<1>2. claim \in [Claim -> {NoClaim} \cup ClaimRow] /\ claim[c].status = "innsendt"
  BY <1>1 DEF TypeOKExpenses, ApproveExpense
<1>3. claim[c] \in ClaimRow
  BY <1>2 DEF NoClaim
<1>4. row \in ClaimRow /\ row.status = "godkjent" /\ row.amount = a /\ row.contra = contra /\ a \in Int
  <2> DEFINE r1 == [claim[c] EXCEPT !.status = "godkjent"]
             r2 == [r1 EXCEPT !.contra = contra]
             r3 == [r2 EXCEPT !.approver = p]
  <2>1. r1 \in ClaimRow /\ r1.status = "godkjent" /\ r1.amount = a /\ a \in Int
    BY <1>3 DEF ClaimRow
  <2>2. row = r3
    BY <1>3 DEF ClaimRow
  <2> HIDE DEF r1, row, a
  <2>3. r2 \in ClaimRow /\ r2.status = "godkjent" /\ r2.amount = a /\ r2.contra = contra
    BY <2>1 DEF ClaimRow
  <2> HIDE DEF r2
  <2>4. r3 \in ClaimRow /\ r3.status = "godkjent" /\ r3.amount = a /\ r3.contra = contra
    BY <2>3 DEF ClaimRow
  <2> QED
    BY <2>1, <2>2, <2>4
<1>5. claim' = [claim EXCEPT ![c] = row]
  BY DEF ApproveExpense
<1>6. /\ costs' = costs + a
      /\ owed' = [owed EXCEPT ![contra] = @ - a]
  BY <1>4, CostsComeTo, ExpensesAssumption DEF ApproveExpense
<1> HIDE DEF row, a
<1>7. TypeOKExpenses'
  <2>1. claim' \in [Claim -> {NoClaim} \cup ClaimRow]
    BY <1>2, <1>4, <1>5
  <2>2. owed' \in [ContraAccount -> Int] /\ costs' \in Int /\ bank' \in Int
    BY <1>1, <1>4, <1>6 DEF TypeOKExpenses
  <2>3. strict' \in BOOLEAN /\ stricts' \in 0..MaxStrict
    BY <1>1 DEF TypeOKExpenses
  <2> QED
    BY <2>1, <2>2, <2>3 DEF TypeOKExpenses
<1>8. IsFiniteSet(Claimed')
  <2>1. Claimed' \subseteq Claimed \cup {c}
    BY <1>2, <1>5 DEF Claimed
  <2> QED
    BY <1>1, <2>1, OneMore
<1>9. /\ Approved(claim') = Approved(claim) \cup {c} /\ Paid(claim') = Paid(claim)
      /\ OwedOn(claim', contra) = OwedOn(claim, contra) \cup {c}
      /\ \A k : k # contra => OwedOn(claim', k) = OwedOn(claim, k)
      /\ c \notin Approved(claim)
  BY <1>2, <1>4, <1>5 DEF Approved, Paid, OwedOn
<1>10. /\ Paid(claim) \subseteq Approved(claim) /\ \A k : OwedOn(claim, k) \subseteq Approved(claim)
       /\ IsFiniteSet(Approved(claim)) /\ IsFiniteSet(Paid(claim))
       /\ \A k : IsFiniteSet(OwedOn(claim, k))
       /\ Approved(claim) \in SUBSET Claim
       /\ Approved(claim) \subseteq Claimed
       /\ \A d \in Claimed : claim[d] \in ClaimRow
  BY <1>1, SummedClaims DEF Approved
<1>11. \A d \in Approved(claim) : claim[d].amount = claim'[d].amount /\ claim[d].amount \in Int
  BY <1>2, <1>5, <1>9, <1>10 DEF Approved, ClaimRow
<1>12. claim'[c].amount = a
  BY <1>2, <1>4, <1>5
<1>13. \A S \in SUBSET Approved(claim) : IsFiniteSet(S) =>
          /\ SumOver(AmountsOf(claim'), S) = SumOver(AmountsOf(claim), S)
          /\ SumOver(AmountsOf(claim'), S \cup {c}) = SumOver(AmountsOf(claim), S) + a
          /\ SumOver(AmountsOf(claim), S) \in Int
  <2> SUFFICES ASSUME NEW S \in SUBSET Approved(claim), IsFiniteSet(S)
               PROVE  /\ SumOver(AmountsOf(claim'), S) = SumOver(AmountsOf(claim), S)
                      /\ SumOver(AmountsOf(claim'), S \cup {c}) = SumOver(AmountsOf(claim), S) + a
                      /\ SumOver(AmountsOf(claim), S) \in Int
    OBVIOUS
  <2>1. S \in SUBSET Claim /\ c \notin S
        /\ \A d \in S : claim[d].amount = claim'[d].amount /\ claim[d].amount \in Int
    BY <1>9, <1>10, <1>11
  <2>2. claim'[c].amount \in Int
    BY <1>4, <1>12
  <2>3. SumOver(AmountsOf(claim'), S) = SumOver(AmountsOf(claim), S)
    BY <2>1, SumStays
  <2>4. SumOver(AmountsOf(claim'), S \cup {c}) = SumOver(AmountsOf(claim), S) + a
    BY <1>12, <2>1, <2>2, SumTakes
  <2>5. Numbers(AmountsOf(claim), S)
    BY <2>1 DEF Numbers, AmountsOf
  <2> QED
    BY <2>3, <2>4, <2>5, TotalIsNumber
<1>14. Booked'
  <2>1. /\ SumOver(AmountsOf(claim'), Approved(claim')) = SumOver(AmountsOf(claim), Approved(claim)) + a
        /\ SumOver(AmountsOf(claim'), Paid(claim')) = SumOver(AmountsOf(claim), Paid(claim))
    BY <1>9, <1>10, <1>13
  <2>2. ASSUME NEW k \in ContraAccount PROVE owed'[k] = -SumOver(AmountsOf(claim'), OwedOn(claim', k))
    <3>1. owed[k] = -SumOver(AmountsOf(claim), OwedOn(claim, k)) /\ owed \in [ContraAccount -> Int]
      BY <1>1 DEF Booked, TypeOKExpenses
    <3>2. /\ SumOver(AmountsOf(claim'), OwedOn(claim, k)) = SumOver(AmountsOf(claim), OwedOn(claim, k))
          /\ SumOver(AmountsOf(claim'), OwedOn(claim, k) \cup {c}) = SumOver(AmountsOf(claim), OwedOn(claim, k)) + a
          /\ SumOver(AmountsOf(claim), OwedOn(claim, k)) \in Int
      BY <1>10, <1>13
    <3>3. CASE k = contra
      <4>1. owed'[k] = owed[k] - a
        BY <1>6, <3>1, <3>3
      <4>2. OwedOn(claim', k) = OwedOn(claim, k) \cup {c}
        BY <1>9, <3>3
      <4> QED
        BY <1>4, <3>1, <3>2, <4>1, <4>2
    <3>4. CASE k # contra
      BY <1>6, <1>9, <3>1, <3>2, <3>4
    <3> QED
      BY <3>3, <3>4
  <2> QED
    BY <1>1, <1>6, <2>1, <2>2 DEF Booked
<1> QED
  BY <1>7, <1>8, <1>14 DEF ExpensesInv

\* A payment takes the debt off the account it is on.
LEMMA PayKeeps ==
  ASSUME ExpensesInv, NEW c \in Claim, PayExpense(c), UNCHANGED << costs, strict, stricts >>
  PROVE  ExpensesInv'
<1> DEFINE row == [claim[c] EXCEPT !.status = "utbetalt"]
           a == claim[c].amount
           contra == claim[c].contra
<1>1. TypeOKExpenses /\ IsFiniteSet(Claimed) /\ Booked
  BY DEF ExpensesInv
<1>2. claim \in [Claim -> {NoClaim} \cup ClaimRow] /\ claim[c].status = "godkjent"
  BY <1>1 DEF TypeOKExpenses, PayExpense
<1>3. claim[c] \in ClaimRow
  BY <1>2 DEF NoClaim
<1>4. row \in ClaimRow /\ row.status = "utbetalt" /\ row.amount = a /\ row.contra = contra /\ a \in Int
  BY <1>3 DEF ClaimRow
<1>5. claim' = [claim EXCEPT ![c] = row]
  BY DEF PayExpense
<1>6. /\ bank' = bank - a
      /\ owed' = [owed EXCEPT ![contra] = @ + a]
  BY DEF PayExpense
<1> HIDE DEF row, a, contra
<1>7. TypeOKExpenses'
  <2>1. claim' \in [Claim -> {NoClaim} \cup ClaimRow]
    BY <1>2, <1>4, <1>5
  <2>2. owed' \in [ContraAccount -> Int] /\ costs' \in Int /\ bank' \in Int
    <3>1. owed \in [ContraAccount -> Int] /\ bank \in Int /\ costs \in Int
      BY <1>1 DEF TypeOKExpenses
    <3>2. \A k \in ContraAccount : owed[k] + a \in Int
      BY <1>4, <3>1
    <3>3. owed' \in [ContraAccount -> Int]
      BY <1>6, <3>1, <3>2
    <3> QED
      BY <1>4, <1>6, <3>1, <3>3
  <2>3. strict' \in BOOLEAN /\ stricts' \in 0..MaxStrict
    BY <1>1 DEF TypeOKExpenses
  <2> QED
    BY <2>1, <2>2, <2>3 DEF TypeOKExpenses
<1>8. IsFiniteSet(Claimed')
  <2>1. Claimed' \subseteq Claimed \cup {c}
    BY <1>2, <1>5 DEF Claimed
  <2> QED
    BY <1>1, <2>1, OneMore
<1>9. /\ Approved(claim') = Approved(claim) /\ Paid(claim') = Paid(claim) \cup {c}
      /\ OwedOn(claim', contra) = OwedOn(claim, contra) \ {c}
      /\ \A k : k # contra => OwedOn(claim', k) = OwedOn(claim, k)
      /\ c \in OwedOn(claim, contra)
      /\ c \notin Paid(claim)
  BY <1>2, <1>4, <1>5 DEF Approved, Paid, OwedOn, contra
<1>10. /\ Paid(claim) \subseteq Approved(claim) /\ \A k : OwedOn(claim, k) \subseteq Approved(claim)
       /\ IsFiniteSet(Approved(claim)) /\ IsFiniteSet(Paid(claim))
       /\ \A k : IsFiniteSet(OwedOn(claim, k))
       /\ Approved(claim) \in SUBSET Claim
       /\ Approved(claim) \subseteq Claimed
       /\ \A d \in Claimed : claim[d] \in ClaimRow
  BY <1>1, SummedClaims DEF Approved
<1>11. \A d \in Approved(claim) : claim[d].amount = claim'[d].amount /\ claim[d].amount \in Int
  BY <1>2, <1>4, <1>5, <1>10 DEF Approved, ClaimRow, a
<1>12. \A S \in SUBSET Approved(claim) : IsFiniteSet(S) =>
          /\ SumOver(AmountsOf(claim'), S) = SumOver(AmountsOf(claim), S)
          /\ c \notin S => SumOver(AmountsOf(claim'), S \cup {c}) = SumOver(AmountsOf(claim), S) + a
          /\ SumOver(AmountsOf(claim), S) \in Int
  <2> SUFFICES ASSUME NEW S \in SUBSET Approved(claim), IsFiniteSet(S)
               PROVE  /\ SumOver(AmountsOf(claim'), S) = SumOver(AmountsOf(claim), S)
                      /\ c \notin S => SumOver(AmountsOf(claim'), S \cup {c}) = SumOver(AmountsOf(claim), S) + a
                      /\ SumOver(AmountsOf(claim), S) \in Int
    OBVIOUS
  <2>1. S \in SUBSET Claim
        /\ \A d \in S : claim[d].amount = claim'[d].amount /\ claim[d].amount \in Int
    BY <1>10, <1>11
  <2>2. claim'[c].amount = a /\ claim'[c].amount \in Int
    BY <1>2, <1>4, <1>5
  <2>3. SumOver(AmountsOf(claim'), S) = SumOver(AmountsOf(claim), S)
    BY <2>1, SumStays
  <2>4. c \notin S => SumOver(AmountsOf(claim'), S \cup {c}) = SumOver(AmountsOf(claim), S) + claim'[c].amount
    BY <2>1, <2>2, SumTakes
  <2>5. Numbers(AmountsOf(claim), S)
    BY <2>1 DEF Numbers, AmountsOf
  <2> QED
    BY <2>2, <2>3, <2>4, <2>5, TotalIsNumber
<1>13. Booked'
  <2>1. /\ SumOver(AmountsOf(claim'), Approved(claim')) = SumOver(AmountsOf(claim), Approved(claim))
        /\ SumOver(AmountsOf(claim'), Paid(claim')) = SumOver(AmountsOf(claim), Paid(claim)) + a
        /\ SumOver(AmountsOf(claim), Paid(claim)) \in Int
    BY <1>9, <1>10, <1>12
  <2>2. ASSUME NEW k \in ContraAccount PROVE owed'[k] = -SumOver(AmountsOf(claim'), OwedOn(claim', k))
    <3> DEFINE S == OwedOn(claim, k) \ {c}
    <3>1. owed[k] = -SumOver(AmountsOf(claim), OwedOn(claim, k)) /\ owed \in [ContraAccount -> Int]
      BY <1>1 DEF Booked, TypeOKExpenses
    <3>2. S \in SUBSET Approved(claim) /\ IsFiniteSet(S) /\ c \notin S
      BY <1>10, FS_Subset
    <3>3. /\ SumOver(AmountsOf(claim'), OwedOn(claim, k)) = SumOver(AmountsOf(claim), OwedOn(claim, k))
          /\ SumOver(AmountsOf(claim), OwedOn(claim, k)) \in Int
      BY <1>10, <1>12
    <3>4. /\ SumOver(AmountsOf(claim'), S) = SumOver(AmountsOf(claim), S)
          /\ SumOver(AmountsOf(claim'), S \cup {c}) = SumOver(AmountsOf(claim), S) + a
          /\ SumOver(AmountsOf(claim), S) \in Int
      BY <1>12, <3>2
    <3>5. k = contra => S \cup {c} = OwedOn(claim, k) /\ OwedOn(claim', k) = S
      BY <1>9
    <3> HIDE DEF S
    <3>6. CASE k = contra
      <4>1. owed'[k] = owed[k] + a
        BY <1>6, <3>1, <3>6
      <4>2. OwedOn(claim', k) = S /\ SumOver(AmountsOf(claim), OwedOn(claim, k)) = SumOver(AmountsOf(claim), S) + a
        BY <3>3, <3>4, <3>5, <3>6
      <4> QED
        BY <1>4, <3>1, <3>4, <4>1, <4>2
    <3>7. CASE k # contra
      BY <1>6, <1>9, <3>1, <3>3, <3>7
    <3> QED
      BY <3>6, <3>7
  <2> QED
    BY <1>1, <1>4, <1>6, <2>1, <2>2 DEF Booked, TypeOKExpenses
<1> QED
  BY <1>7, <1>8, <1>13 DEF ExpensesInv

LEMMA NextExpensesInv == ExpensesInv /\ [NextExpenses]_varsExpenses => ExpensesInv'
<1> SUFFICES ASSUME ExpensesInv, [NextExpenses]_varsExpenses PROVE ExpensesInv'
  OBVIOUS
<1>1. ASSUME NEW p \in Person, NEW c \in Claim, NEW amount \in ClaimAmount, CreateExpense(p, c, amount)
      PROVE  ExpensesInv'
  BY <1>1, SubmitKeeps, ExpensesAssumption DEF CreateExpense
<1>2. ASSUME NEW p \in Person, NEW c \in Claim, NEW vat \in ExpenseVat, NEW contra \in ContraAccount,
             Approve(p, c, vat, contra)
      PROVE  ExpensesInv'
  BY <1>2, ApproveKeeps DEF Approve
<1>3. ASSUME NEW p \in Person, NEW c \in Claim, RejectClaim(p, c) PROVE ExpensesInv'
  BY <1>3, RejectClaimKeeps DEF RejectClaim
<1>4. ASSUME NEW p \in Person, NEW c \in Claim, Pay(p, c) PROVE ExpensesInv'
  BY <1>4, PayKeeps DEF Pay
<1>5. ASSUME NEW p \in Person, SetStrict(p) PROVE ExpensesInv'
  <2>1. UNCHANGED << claim, owed, costs, bank >>
    BY <1>5 DEF SetStrict
  <2>2. strict' \in BOOLEAN
    BY <1>5 DEF SetStrict
  <2>3. stricts' \in 0..MaxStrict
    BY <1>5, ExpensesAssumption DEF ExpensesInv, TypeOKExpenses, SetStrict
  <2> QED
    BY <2>1, <2>2, <2>3 DEF ExpensesInv, TypeOKExpenses, Claimed, Booked
<1>6. CASE UNCHANGED varsExpenses
  BY <1>6 DEF varsExpenses, ExpensesInv, TypeOKExpenses, Claimed, Booked
<1> QED
  BY <1>1, <1>2, <1>3, <1>4, <1>5, <1>6, MileageKeeps DEF NextExpenses

LEMMA ExpensesInvariant == SpecExpenses => []ExpensesInv
  BY InitExpensesInv, NextExpensesInv, PTL DEF SpecExpenses

(***************************************************************************)
(* The books say what the claims say, for any number of claims, accounts,  *)
(* rates and amounts, and however an amount is split into base and VAT.    *)
(***************************************************************************)
THEOREM ClaimsBooked == SpecExpenses => []ClaimsAreInTheBooks
<1>1. ExpensesInv => ClaimsAreInTheBooks
  BY BooksSummed DEF ExpensesInv
<1> QED
  BY <1>1, ExpensesInvariant, PTL

-----------------------------------------------------------------------------
(***************************************************************************)
(* Hours.  An invoice has the lines of what a request read, and its rows   *)
(* are marked later: what is read of a row and what the row is are one, as *)
(* long as it is neither corrected nor marked.                             *)
(***************************************************************************)

\* What a request reads of the entries E in the table w.
Snapshot(E, w) == {[entry |-> e, row |-> w[e]] : e \in E}

\* What two tables say of an entry, as far as an invoice shows it.
SameToBill(v, w, E) ==
    \A e \in E : /\ v[e].project = w[e].project
                 /\ v[e].rate = w[e].rate
                 /\ v[e].minutes = w[e].minutes
                 /\ w[e].minutes \in Int

MinutesIn(rows) == [r \in rows |-> r.row.minutes]

\* The minutes of what was read, as a sum of module FiniteSums.
LEMMA MinutesSummed ==
  ASSUME NEW S, IsFiniteSet(S)
  PROVE  MapThenSumSet(LAMBDA r : r.row.minutes, S) = SumOver(MinutesIn(S), S)
<1> DEFINE sum(f) == f = [s \in SUBSET S |-> IF s = {} THEN 0 ELSE Pick(s).row.minutes + f[s \ {Pick(s)}]]
<1>1. ASSUME NEW s \in SUBSET S, s # {} PROVE MinutesIn(S)[Pick(s)] = Pick(s).row.minutes
  BY <1>1, PickIn DEF MinutesIn
<1>2. ASSUME NEW f PROVE sum(f) <=> Sums(f, MinutesIn(S), S)
  BY <1>1 DEF Sums
<1>3. MapThenSumSet(LAMBDA r : r.row.minutes, S) = (CHOOSE f : sum(f))[S]
  BY DEF MapThenSumSet, MapThenFoldSet, Pick
<1>4. sum(CHOOSE f : sum(f))
  BY <1>2, SumsExist
<1> QED
  BY <1>2, <1>3, <1>4, SumsGiveTotal

\* They are the minutes of the entries.
LEMMA MinutesOfEntries ==
  ASSUME NEW E, IsFiniteSet(E), NEW w, \A e \in E : w[e].minutes \in Int
  PROVE  MapThenSumSet(LAMBDA r : r.row.minutes, Snapshot(E, w))
           = SumOver([e \in E |-> w[e].minutes], E)
<1> DEFINE f == [e \in E |-> [entry |-> e, row |-> w[e]]]
           T == Snapshot(E, w)
           h == [e \in E |-> w[e].minutes]
<1>1. (\A e \in E : f[e] \in T) /\ (\A y \in T : \E e \in E : y = f[e])
  BY DEF Snapshot
<1>2. OneToOne(f, E, T)
  <2>1. \A x, y \in E : f[x] = f[y] => x = y
    OBVIOUS
  <2> HIDE DEF f, T
  <2> QED
    BY <1>1, <2>1 DEF OneToOne
<1>3. \A r \in T : r.row.minutes \in Int /\ MinutesIn(T)[r] = r.row.minutes
  BY DEF Snapshot, MinutesIn
<1>4. Numbers(MinutesIn(T), T)
  BY <1>3 DEF Numbers
<1>5. Carried(MinutesIn(T), f, h, E)
  <2>1. \A e \in E : f[e] \in T /\ f[e].row.minutes = w[e].minutes
    BY <1>1
  <2> QED
    BY <1>3, <2>1 DEF Carried
<1> HIDE DEF f, T, h
<1>6. IsFiniteSet(T) /\ SumOver(MinutesIn(T), T) = SumOver(h, E)
  BY <1>2, <1>4, <1>5, TotalImage
<1>7. MapThenSumSet(LAMBDA r : r.row.minutes, T) = SumOver(MinutesIn(T), T)
  BY <1>6, MinutesSummed
<1>8. MapThenSumSet(LAMBDA r : r.row.minutes, T) = SumOver(h, E)
  BY <1>6, <1>7
<1> QED
  BY <1>8 DEF T, h

\* The entries of one group.
OfGroup(g, E, w) == {e \in E : w[e].project = g.project /\ w[e].rate = g.rate}

\* A line says the same of two tables that say the same of its entries.
LEMMA LineSame ==
  ASSUME NEW E, IsFiniteSet(E), NEW v, NEW w, SameToBill(v, w, E), NEW g
  PROVE  HourLine(g, Snapshot(E, v)) = HourLine(g, Snapshot(E, w))
<1> DEFINE G == OfGroup(g, E, w)
<1>1. G = OfGroup(g, E, v) /\ G \subseteq E
  BY DEF OfGroup, SameToBill
<1>2. IsFiniteSet(G) /\ \A e \in G : w[e].minutes \in Int /\ v[e].minutes \in Int
  BY <1>1, FS_Subset DEF SameToBill
<1>3. ASSUME NEW u
      PROVE  {r \in Snapshot(E, u) : r.row.project = g.project /\ r.row.rate = g.rate}
               = Snapshot(OfGroup(g, E, u), u)
  BY DEF Snapshot, OfGroup
<1>4. Alike([e \in G |-> v[e].minutes], [e \in G |-> w[e].minutes], G)
  BY <1>1 DEF Alike, SameToBill
<1> HIDE DEF G
<1>5. SumOver([e \in G |-> v[e].minutes], G) = SumOver([e \in G |-> w[e].minutes], G)
  BY <1>2, <1>4, TotalSame
<1>6. MapThenSumSet(LAMBDA r : r.row.minutes, Snapshot(G, v)) = SumOver([e \in G |-> v[e].minutes], G)
  BY <1>2, MinutesOfEntries
<1>7. MapThenSumSet(LAMBDA r : r.row.minutes, Snapshot(G, w)) = SumOver([e \in G |-> w[e].minutes], G)
  BY <1>2, MinutesOfEntries
<1>8. MapThenSumSet(LAMBDA r : r.row.minutes,
                    {r \in Snapshot(E, v) : r.row.project = g.project /\ r.row.rate = g.rate})
        = MapThenSumSet(LAMBDA r : r.row.minutes,
                    {r \in Snapshot(E, w) : r.row.project = g.project /\ r.row.rate = g.rate})
  BY <1>1, <1>3, <1>5, <1>6, <1>7 DEF G
<1> QED
  BY <1>8 DEF HourLine

\* So does the invoice.
LEMMA LinesSame ==
  ASSUME NEW E, IsFiniteSet(E), NEW v, NEW w, SameToBill(v, w, E)
  PROVE  HourLines(Snapshot(E, v)) = HourLines(Snapshot(E, w))
<1>1. Groups(Snapshot(E, v)) = Groups(Snapshot(E, w))
  <2>1. ASSUME NEW u
        PROVE  Groups(Snapshot(E, u)) = {[project |-> u[e].project, rate |-> u[e].rate] : e \in E}
    <3>1. ASSUME NEW e \in E
          PROVE  [project |-> u[e].project, rate |-> u[e].rate] \in Groups(Snapshot(E, u))
      <4> DEFINE r == [entry |-> e, row |-> u[e]]
      <4>1. r \in Snapshot(E, u) /\ r.row = u[e]
        BY DEF Snapshot
      <4> HIDE DEF r
      <4> QED
        BY <4>1 DEF Groups
    <3>2. ASSUME NEW x \in Groups(Snapshot(E, u))
          PROVE  \E e \in E : x = [project |-> u[e].project, rate |-> u[e].rate]
      <4>1. PICK r \in Snapshot(E, u) : x = [project |-> r.row.project, rate |-> r.row.rate]
        BY DEF Groups
      <4>2. PICK e \in E : r = [entry |-> e, row |-> u[e]]
        BY DEF Snapshot
      <4>3. r.row = u[e]
        BY <4>2
      <4> QED
        BY <4>1, <4>3
    <3> QED
      BY <3>1, <3>2
  <2>2. \A e \in E : v[e].project = w[e].project /\ v[e].rate = w[e].rate
    BY DEF SameToBill
  <2>3. {[project |-> v[e].project, rate |-> v[e].rate] : e \in E}
          = {[project |-> w[e].project, rate |-> w[e].rate] : e \in E}
    BY <2>2
  <2> QED
    BY <2>1, <2>3
<1>2. \A g : HourLine(g, Snapshot(E, v)) = HourLine(g, Snapshot(E, w))
  BY LineSame
<1> QED
  BY <1>1, <1>2 DEF HourLines

-----------------------------------------------------------------------------
\* Rows of the table, and what a request reads of them.
HourRow ==
    [by : Person, day : WorkDay, minutes : 1..1440, project : Project \cup {NoProject},
     billable : {draft.billable : draft \in TimeDraft},
     rate : {0} \cup {draft.rate : draft \in TimeDraft} \cup {r.value : r \in ProjectRate},
     invoice : HoursInvoice \cup {NoInvoice}]
RowRead == [entry : TimeEntry, row : HourRow]

HourTypes ==
    /\ hours \in [TimeEntry -> {NoEntry, Deleted} \cup HourRow]
    /\ IsFiniteSet(Rows)
    /\ hoursLock \in WorkDay \cup {0}
    /\ billing \in [Person -> SUBSET RowRead]
    /\ DOMAIN invoiced = HoursInvoice
    /\ \A i \in HoursInvoice : \A l \in invoiced[i] : l.project \in Project \cup {NoProject}
    /\ edits \in 0..MaxEdit

\* What was read is an entry that was made, and its row unless it was corrected, marked or deleted.
ReadAsIs ==
    \A p \in Person : \A r \in billing[p] :
        /\ hours[r.entry] # NoEntry
        /\ (r.entry \in Rows /\ hours[r.entry].invoice = NoInvoice /\ r.entry \notin touched)
              => r.row = hours[r.entry]

\* An invoice without lines has no rows.
NoLinesNoRows == \A i \in HoursInvoice : invoiced[i] = {} => Marked(i) = {}

\* An invoice has the lines of its rows.
LinesOfRows ==
    \A i \in HoursInvoice :
        Marked(i) \cap touched = {} => invoiced[i] = HourLines(Snapshot(Marked(i), hours))

HoursInv == HourTypes /\ ReadAsIs /\ NoLinesNoRows /\ LinesOfRows

\* Neither what was never entered nor what was deleted is a row.
LEMMA RowsAreRows ==
  ASSUME NEW row \in HourRow
  PROVE  row # NoEntry /\ row # Deleted /\ row.by \in Person
<1>1. row.by # Nobody
  BY AccessAssumption DEF HourRow
<1> QED
  BY <1>1 DEF NoEntry, Deleted, HourRow

\* Of a table, then, the rows are what is one.
LEMMA EntryRows ==
  ASSUME NEW h \in [TimeEntry -> {NoEntry, Deleted} \cup HourRow]
  PROVE  {e \in TimeEntry : h[e] \notin {NoEntry, Deleted}} = {e \in TimeEntry : h[e] \in HourRow}
  BY RowsAreRows

LEMMA InitHoursInv == InitTimesheet => HoursInv
<1> SUFFICES ASSUME InitTimesheet PROVE HoursInv
  OBVIOUS
<1>1. Rows = {} /\ IsFiniteSet({})
  BY FS_EmptySet DEF InitTimesheet, Rows
<1>2. edits \in 0..MaxEdit
  BY TimeDraftAssumption DEF InitTimesheet
<1>3. HourTypes
  BY <1>1, <1>2 DEF InitTimesheet, HourTypes
<1>4. ReadAsIs
  BY DEF InitTimesheet, ReadAsIs
<1>5. \A i : Marked(i) = {}
  BY <1>1 DEF Marked
<1>6. HourLines(Snapshot({}, hours)) = {}
  BY DEF Snapshot, HourLines, Groups
<1>7. NoLinesNoRows /\ LinesOfRows
  BY <1>5, <1>6 DEF NoLinesNoRows, LinesOfRows, InitTimesheet
<1> QED
  BY <1>3, <1>4, <1>7 DEF HoursInv

\* A step that leaves the rows of the invoices alone leaves the invoices right.
LEMMA InvoicesStay ==
  ASSUME NoLinesNoRows, LinesOfRows, UNCHANGED invoiced, touched \subseteq touched',
         \A i \in HoursInvoice : Marked(i)' = Marked(i),
         \A i \in HoursInvoice : \A e \in Marked(i) : hours'[e] = hours[e]
  PROVE  NoLinesNoRows' /\ LinesOfRows'
<1>1. \A i \in HoursInvoice : Snapshot(Marked(i), hours') = Snapshot(Marked(i), hours)
  BY DEF Snapshot
<1> QED
  BY <1>1 DEF NoLinesNoRows, LinesOfRows

\* The row of a draft, at a rate that the person or the project has.
LEMMA RowOfDraft ==
  ASSUME NEW p \in Person, NEW draft \in TimeDraft, NEW override, NEW q \in Person,
         NEW rate \in ResolveBilling(q, draft, override)
  PROVE  /\ HoursRow(p, draft, rate, NoInvoice) \in HourRow
         /\ HoursRow(p, draft, rate, NoInvoice).invoice = NoInvoice
<1>1. rate \in {0} \cup {d.rate : d \in TimeDraft} \cup {r.value : r \in ProjectRate}
  <2>1. ResolveSats(draft.project, q, draft.day) \subseteq {r.value : r \in ProjectRate}
    BY DEF ResolveSats, InForce
  <2> QED
    BY <2>1 DEF ResolveBilling
<1>2. draft.day \in WorkDay /\ draft.minutes \in 1..1440 /\ draft.project \in Project \cup {NoProject}
      /\ draft.billable \in {d.billable : d \in TimeDraft}
  BY TimeDraftAssumption DEF WorkDay
<1> QED
  BY <1>1, <1>2 DEF HoursRow, HourRow

\* One entry that no invoice has is written, and marked as touched if somebody has read it.
LEMMA EntryWritten ==
  ASSUME HoursInv, NEW e \in TimeEntry, NEW row \in HourRow, row.invoice = NoInvoice,
         hours[e] = NoEntry \/ (e \in Rows /\ hours[e].invoice = NoInvoice),
         hours' = [hours EXCEPT ![e] = row],
         touched \subseteq touched',
         hours[e] = NoEntry \/ ~ BeingBilled(e) \/ e \in touched',
         UNCHANGED << hoursLock, billing, invoiced >>, edits' \in 0..MaxEdit
  PROVE  HoursInv'
<1>1. hours \in [TimeEntry -> {NoEntry, Deleted} \cup HourRow]
  BY DEF HoursInv, HourTypes
<1>2. hours' \in [TimeEntry -> {NoEntry, Deleted} \cup HourRow]
  BY <1>1
<1>3. Rows' = {d \in TimeEntry : hours'[d] \in HourRow} /\ Rows = {d \in TimeEntry : hours[d] \in HourRow}
  BY <1>1, <1>2, EntryRows DEF Rows
<1>4. HourTypes'
  <2>1. Rows' \subseteq Rows \cup {e}
    BY <1>1, <1>3
  <2>2. IsFiniteSet(Rows')
    BY <2>1, OneMore DEF HoursInv, HourTypes
  <2>3. HourTypes
    BY DEF HoursInv
  <2> QED
    BY <1>2, <2>2, <2>3 DEF HourTypes
<1>5. ReadAsIs'
  <2> SUFFICES ASSUME NEW p \in Person, NEW r \in billing[p]
               PROVE  /\ hours'[r.entry] # NoEntry
                      /\ (r.entry \in Rows' /\ hours'[r.entry].invoice = NoInvoice /\ r.entry \notin touched')
                            => r.row = hours'[r.entry]
    BY DEF ReadAsIs
  <2>1. /\ hours[r.entry] # NoEntry
        /\ (r.entry \in Rows /\ hours[r.entry].invoice = NoInvoice /\ r.entry \notin touched)
              => r.row = hours[r.entry]
    BY DEF HoursInv, ReadAsIs
  <2>2. r.entry \in TimeEntry
    BY DEF HoursInv, HourTypes, RowRead
  <2>3. CASE r.entry = e
    <3>1. BeingBilled(e)
      BY <2>3 DEF BeingBilled
    <3>2. hours'[e] = row
      BY <1>1
    <3> QED
      BY <2>1, <2>3, <3>1, <3>2, RowsAreRows
  <2>4. CASE r.entry # e
    <3>1. hours'[r.entry] = hours[r.entry]
      BY <1>1, <2>4
    <3> QED
      BY <1>3, <2>1, <2>2, <3>1
  <2> QED
    BY <2>3, <2>4
<1>6. \A i \in HoursInvoice : e \notin Marked(i) /\ e \notin Marked(i)' /\ Marked(i)' = Marked(i)
  <2>1. hours'[e] = row /\ \A d \in TimeEntry : d # e => hours'[d] = hours[d]
    BY <1>1
  <2>2. \A i \in HoursInvoice : e \notin Marked(i) /\ e \notin Marked(i)'
    BY <1>1, <1>3, <2>1, TimeDraftAssumption, RowsAreRows DEF Marked
  <2> QED
    BY <1>3, <2>1, <2>2 DEF Marked
<1>7. \A i \in HoursInvoice : \A d \in Marked(i) : hours'[d] = hours[d]
  BY <1>1, <1>6 DEF Marked, Rows
<1> QED
  BY <1>4, <1>5, <1>6, <1>7, InvoicesStay DEF HoursInv

\* An entry nobody has billed is deleted.
LEMMA EntryDeleted ==
  ASSUME HoursInv, NEW e \in Rows, hours[e].invoice = NoInvoice,
         hours' = [hours EXCEPT ![e] = Deleted],
         UNCHANGED << hoursLock, billing, invoiced, touched >>, edits' \in 0..MaxEdit
  PROVE  HoursInv'
<1>1. hours \in [TimeEntry -> {NoEntry, Deleted} \cup HourRow] /\ e \in TimeEntry
  BY DEF HoursInv, HourTypes, Rows
<1>2. hours' \in [TimeEntry -> {NoEntry, Deleted} \cup HourRow]
  BY <1>1
<1>3. Rows' = Rows \ {e} /\ \A d \in Rows' : hours'[d] = hours[d]
  BY <1>1 DEF Rows
<1>4. HourTypes'
  <2>1. IsFiniteSet(Rows')
    BY <1>3, FS_Subset DEF HoursInv, HourTypes
  <2>2. HourTypes
    BY DEF HoursInv
  <2> QED
    BY <1>2, <2>1, <2>2 DEF HourTypes
<1>5. ReadAsIs'
  <2> SUFFICES ASSUME NEW p \in Person, NEW r \in billing[p]
               PROVE  /\ hours'[r.entry] # NoEntry
                      /\ (r.entry \in Rows' /\ hours'[r.entry].invoice = NoInvoice /\ r.entry \notin touched)
                            => r.row = hours'[r.entry]
    BY DEF ReadAsIs
  <2>1. /\ hours[r.entry] # NoEntry
        /\ (r.entry \in Rows /\ hours[r.entry].invoice = NoInvoice /\ r.entry \notin touched)
              => r.row = hours[r.entry]
    BY DEF HoursInv, ReadAsIs
  <2>2. hours'[e] = Deleted /\ Deleted # NoEntry
    BY <1>1 DEF Deleted, NoEntry
  <2>3. r.entry # e => hours'[r.entry] = hours[r.entry]
    BY <1>1
  <2> QED
    BY <1>3, <2>1, <2>2, <2>3
<1>6. \A i \in HoursInvoice : Marked(i)' = Marked(i)
  BY <1>3, TimeDraftAssumption DEF Marked
<1>7. \A i \in HoursInvoice : \A d \in Marked(i) : hours'[d] = hours[d]
  BY <1>3, TimeDraftAssumption DEF Marked
<1> QED
  BY <1>4, <1>5, <1>6, <1>7, InvoicesStay DEF HoursInv

\* A step that changes neither the entries nor what is read of them.
LEMMA HoursStay ==
  ASSUME HoursInv, UNCHANGED << hours, billing, invoiced, touched >>,
         hoursLock' \in WorkDay \cup {0}, edits' \in 0..MaxEdit
  PROVE  HoursInv'
  BY DEF HoursInv, HourTypes, ReadAsIs, NoLinesNoRows, LinesOfRows, Rows, Marked, Snapshot

LEMMA BillKeeps ==
  ASSUME HoursInv, NEW p \in Person, NEW chosen \in SUBSET TimeEntry, Bill(p, chosen)
  PROVE  HoursInv'
<1>1. /\ chosen \subseteq UnbilledRows
      /\ billing' = [billing EXCEPT ![p] = Snapshot(chosen, hours)]
      /\ UNCHANGED << hours, hoursLock, invoiced, touched, edits >>
  BY DEF Bill, ChooseHours, Snapshot
<1>2. hours \in [TimeEntry -> {NoEntry, Deleted} \cup HourRow] /\ billing \in [Person -> SUBSET RowRead]
  BY DEF HoursInv, HourTypes
<1>3. \A r \in Snapshot(chosen, hours) : r \in RowRead /\ hours[r.entry] # NoEntry /\ r.row = hours[r.entry]
  <2> SUFFICES ASSUME NEW e \in chosen
               PROVE  hours[e] \in HourRow /\ hours[e] # NoEntry /\ e \in TimeEntry
    BY DEF Snapshot, RowRead
  <2> QED
    BY <1>1, <1>2 DEF UnbilledRows, Rows
<1>4. billing' \in [Person -> SUBSET RowRead]
  BY <1>1, <1>2, <1>3
<1>5. HourTypes'
  <2>1. Rows' = Rows
    BY <1>1 DEF Rows
  <2> QED
    BY <1>1, <1>4, <2>1 DEF HoursInv, HourTypes
<1>6. ReadAsIs'
  <2> SUFFICES ASSUME NEW q \in Person, NEW r \in billing'[q]
               PROVE  /\ hours'[r.entry] # NoEntry
                      /\ (r.entry \in Rows' /\ hours'[r.entry].invoice = NoInvoice /\ r.entry \notin touched')
                            => r.row = hours'[r.entry]
    BY DEF ReadAsIs
  <2>1. CASE q = p
    BY <1>1, <1>2, <1>3, <2>1
  <2>2. CASE q # p
    <3>1. r \in billing[q]
      BY <1>1, <1>2, <2>2
    <3> QED
      BY <1>1, <3>1 DEF HoursInv, ReadAsIs, Rows
  <2> QED
    BY <2>1, <2>2
<1>7. \A i \in HoursInvoice : Marked(i)' = Marked(i)
  BY <1>1 DEF Marked, Rows
<1> QED
  BY <1>1, <1>5, <1>6, <1>7, InvoicesStay DEF HoursInv

\* Read and marked: the invoice has the lines of its rows unless one was corrected between.
LEMMA MarkKeeps ==
  ASSUME HoursInv, NEW p \in Person, NEW i \in HoursInvoice, NEW E, E = {r.entry : r \in billing[p]},
         billing[p] # {}, invoiced[i] = {}, MerkFakturert(E, i),
         invoiced' = [invoiced EXCEPT ![i] = HourLines(billing[p])],
         billing' = [billing EXCEPT ![p] = {}], UNCHANGED << hoursLock, touched, edits >>
  PROVE  HoursInv'
<1>1. /\ hours \in [TimeEntry -> {NoEntry, Deleted} \cup HourRow]
      /\ billing \in [Person -> SUBSET RowRead] /\ DOMAIN invoiced = HoursInvoice
  BY DEF HoursInv, HourTypes
<1>2. /\ E # {} /\ E \subseteq Rows /\ E \subseteq TimeEntry
      /\ \A e \in E : hours[e] \in HourRow /\ hours[e].invoice = NoInvoice
  BY <1>1 DEF MerkFakturert, Rows
<1> DEFINE marked(e) == [hours[e] EXCEPT !.invoice = i]
<1>3. \A e \in E : marked(e) \in HourRow /\ marked(e).invoice = i
  BY <1>2 DEF HourRow
<1>4. hours' = [e \in TimeEntry |-> IF e \in E THEN marked(e) ELSE hours[e]]
  BY DEF MerkFakturert
<1>5. SameToBill(hours, hours', E)
  <2>1. ASSUME NEW e \in E
        PROVE  /\ hours[e].project = hours'[e].project /\ hours[e].rate = hours'[e].rate
               /\ hours[e].minutes = hours'[e].minutes /\ hours'[e].minutes \in Int
    <3>1. hours'[e] = marked(e)
      BY <1>2, <1>4
    <3>2. hours[e] \in HourRow
      BY <1>2
    <3>3. /\ marked(e).project = hours[e].project /\ marked(e).rate = hours[e].rate
          /\ marked(e).minutes = hours[e].minutes
      <4> DEFINE r == hours[e]
      <4>1. r \in HourRow
        BY <3>2
      <4> HIDE DEF r
      <4>2. [r EXCEPT !.invoice = i].project = r.project /\ [r EXCEPT !.invoice = i].rate = r.rate
            /\ [r EXCEPT !.invoice = i].minutes = r.minutes
        BY <4>1 DEF HourRow
      <4> QED
        BY <4>2 DEF r
    <3>4. hours[e].minutes \in Int
      <4>1. \A r \in HourRow : r.minutes \in Int
        BY DEF HourRow
      <4> QED
        BY <3>2, <4>1
    <3> HIDE DEF marked
    <3> QED
      BY <3>1, <3>3, <3>4
  <2> QED
    BY <2>1 DEF SameToBill
<1> HIDE DEF marked
<1>6. hours' \in [TimeEntry -> {NoEntry, Deleted} \cup HourRow]
  BY <1>1, <1>3, <1>4
<1>7. /\ Rows' = Rows
      /\ \A e \in E : hours'[e] = marked(e)
      /\ \A e \in TimeEntry \ E : hours'[e] = hours[e]
  <2>1. /\ \A e \in E : hours'[e] = marked(e)
        /\ \A e \in TimeEntry \ E : hours'[e] = hours[e]
    BY <1>2, <1>4
  <2>2. Rows' = {e \in TimeEntry : hours'[e] \in HourRow} /\ Rows = {e \in TimeEntry : hours[e] \in HourRow}
    BY <1>1, <1>6, EntryRows DEF Rows
  <2> QED
    BY <1>2, <1>3, <2>1, <2>2
<1>8. billing[p] \subseteq RowRead /\ billing' \in [Person -> SUBSET RowRead]
  BY <1>1
<1>9. \A l \in HourLines(billing[p]) : l.project \in Project \cup {NoProject}
  <2>1. \A g \in Groups(billing[p]) : g.project \in Project \cup {NoProject}
    <3> SUFFICES ASSUME NEW r \in billing[p] PROVE r.row.project \in Project \cup {NoProject}
      BY DEF Groups
    <3>1. r.row \in HourRow
      BY <1>8 DEF RowRead
    <3> QED
      BY <3>1 DEF HourRow
  <2>2. \A g : HourLine(g, billing[p]).project = g.project
    BY DEF HourLine
  <2> QED
    BY <2>1, <2>2 DEF HourLines
<1>10. HourTypes'
  <2>1. HourTypes
    BY DEF HoursInv
  <2>2. \A j \in HoursInvoice : invoiced'[j] = IF j = i THEN HourLines(billing[p]) ELSE invoiced[j]
    BY <1>1
  <2>3. \A j \in HoursInvoice : \A l \in invoiced'[j] : l.project \in Project \cup {NoProject}
    BY <1>9, <2>1, <2>2 DEF HourTypes
  <2> QED
    BY <1>6, <1>7, <1>8, <2>1, <2>3 DEF HourTypes
<1>11. ReadAsIs'
  <2> SUFFICES ASSUME NEW q \in Person, NEW r \in billing'[q]
               PROVE  /\ hours'[r.entry] # NoEntry
                      /\ (r.entry \in Rows' /\ hours'[r.entry].invoice = NoInvoice /\ r.entry \notin touched')
                            => r.row = hours'[r.entry]
    BY DEF ReadAsIs
  <2>1. r \in billing[q]
    BY <1>1
  <2>2. /\ hours[r.entry] # NoEntry
        /\ (r.entry \in Rows /\ hours[r.entry].invoice = NoInvoice /\ r.entry \notin touched)
              => r.row = hours[r.entry]
    BY <2>1 DEF HoursInv, ReadAsIs
  <2>3. r.entry \in TimeEntry
    BY <1>1, <2>1 DEF RowRead
  <2>4. CASE r.entry \in E
    BY <1>3, <1>7, <2>4, RowsAreRows, TimeDraftAssumption
  <2>5. CASE r.entry \notin E
    BY <1>7, <2>2, <2>3, <2>5
  <2> QED
    BY <2>4, <2>5
<1>12. Marked(i) = {} /\ Marked(i)' = E
  <2>1. Marked(i) = {}
    BY DEF HoursInv, NoLinesNoRows
  <2> QED
    BY <1>2, <1>3, <1>7, <2>1 DEF Marked, Rows
<1>13. \A j \in HoursInvoice : j # i => Marked(j)' = Marked(j) /\ Marked(j) \cap E = {} /\ Marked(j) \subseteq TimeEntry
  BY <1>2, <1>3, <1>7, TimeDraftAssumption DEF Marked, Rows
<1>14. HourLines(billing[p]) # {}
  <2>1. Groups(billing[p]) # {}
    BY DEF Groups
  <2> QED
    BY <2>1 DEF HourLines
<1>15. E \cap touched = {} => HourLines(billing[p]) = HourLines(Snapshot(E, hours'))
  <2> SUFFICES ASSUME E \cap touched = {} PROVE HourLines(billing[p]) = HourLines(Snapshot(E, hours'))
    OBVIOUS
  <2>1. \A r \in billing[p] : r.row = hours[r.entry] /\ r = [entry |-> r.entry, row |-> r.row] /\ r.entry \in E
    BY <1>2, <1>8 DEF HoursInv, ReadAsIs, RowRead
  <2>2. billing[p] = Snapshot(E, hours)
    BY <2>1 DEF Snapshot
  <2>3. IsFiniteSet(E)
    BY <1>2, FS_Subset DEF HoursInv, HourTypes
  <2> QED
    BY <1>5, <2>2, <2>3, LinesSame
<1>16. NoLinesNoRows'
  BY <1>1, <1>13, <1>14 DEF HoursInv, NoLinesNoRows
<1>17. LinesOfRows'
  <2> SUFFICES ASSUME NEW j \in HoursInvoice, Marked(j)' \cap touched = {}
               PROVE  invoiced'[j] = HourLines(Snapshot(Marked(j)', hours'))
    BY DEF LinesOfRows
  <2>1. CASE j = i
    BY <1>1, <1>12, <1>15, <2>1
  <2>2. CASE j # i
    <3>1. Snapshot(Marked(j), hours') = Snapshot(Marked(j), hours)
      BY <1>7, <1>13, <2>2 DEF Snapshot
    <3> QED
      BY <1>1, <1>13, <2>2, <3>1 DEF HoursInv, LinesOfRows
  <2> QED
    BY <2>1, <2>2
<1> QED
  BY <1>10, <1>11, <1>16, <1>17 DEF HoursInv

\* A request that fails forgets what it has read.
LEMMA BillHoursKeeps ==
  ASSUME HoursInv, NEW p \in Person, NEW i \in HoursInvoice, BillHours(p, i)
  PROVE  HoursInv'
<1> DEFINE E == {r.entry : r \in billing[p]}
<1>1. /\ billing[p] # {} /\ invoiced[i] = {}
      /\ billing' = [billing EXCEPT ![p] = {}] /\ UNCHANGED << hoursLock, touched, edits >>
  BY DEF BillHours
<1>2. CASE MerkFakturert(E, i) /\ invoiced' = [invoiced EXCEPT ![i] = HourLines(billing[p])]
  BY <1>1, <1>2, MarkKeeps
<1>3. CASE UNCHANGED << hours, invoiced >>
  <2>1. billing \in [Person -> SUBSET RowRead]
    BY DEF HoursInv, HourTypes
  <2>2. billing' \in [Person -> SUBSET RowRead] /\ \A q \in Person : billing'[q] \subseteq billing[q]
    BY <1>1, <2>1
  <2>3. HourTypes' /\ ReadAsIs'
    <3>1. HourTypes /\ ReadAsIs
      BY DEF HoursInv
    <3> QED
      BY <1>1, <1>3, <2>2, <3>1 DEF HourTypes, ReadAsIs, Rows
  <2>4. \A j \in HoursInvoice : Marked(j)' = Marked(j)
    BY <1>3 DEF Marked, Rows
  <2> QED
    BY <1>1, <1>3, <2>3, <2>4, InvoicesStay DEF HoursInv
<1> QED
  BY <1>2, <1>3 DEF BillHours

LEMMA EntryKeeps ==
  ASSUME HoursInv, NEW p \in Person, NEW e \in TimeEntry, NEW draft \in TimeDraft,
         LogHours(p, e, draft) \/ CorrectHours(p, e, draft)
  PROVE  HoursInv'
<1>1. edits \in 0..MaxEdit /\ hours \in [TimeEntry -> {NoEntry, Deleted} \cup HourRow]
  BY DEF HoursInv, HourTypes
<1>2. CASE LogHours(p, e, draft)
  <2>1. PICK override \in {FALSE, Allowed(p, "TimesheetRateWrite")} : CreateTimeEntry(e, p, draft, override)
    BY <1>2 DEF LogHours
  <2>2. PICK rate \in ResolveBilling(p, draft, override) :
            hours[e] = NoEntry /\ hours' = [hours EXCEPT ![e] = HoursRow(p, draft, rate, NoInvoice)]
    BY <2>1 DEF CreateTimeEntry
  <2>3. /\ HoursRow(p, draft, rate, NoInvoice) \in HourRow
        /\ HoursRow(p, draft, rate, NoInvoice).invoice = NoInvoice
    BY <2>2, RowOfDraft
  <2>4. UNCHANGED << hoursLock, billing, invoiced, touched, edits >>
    BY <1>2 DEF LogHours
  <2> QED
    BY <1>1, <2>2, <2>3, <2>4, EntryWritten
<1>3. CASE CorrectHours(p, e, draft)
  <2>1. PICK override \in {FALSE, Allowed(p, "TimesheetRateWrite")} : UpdateTimeEntry(e, p, ~ Allowed(p, "TimesheetWriteAll"), draft, override)
    BY <1>3 DEF CorrectHours
  <2>2. PICK rate \in ResolveBilling(hours[e].by, draft, override) :
            /\ e \in Rows /\ Editable(e)
            /\ hours' = [hours EXCEPT ![e] = HoursRow(hours[e].by, draft, rate, NoInvoice)]
    BY <2>1 DEF UpdateTimeEntry
  <2>3. hours[e].by \in Person /\ hours[e].invoice = NoInvoice
    BY <1>1, <2>2, RowsAreRows DEF Rows, Editable
  <2>4. /\ HoursRow(hours[e].by, draft, rate, NoInvoice) \in HourRow
        /\ HoursRow(hours[e].by, draft, rate, NoInvoice).invoice = NoInvoice
    BY <2>2, <2>3, RowOfDraft
  <2>5. /\ touched \subseteq touched' /\ (~ BeingBilled(e) \/ e \in touched')
        /\ UNCHANGED << hoursLock, billing, invoiced >>
    BY <1>3 DEF CorrectHours
  <2>6. edits' \in 0..MaxEdit
    BY <1>1, <1>3, TimeDraftAssumption DEF CorrectHours
  <2> QED
    BY <2>2, <2>3, <2>4, <2>5, <2>6, EntryWritten
<1> QED
  BY <1>2, <1>3

LEMMA NextHoursInv == HoursInv /\ [NextTimesheet]_varsTimesheet => HoursInv'
<1> SUFFICES ASSUME HoursInv, [NextTimesheet]_varsTimesheet PROVE HoursInv'
  OBVIOUS
<1>1. edits \in 0..MaxEdit /\ hoursLock \in WorkDay \cup {0}
  BY DEF HoursInv, HourTypes
<1>2. ASSUME NEW p \in Person, NEW e \in TimeEntry, DeleteHours(p, e) PROVE HoursInv'
  <2>1. e \in Rows /\ hours[e].invoice = NoInvoice /\ hours' = [hours EXCEPT ![e] = Deleted]
    BY <1>2 DEF DeleteHours, DeleteTimeEntry, Editable
  <2>2. UNCHANGED << hoursLock, billing, invoiced, touched >> /\ edits' \in 0..MaxEdit
    BY <1>1, <1>2, TimeDraftAssumption DEF DeleteHours
  <2> QED
    BY <2>1, <2>2, EntryDeleted
<1>3. ASSUME NEW p \in Person, NEW day \in WorkDay \cup {0}, SetTimesheetLock(p, day) PROVE HoursInv'
  <2>1. UNCHANGED << hours, billing, invoiced, touched >> /\ hoursLock' \in WorkDay \cup {0} /\ edits' \in 0..MaxEdit
    BY <1>1, <1>3, TimeDraftAssumption DEF SetTimesheetLock
  <2> QED
    BY <2>1, HoursStay
<1>4. CASE UNCHANGED varsTimesheet
  BY <1>1, <1>4, HoursStay DEF varsTimesheet
<1> QED
  BY <1>2, <1>3, <1>4, EntryKeeps, BillKeeps, BillHoursKeeps DEF NextTimesheet

LEMMA HoursInvariant == SpecTimesheet => []HoursInv
  BY InitHoursInv, NextHoursInv, PTL DEF SpecTimesheet

(***************************************************************************)
(* The lines of an invoice of hours are those of the rows marked with it   *)
(* unless a row was corrected between reading and marking, for any number  *)
(* of people, entries, drafts, rates and invoices.                         *)
(***************************************************************************)
THEOREM HoursOnOneInvoice == SpecTimesheet => []HoursBilledOnce
<1>1. HoursInv => HoursBilledOnce
  BY DEF HoursInv, LinesOfRows, HoursBilledOnce, Snapshot
<1> QED
  BY <1>1, HoursInvariant, PTL

(***************************************************************************)
(* Quotes, orders and templates.  An order knows the quote it confirms, a  *)
(* quote that was accepted is not written any more, and an invoice is      *)
(* never changed: so what an order is billed is what was agreed.           *)
(***************************************************************************)
SaleRow(r) ==
    r = [kind |-> r.kind, status |-> r.status, lines |-> r.lines, quote |-> r.quote, invoice |-> r.invoice]

Sequenced == \E S : invoices \in Seq(S)

SaleTables ==
    /\ salesDocs = [d \in SalesDoc |-> salesDocs[d]] /\ \A d \in SalesDoc : SaleRow(salesDocs[d])
    /\ agreed = [d \in SalesDoc |-> agreed[d]]

\* Only an order has a quote or an invoice, and its invoice has its lines.
Kinds ==
    \A d \in SalesDoc : LET r == salesDocs[d] IN
        /\ r.kind = "none" => r = UnwrittenDoc
        /\ r.kind # "ordre" => r.quote = NoDoc
        /\ r.status = "fakturert" =>
              /\ r.kind = "ordre"
              /\ r.invoice \in DOMAIN invoices /\ invoices[r.invoice].lines = r.lines
        /\ r.status # "fakturert" => r.invoice = 0

Concluded(d) == salesDocs[d].kind = "tilbud" /\ salesDocs[d].status = "akseptert"

\* What was accepted stays as it was, and an order has it.
AgreedStays ==
    /\ \A d \in SalesDoc : Concluded(d) => agreed[d] = salesDocs[d].lines
    /\ \A o \in SalesDoc : salesDocs[o].quote # NoDoc =>
          /\ salesDocs[o].quote \in SalesDoc /\ Concluded(salesDocs[o].quote)
          /\ salesDocs[o].lines = agreed[salesDocs[o].quote]

\* No two orders share a quote or an invoice.
Own ==
    \A o, d \in SalesDoc : o # d =>
        /\ salesDocs[o].quote # NoDoc => salesDocs[d].quote # salesDocs[o].quote
        /\ salesDocs[o].invoice # 0 => salesDocs[d].invoice # salesDocs[o].invoice

DocsInv == Sequenced /\ SaleTables /\ Kinds /\ AgreedStays /\ Own

\* Invoices are added, never changed.
Grown == UNCHANGED invoices \/ \E x : invoices' = Append(invoices, x)

LEMMA InvoicesRemain ==
  ASSUME Sequenced, Grown
  PROVE  /\ Sequenced'
         /\ Len(invoices) \in Nat /\ DOMAIN invoices = 1..Len(invoices)
         /\ \A n \in DOMAIN invoices : n \in DOMAIN invoices' /\ invoices'[n] = invoices[n]
<1>1. PICK S : invoices \in Seq(S)
  BY DEF Sequenced
<1>2. CASE UNCHANGED invoices
  BY <1>1, <1>2 DEF Sequenced
<1>3. ASSUME NEW x, invoices' = Append(invoices, x)
      PROVE  /\ Sequenced'
             /\ \A n \in DOMAIN invoices : n \in DOMAIN invoices' /\ invoices'[n] = invoices[n]
  <2> DEFINE T == S \cup {x}
  <2>1. invoices \in Seq(T) /\ x \in T
    BY <1>1
  <2> HIDE DEF T
  <2>2. invoices' \in Seq(T)
    BY <1>3, <2>1
  <2> QED
    BY <1>1, <1>3, <2>2 DEF Sequenced
<1> QED
  BY <1>1, <1>2, <1>3 DEF Grown

LEMMA InvoiceIssued ==
  ASSUME Sequenced, NEW lines, NEW day, NEW currency, NEW rate, NEW of, NEW cash,
         CreateInvoiceIn(lines, day, currency, rate, of, cash)
  PROVE  /\ Grown
         /\ Len(invoices') = Len(invoices) + 1 /\ Len(invoices') \in Nat \ {0}
         /\ Len(invoices') \in DOMAIN invoices' /\ invoices'[Len(invoices')].lines = lines
         /\ Len(invoices') \notin DOMAIN invoices
<1>1. PICK S : invoices \in Seq(S)
  BY DEF Sequenced
<1>2. PICK x : invoices' = Append(invoices, x) /\ x.lines = lines
  <2> DEFINE x == [lines |-> lines, day |-> day, currency |-> currency, rate |-> rate,
                   gross |-> Gross(lines, day), nok |-> BuildVoucher(lines, day, currency, rate), of |-> of]
  <2>1. invoices' = Append(invoices, x)
    BY DEF CreateInvoiceIn
  <2>2. x.lines = lines
    OBVIOUS
  <2> HIDE DEF x
  <2> QED
    BY <2>1, <2>2
<1>3. /\ Len(invoices) \in Nat /\ Len(invoices') = Len(invoices) + 1
      /\ DOMAIN invoices = 1..Len(invoices) /\ DOMAIN invoices' = 1..(Len(invoices) + 1)
      /\ invoices'[Len(invoices) + 1] = x
  <2> DEFINE T == S \cup {x}
  <2>1. invoices \in Seq(T) /\ x \in T
    BY <1>1
  <2> HIDE DEF T
  <2> QED
    BY <1>2, <2>1
<1>4. PICK n : n = Len(invoices)
  OBVIOUS
<1>5. /\ n \in Nat /\ n + 1 \in 1..(n + 1) /\ n + 1 \notin 1..n /\ n + 1 \in Nat \ {0}
      /\ Len(invoices') = n + 1 /\ DOMAIN invoices = 1..n /\ DOMAIN invoices' = 1..(n + 1)
      /\ invoices'[n + 1].lines = lines
  BY <1>2, <1>3, <1>4
<1>6. Grown
  BY <1>2 DEF Grown
<1> QED
  BY <1>4, <1>5, <1>6

LEMMA DocsStay ==
  ASSUME DocsInv, Grown, UNCHANGED << salesDocs, agreed >>
  PROVE  DocsInv'
<1>1. /\ Sequenced'
      /\ \A n \in DOMAIN invoices : n \in DOMAIN invoices' /\ invoices'[n] = invoices[n]
  BY InvoicesRemain DEF DocsInv
<1>2. SaleTables' /\ AgreedStays' /\ Own'
  BY DEF DocsInv, SaleTables, AgreedStays, Own, Concluded
<1>3. Kinds'
  BY <1>1 DEF DocsInv, Kinds
<1> QED
  BY <1>1, <1>2, <1>3 DEF DocsInv

\* One document gets a row.  It was no quote that is accepted; it keeps its quote, has none,
\* or confirms an accepted one that nobody has confirmed; its invoice, if any, is new.
RowFits(d, R) ==
    /\ SaleRow(R) /\ R.kind # "none" /\ ~ Concluded(d)
    /\ R.kind # "ordre" => R.quote = NoDoc
    /\ \/ R.quote = NoDoc
       \/ R.quote = salesDocs[d].quote /\ R.lines = salesDocs[d].lines
       \/ /\ R.quote \in SalesDoc /\ Concluded(R.quote) /\ ~ Ordered(R.quote)
          /\ R.lines = salesDocs[R.quote].lines
    /\ R.status # "fakturert" => R.invoice = 0

LEMMA OneDoc ==
  ASSUME DocsInv, Grown, NEW d \in SalesDoc, NEW R, RowFits(d, R), NEW A,
         salesDocs' = [salesDocs EXCEPT ![d] = R],
         agreed' = [agreed EXCEPT ![d] = A],
         R.kind = "tilbud" /\ R.status = "akseptert" => A = R.lines,
         R.status = "fakturert" =>
            /\ R.kind = "ordre" /\ R.invoice \notin DOMAIN invoices
            /\ R.invoice \in DOMAIN invoices' /\ invoices'[R.invoice].lines = R.lines
  PROVE  DocsInv'
<1>1. /\ Sequenced' /\ 0 \notin DOMAIN invoices
      /\ \A n \in DOMAIN invoices : n \in DOMAIN invoices' /\ invoices'[n] = invoices[n]
  BY InvoicesRemain DEF DocsInv
<1>2. /\ salesDocs'[d] = R /\ \A e \in SalesDoc : e # d => salesDocs'[e] = salesDocs[e]
      /\ agreed'[d] = A /\ \A e \in SalesDoc : e # d => agreed'[e] = agreed[e]
      /\ salesDocs' = [e \in SalesDoc |-> salesDocs'[e]] /\ agreed' = [e \in SalesDoc |-> agreed'[e]]
  BY DEF DocsInv, SaleTables
<1>3. SaleTables'
  BY <1>2 DEF DocsInv, SaleTables, RowFits
<1>4. Kinds'
  BY <1>1, <1>2 DEF DocsInv, Kinds, RowFits
<1>5. ~ Concluded(d) /\ \A e \in SalesDoc : salesDocs[e].quote # NoDoc => salesDocs[e].quote \in SalesDoc \ {d}
  BY DEF DocsInv, AgreedStays, RowFits
<1>6. \A e \in SalesDoc : e # d => (Concluded(e)' <=> Concluded(e))
  BY <1>2 DEF Concluded
<1>7. AgreedStays'
  <2>1. \A e \in SalesDoc : Concluded(e)' => agreed'[e] = salesDocs'[e].lines
    BY <1>2, <1>6 DEF DocsInv, AgreedStays, Concluded
  <2>2. ASSUME NEW o \in SalesDoc, salesDocs'[o].quote # NoDoc
        PROVE  /\ salesDocs'[o].quote \in SalesDoc \ {d} /\ Concluded(salesDocs'[o].quote)
               /\ salesDocs'[o].lines = agreed[salesDocs'[o].quote]
    <3>1. CASE o # d
      BY <1>2, <1>5, <2>2, <3>1 DEF DocsInv, AgreedStays
    <3>2. CASE o = d
      <4>1. CASE R.quote = salesDocs[d].quote /\ R.lines = salesDocs[d].lines
        BY <1>2, <1>5, <2>2, <3>2, <4>1 DEF DocsInv, AgreedStays
      <4>2. CASE R.quote \in SalesDoc /\ Concluded(R.quote) /\ R.lines = salesDocs[R.quote].lines
        BY <1>2, <1>5, <2>2, <3>2, <4>2 DEF DocsInv, AgreedStays
      <4> QED
        BY <1>2, <2>2, <3>2, <4>1, <4>2 DEF RowFits
    <3> QED
      BY <3>1, <3>2
  <2>3. ASSUME NEW o \in SalesDoc, salesDocs'[o].quote # NoDoc
        PROVE  /\ salesDocs'[o].quote \in SalesDoc /\ Concluded(salesDocs[o].quote)'
               /\ salesDocs'[o].lines = agreed'[salesDocs'[o].quote]
    <3>1. PICK q \in SalesDoc : q = salesDocs'[o].quote /\ q # d
      BY <2>2, <2>3
    <3>2. Concluded(q)' /\ salesDocs'[o].lines = agreed'[q]
      BY <1>2, <1>6, <2>2, <2>3, <3>1
    <3> QED
      BY <3>1, <3>2 DEF Concluded
  <2> QED
    BY <2>1, <2>3 DEF AgreedStays
<1>8. Own'
  <2>1. ASSUME NEW e \in SalesDoc, e # d
        PROVE  /\ R.quote # NoDoc => salesDocs[e].quote # R.quote
               /\ salesDocs[e].quote # NoDoc => salesDocs[e].quote # R.quote
               /\ R.invoice # 0 => salesDocs[e].invoice # R.invoice
               /\ salesDocs[e].invoice # 0 => salesDocs[e].invoice # R.invoice
    <3>1. R.quote # NoDoc => salesDocs[e].quote # R.quote
      <4>1. CASE R.quote = salesDocs[d].quote
        BY <2>1, <4>1 DEF DocsInv, Own
      <4>2. CASE ~ Ordered(R.quote)
        BY <4>2 DEF Ordered
      <4> QED
        BY <4>1, <4>2 DEF RowFits
    <3>2. salesDocs[e].invoice # 0 => salesDocs[e].invoice \in DOMAIN invoices
      BY DEF DocsInv, Kinds
    <3>3. R.invoice # 0 => R.invoice \notin DOMAIN invoices
      BY DEF RowFits
    <3> QED
      BY <3>1, <3>2, <3>3
  <2> QED
    BY <1>2, <2>1 DEF DocsInv, Own
<1> QED
  BY <1>1, <1>3, <1>4, <1>7, <1>8 DEF DocsInv

\* Every operation on the documents fits.
LEMMA DocumentsKeep ==
  ASSUME DocsInv, NextSalesDocuments
  PROVE  DocsInv'
<1>1. ASSUME NEW p \in Person, NEW d \in SalesDoc, NEW kind \in {"tilbud", "ordre"},
             NEW lines, CreateSalesDocument(p, d, kind, lines)
      PROVE  DocsInv'
  <2>1. PICK L : L = ResolveLines(lines)
    OBVIOUS
  <2>2. PICK R : R = [kind |-> kind, status |-> FirstStatus(kind), lines |-> L, quote |-> NoDoc, invoice |-> 0]
    OBVIOUS
  <2>3. /\ salesDocs' = [salesDocs EXCEPT ![d] = R] /\ UNCHANGED << agreed, invoices >>
        /\ salesDocs[d] = UnwrittenDoc
    BY <1>1, <2>1, <2>2 DEF CreateSalesDocument, Written, varsInvoicing
  <2>4. FirstStatus(kind) = IF kind = "tilbud" THEN "utkast" ELSE "bekreftet"
    BY DEF FirstStatus
  <2>5. R.status \notin {"fakturert", "akseptert"}
    BY <2>2, <2>4
  <2>6. RowFits(d, R)
    BY <2>2, <2>3, <2>5 DEF RowFits, SaleRow, Concluded, UnwrittenDoc
  <2>7. agreed' = [agreed EXCEPT ![d] = agreed[d]] /\ Grown
    BY <2>3 DEF Grown, DocsInv, SaleTables
  <2> QED
    BY <2>3, <2>5, <2>6, <2>7, OneDoc
<1>2. ASSUME NEW p \in Person, NEW d \in SalesDoc, NEW lines, UpdateQuote(p, d, lines)
      PROVE  DocsInv'
  <2>1. PICK L : L = ResolveLines(lines)
    OBVIOUS
  <2>2. PICK R : R = [salesDocs[d] EXCEPT !.lines = L]
    OBVIOUS
  <2>3. /\ salesDocs' = [salesDocs EXCEPT ![d] = R] /\ UNCHANGED << agreed, invoices >>
        /\ QuoteEditable(d)
    BY <1>2, <2>1, <2>2 DEF UpdateQuote, varsInvoicing
  <2>4. SaleRow(R) /\ R.kind = "tilbud" /\ R.status = salesDocs[d].status
        /\ R.quote = salesDocs[d].quote /\ R.invoice = salesDocs[d].invoice
        /\ R.status \in {"utkast", "sendt"}
    BY <2>2, <2>3 DEF DocsInv, SaleTables, SaleRow, QuoteEditable
  <2>5. RowFits(d, R)
    BY <2>3, <2>4 DEF RowFits, Concluded, QuoteEditable, DocsInv, Kinds
  <2>6. agreed' = [agreed EXCEPT ![d] = agreed[d]] /\ Grown
    BY <2>3 DEF Grown, DocsInv, SaleTables
  <2> QED
    BY <2>3, <2>4, <2>5, <2>6, OneDoc
<1>3. ASSUME NEW p \in Person, NEW d \in SalesDoc, NEW status \in {"sendt", "akseptert", "avslatt"},
             SetQuoteStatus(p, d, status)
      PROVE  DocsInv'
  <2>1. PICK R : R = [salesDocs[d] EXCEPT !.status = status]
    OBVIOUS
  <2>2. PICK A : A = IF status = "akseptert" THEN salesDocs[d].lines ELSE agreed[d]
    OBVIOUS
  <2>3. /\ salesDocs' = [salesDocs EXCEPT ![d] = R] /\ UNCHANGED invoices /\ QuoteEditable(d)
        /\ agreed' = IF status = "akseptert" THEN [agreed EXCEPT ![d] = salesDocs[d].lines] ELSE agreed
    BY <1>3, <2>1 DEF SetQuoteStatus, varsInvoicing
  <2>4. SaleRow(R) /\ R.kind = "tilbud" /\ R.status = status /\ R.lines = salesDocs[d].lines
        /\ R.quote = salesDocs[d].quote /\ R.invoice = salesDocs[d].invoice
    BY <2>1, <2>3 DEF DocsInv, SaleTables, SaleRow, QuoteEditable
  <2>5. RowFits(d, R)
    BY <2>3, <2>4 DEF RowFits, Concluded, QuoteEditable, DocsInv, Kinds
  <2>6. agreed' = [agreed EXCEPT ![d] = A] /\ Grown
    BY <2>2, <2>3 DEF Grown, DocsInv, SaleTables
  <2> QED
    BY <2>2, <2>3, <2>4, <2>5, <2>6, OneDoc
<1>4. ASSUME NEW p \in Person, NEW d \in SalesDoc, NEW o \in SalesDoc, QuoteToOrder(p, d, o)
      PROVE  DocsInv'
  <2>1. PICK R : R = [kind |-> "ordre", status |-> FirstStatus("ordre"), lines |-> salesDocs[d].lines,
                      quote |-> d, invoice |-> 0]
    OBVIOUS
  <2>2. /\ salesDocs' = [salesDocs EXCEPT ![o] = R] /\ UNCHANGED << agreed, invoices >>
        /\ salesDocs[o] = UnwrittenDoc /\ Concluded(d) /\ ~ Ordered(d)
    BY <1>4, <2>1 DEF QuoteToOrder, Written, varsInvoicing, Concluded
  <2>3. R.status = "bekreftet"
    BY <2>1 DEF FirstStatus
  <2>4. RowFits(o, R)
    BY <2>1, <2>2, <2>3 DEF RowFits, SaleRow, Concluded, UnwrittenDoc
  <2>5. agreed' = [agreed EXCEPT ![o] = agreed[o]] /\ Grown
    BY <2>2 DEF Grown, DocsInv, SaleTables
  <2> QED
    BY <2>2, <2>3, <2>4, <2>5, OneDoc
<1>5. ASSUME NEW p \in Person, NEW o \in SalesDoc, NEW day \in Day, OrderToInvoice(p, o, day)
      PROVE  DocsInv'
  <2>1. PICK n : n = Len(invoices')
    OBVIOUS
  <2>2. PICK R : R = [salesDocs[o] EXCEPT !.status = "fakturert", !.invoice = n]
    OBVIOUS
  <2>3. /\ salesDocs' = [salesDocs EXCEPT ![o] = R] /\ UNCHANGED agreed
        /\ salesDocs[o].kind = "ordre"
        /\ CreateInvoiceIn(salesDocs[o].lines, day, "NOK", MicroNok, 0, FALSE)
    BY <1>5, <2>1, <2>2 DEF OrderToInvoice
  <2>4. /\ Grown /\ n \in DOMAIN invoices' /\ invoices'[n].lines = salesDocs[o].lines
        /\ n \notin DOMAIN invoices
    BY <2>1, <2>3, InvoiceIssued DEF DocsInv
  <2>5. SaleRow(R) /\ R.kind = "ordre" /\ R.status = "fakturert" /\ R.lines = salesDocs[o].lines
        /\ R.quote = salesDocs[o].quote /\ R.invoice = n
    <3> DEFINE r == salesDocs[o]
    <3>0. SaleRow(r)
      BY DEF DocsInv, SaleTables
    <3>1. PICK l, q : l = r.lines /\ q = r.quote
      OBVIOUS
    <3>2. R = [kind |-> "ordre", status |-> "fakturert", lines |-> l, quote |-> q, invoice |-> n]
      <4>1. R = [kind |-> r.kind, status |-> "fakturert", lines |-> r.lines, quote |-> r.quote, invoice |-> n]
        BY <2>2, <3>0 DEF SaleRow
      <4> QED
        BY <2>3, <3>1, <4>1
    <3>3. SaleRow(R)
      BY <3>2 DEF SaleRow
    <3> QED
      BY <2>3, <3>1, <3>2, <3>3
  <2>6. RowFits(o, R)
    BY <2>3, <2>5 DEF RowFits, Concluded
  <2>7. agreed' = [agreed EXCEPT ![o] = agreed[o]]
    BY <2>3 DEF DocsInv, SaleTables
  <2>8. ~ (R.kind = "tilbud" /\ R.status = "akseptert")
    BY <2>5
  <2>9. /\ R.kind = "ordre" /\ R.invoice \notin DOMAIN invoices
        /\ R.invoice \in DOMAIN invoices' /\ invoices'[R.invoice].lines = R.lines
    BY <2>4, <2>5
  <2>10. /\ salesDocs' = [salesDocs EXCEPT ![o] = R] /\ Grown
    BY <2>3, <2>4
  <2> QED
    BY <2>6, <2>7, <2>8, <2>9, <2>10, OneDoc
<1> QED
  BY <1>1, <1>2, <1>3, <1>4, <1>5 DEF NextSalesDocuments

(***************************************************************************)
(* Templates.  The next day of a template that nobody has changed is a     *)
(* whole number of intervals after its first.                              *)
(***************************************************************************)
LEMMA Quotient ==
  ASSUME NEW a \in Nat, NEW n \in Nat \ {0}
  PROVE  a % n = 0 <=> \E j \in Nat : a = n * j
<1>1. /\ a = n * (a \div n) + (a % n) /\ a \div n \in Nat
  BY Z3
<1>2. ASSUME NEW j \in Nat, a = n * j PROVE a % n = 0
  BY <1>2, Z3
<1>3. ASSUME a % n = 0 PROVE \E j \in Nat : a = n * j
  <2>1. n * (a \div n) \in Nat
    BY <1>1
  <2>2. a = n * (a \div n)
    BY <1>1, <1>3, <2>1
  <2> QED
    BY <1>1, <2>2
<1> QED
  BY <1>2, <1>3
LEMMA Apart ==
  ASSUME NEW n \in Nat \ {0}, NEW i \in Nat, NEW j \in Nat, i < j
  PROVE  n * j >= n * i + n
<1>1. PICK k \in Nat : j = i + 1 + k
  <2>1. j = i + 1 + (j - i - 1) /\ j - i - 1 \in Nat
    OBVIOUS
  <2> QED
    BY <2>1
<1>2. n * j = n * i + n + n * k /\ n * k >= 0 /\ n * i \in Int /\ n * k \in Int
  BY <1>1
<1> QED
  BY <1>2

\* The day j intervals of n days after s.
DayAfter(s, n, j) == s + n * j

\* The first day after those already due is the only one before the next.
LEMMA OneDayAPeriod ==
  ASSUME NEW s \in Nat, NEW n \in Nat \ {0}, NEW j \in Nat, NEW next, next = DayAfter(s, n, j)
  PROVE  /\ next \in Nat /\ next >= s /\ next + n = DayAfter(s, n, j + 1) /\ next + n \in Nat
         /\ (next - s) % n = 0
         /\ \A d \in Nat : d >= s /\ (d - s) % n = 0 /\ d < next + n => d <= next
<1>1. n * j \in Nat /\ n * (j + 1) = n * j + n
  OBVIOUS
<1>2. next \in Nat /\ next >= s /\ next - s = n * j /\ next - s \in Nat
  BY <1>1 DEF DayAfter
<1>3. (next - s) % n = 0
  BY <1>2, Quotient
<1>4. ASSUME NEW d \in Nat, d >= s, (d - s) % n = 0, d < next + n, d > next PROVE FALSE
  <2>0. d - s \in Nat
    BY <1>4
  <2>1. PICK i \in Nat : d - s = n * i
    BY <1>4, <2>0, Quotient
  <2>2. n * i \in Nat /\ n * j < n * i /\ n * i < n * j + n
    BY <1>1, <1>2, <1>4, <2>1
  <2>3. CASE i <= j
    <3>1. i = j \/ i < j
      BY <2>3
    <3> QED
      BY <1>1, <2>2, <3>1, Apart
  <2>4. CASE i > j
    BY <1>1, <2>2, <2>4, Apart
  <2> QED
    BY <2>3, <2>4
<1>5. next + n = DayAfter(s, n, j + 1) /\ next + n \in Nat
  BY <1>1, <1>2 DEF DayAfter
<1>6. \A d \in Nat : d >= s /\ (d - s) % n = 0 /\ d < next + n => d <= next
  <2> TAKE d \in Nat
  <2>1. ~ (d > next) => d <= next
    BY <1>2
  <2> QED
    BY <1>4, <2>1
<1> QED
  BY <1>2, <1>3, <1>5, <1>6

TemplateRow(r) ==
    r = [active |-> r.active, next |-> r.next, start |-> r.start, end |-> r.end,
         interval |-> r.interval, lines |-> r.lines]

TemplateTable ==
    templates = [t \in Template |-> templates[t]] /\ \A t \in Template : TemplateRow(templates[t])

\* Where the next day of a row is.
InStep(r) ==
    /\ r.start \in Day /\ r.interval \in Nat \ {0}
    /\ \E j \in Nat : r.next = DayAfter(r.start, r.interval, j)

OnPlan == \A t \in Template : t \notin replanned => InStep(templates[t]) /\ Billed(t) = Planned(t)

RunsOnce ==
    \A r, q \in templateRuns :
        (r.template = q.template /\ r.day = q.day /\ r.invoice # 0 /\ q.invoice # 0) => r = q

PlansInv == TemplateTable /\ OnPlan /\ RunsOnce

\* A row of the log with no invoice bills nothing; one with an invoice bills its day.
LEMMA RunLogged ==
  ASSUME NEW t \in Template, NEW day, NEW n, LogRun(t, day, n)
  PROVE  /\ \A u \in Template : u # t => Billed(u)' = Billed(u)
         /\ n = 0 => Billed(t)' = Billed(t)
         /\ n # 0 => Billed(t)' = Billed(t) \cup {day}
<1> DEFINE x == [template |-> t, day |-> day, invoice |-> n]
<1>1. templateRuns' = templateRuns \cup {x} /\ x.template = t /\ x.day = day /\ x.invoice = n
  BY DEF LogRun
<1> HIDE DEF x
<1>2. \A u \in Template : u # t => Billed(u)' = Billed(u)
  BY <1>1 DEF Billed
<1>3. n = 0 => Billed(t)' = Billed(t)
  BY <1>1 DEF Billed
<1>4. n # 0 => Billed(t)' = Billed(t) \cup {day}
  BY <1>1 DEF Billed
<1> QED
  BY <1>2, <1>3, <1>4

LEMMA RunsOnceKept ==
  ASSUME RunsOnce, NEW t, NEW day, NEW n, LogRun(t, day, n), n = 0 \/ ~ Generated(t, day)
  PROVE  RunsOnce'
<1> DEFINE x == [template |-> t, day |-> day, invoice |-> n]
<1>1. templateRuns' = templateRuns \cup {x} /\ x.template = t /\ x.day = day /\ x.invoice = n
  BY DEF LogRun
<1> HIDE DEF x
<1>2. n = 0 \/ \A r \in templateRuns : r.template = t /\ r.day = day => r.invoice = 0
  BY DEF Generated
<1> QED
  BY <1>1, <1>2 DEF RunsOnce

\* A plan that is written is at its first day; what was unwritten had billed nothing.
LEMMA PlanKeeps ==
  ASSUME PlansInv, NEW t \in Template, NEW next \in Day, NEW end, NEW interval \in Interval, NEW lines,
         PlanTemplate(t, next, end, interval, lines)
  PROVE  PlansInv'
<1>1. PICK R : R = [active |-> TRUE, next |-> next, start |-> next, end |-> end,
                    interval |-> interval, lines |-> lines]
  OBVIOUS
<1>2. /\ templates' = [templates EXCEPT ![t] = R] /\ templates[t] = NoTemplate
      /\ UNCHANGED << templateRuns, replanned >>
  BY <1>1 DEF PlanTemplate
<1>3. TemplateRow(R) /\ R.next = next /\ R.start = next /\ R.interval = interval
  BY <1>1 DEF TemplateRow
<1>4. /\ templates'[t] = R /\ \A u \in Template : u # t => templates'[u] = templates[u]
      /\ TemplateTable'
  BY <1>2, <1>3 DEF PlansInv, TemplateTable
<1>5. interval \in Nat \ {0} /\ next \in Nat /\ next = DayAfter(next, interval, 0)
  BY SalesAssumption, StockAssumption DEF Day, DayAfter
<1>6. InStep(R)
  BY <1>3, <1>5 DEF InStep
<1>7. Planned(t) = {} /\ Planned(t)' = {}
  <2>1. NoTemplate.next = 1 /\ NoTemplate.start = 1
    BY DEF NoTemplate
  <2>2. Planned(t) = {}
    BY <1>2, <2>1, StockAssumption DEF Planned, Day
  <2>3. Planned(t)' = {}
    BY <1>3, <1>4, StockAssumption DEF Planned, Day
  <2> QED
    BY <2>2, <2>3
<1>8. \A u \in Template : Billed(u)' = Billed(u)
  BY <1>2 DEF Billed
<1>9. \A u \in Template : u # t => Planned(u)' = Planned(u)
  BY <1>4 DEF Planned
<1>10. OnPlan'
  BY <1>2, <1>4, <1>6, <1>7, <1>8, <1>9 DEF PlansInv, OnPlan, InStep
<1> QED
  BY <1>2, <1>4, <1>10 DEF PlansInv, RunsOnce

LEMMA ReplanKeeps ==
  ASSUME PlansInv, NEW p, NEW t \in Template, NEW next, NEW end, NEW interval, NEW active, NEW lines,
         UpdateTemplate(p, t, next, end, interval, active, lines)
  PROVE  PlansInv'
<1>1. PICK L : L = ResolveLines(lines)
  OBVIOUS
<1>2. PICK R : R = [templates[t] EXCEPT !.next = next, !.end = end, !.interval = interval, !.active = active,
                                        !.lines = L]
  OBVIOUS
<1>3. /\ templates' = [templates EXCEPT ![t] = R] /\ replanned' = replanned \cup {t}
      /\ UNCHANGED templateRuns
  BY <1>1, <1>2 DEF UpdateTemplate
<1>4. TemplateRow(R)
  BY <1>2 DEF PlansInv, TemplateTable, TemplateRow
<1>5. /\ \A u \in Template : u # t => templates'[u] = templates[u]
      /\ TemplateTable'
  BY <1>3, <1>4 DEF PlansInv, TemplateTable
<1>6. OnPlan'
  BY <1>3, <1>5 DEF PlansInv, OnPlan, InStep, Billed, Planned
<1> QED
  BY <1>3, <1>5, <1>6 DEF PlansInv, RunsOnce

\* A period that is billed is the one that was due, and the template moves on by one.
LEMMA GenerateKeeps ==
  ASSUME Sequenced, PlansInv, NEW t \in Template, GenerateOne(t)
  PROVE  PlansInv' /\ Grown
<1>1. PICK day : day = templates[t].next
  OBVIOUS
<1>2. day <= Today /\ UNCHANGED replanned
  BY <1>1 DEF GenerateOne, DueTemplate
<1>3. CASE /\ ~ Generated(t, day) /\ Issued(t) /\ LogRun(t, day, Len(invoices'))
           /\ templates' = [templates EXCEPT ![t].next = @ + templates[t].interval]
  <2>1. PICK n : n = Len(invoices')
    OBVIOUS
  <2>2. Grown /\ n \in Nat \ {0}
    BY <1>3, <2>1, InvoiceIssued DEF Issued
  <2>3. PICK R : R = [templates[t] EXCEPT !.next = templates[t].next + templates[t].interval]
    OBVIOUS
  <2>4. templates' = [templates EXCEPT ![t] = R]
    BY <1>3, <2>3
  <2>5. /\ TemplateRow(R) /\ R.next = day + templates[t].interval
        /\ R.start = templates[t].start /\ R.interval = templates[t].interval
    BY <1>1, <2>3 DEF PlansInv, TemplateTable, TemplateRow
  <2>6. /\ templates'[t] = R /\ \A u \in Template : u # t => templates'[u] = templates[u]
        /\ TemplateTable'
    BY <2>4, <2>5 DEF PlansInv, TemplateTable
  <2>7. /\ \A u \in Template : u # t => Billed(u)' = Billed(u)
        /\ Billed(t)' = Billed(t) \cup {day}
    BY <1>3, <2>1, <2>2, RunLogged
  <2>8. \A u \in Template : u # t => Planned(u)' = Planned(u)
    BY <2>6 DEF Planned
  <2>9. ASSUME t \notin replanned PROVE InStep(R) /\ Planned(t)' = Planned(t) \cup {day}
    <3>1. PICK s, i : s = templates[t].start /\ i = templates[t].interval
      OBVIOUS
    <3>2. PICK j \in Nat : day = DayAfter(s, i, j)
      BY <1>1, <2>9, <3>1 DEF PlansInv, OnPlan, InStep
    <3>3. s \in Day /\ i \in Nat \ {0} /\ s \in Nat /\ s >= 1
      BY <2>9, <3>1, StockAssumption DEF PlansInv, OnPlan, InStep, Day
    <3>4. /\ day \in Nat /\ day >= s /\ day + i = DayAfter(s, i, j + 1) /\ (day - s) % i = 0
          /\ \A d \in Nat : d >= s /\ (d - s) % i = 0 /\ d < day + i => d <= day
      BY <3>2, <3>3, OneDayAPeriod
    <3>5. InStep(R)
      BY <2>5, <3>1, <3>3, <3>4 DEF InStep
    <3>6. day \in Day /\ Day \subseteq Nat
      BY <1>2, <3>3, <3>4, SalesAssumption, StockAssumption DEF Day
    <3>7. Planned(t) = {d \in Day : d >= s /\ d < day /\ (d - s) % i = 0}
      BY <1>1, <3>1 DEF Planned
    <3>8. Planned(t)' = {d \in Day : d >= s /\ d < day + i /\ (d - s) % i = 0}
      BY <2>5, <2>6, <3>1 DEF Planned
    <3>9. \A d \in Day : (d >= s /\ d < day + i /\ (d - s) % i = 0)
                          <=> (d >= s /\ d < day /\ (d - s) % i = 0) \/ d = day
      <4> TAKE d \in Day
      <4>1. d \in Nat /\ (d < day + i /\ d >= s /\ (d - s) % i = 0 => d <= day)
        BY <3>4, <3>6
      <4>2. d < day \/ d = day => d < day + i
        BY <3>3, <3>4, <4>1
      <4>3. d <= day => d < day \/ d = day
        BY <3>4, <4>1
      <4> QED
        BY <3>4, <4>1, <4>2, <4>3
    <3> QED
      BY <3>5, <3>6, <3>7, <3>8, <3>9
  <2>10. OnPlan'
    BY <1>2, <2>6, <2>7, <2>8, <2>9 DEF PlansInv, OnPlan, InStep
  <2>11. RunsOnce'
    BY <1>3, <2>1, RunsOnceKept DEF PlansInv
  <2> QED
    BY <2>2, <2>6, <2>10, <2>11 DEF PlansInv
<1>4. CASE NoInvoiceIssued /\ LogRun(t, day, 0) /\ UNCHANGED templates
  <2>1. \A u \in Template : Billed(u)' = Billed(u)
    BY <1>4, RunLogged
  <2>2. \A u \in Template : Planned(u)' = Planned(u)
    BY <1>4 DEF Planned
  <2>3. OnPlan' /\ TemplateTable'
    BY <1>2, <1>4, <2>1, <2>2 DEF PlansInv, OnPlan, InStep, TemplateTable
  <2>4. RunsOnce'
    BY <1>4, RunsOnceKept DEF PlansInv
  <2> QED
    BY <1>4, <2>3, <2>4 DEF PlansInv, NoInvoiceIssued, Grown
<1> QED
  BY <1>1, <1>3, <1>4 DEF GenerateOne

-----------------------------------------------------------------------------
SalesInv == DocsInv /\ PlansInv

LEMMA InitSalesInv == InitInvoicing /\ InitSales => SalesInv
<1> SUFFICES ASSUME InitInvoicing, InitSales PROVE SalesInv
  OBVIOUS
<1>1. /\ invoices = << >> /\ salesDocs = [d \in SalesDoc |-> UnwrittenDoc]
      /\ agreed = [d \in SalesDoc |-> << >>] /\ templates = [t \in Template |-> NoTemplate]
      /\ templateRuns = {}
  BY DEF InitInvoicing, InitSales
<1>2. /\ SaleRow(UnwrittenDoc) /\ UnwrittenDoc.kind = "none" /\ UnwrittenDoc.status = "none"
      /\ UnwrittenDoc.quote = NoDoc /\ UnwrittenDoc.invoice = 0
  BY DEF SaleRow, UnwrittenDoc
<1>3. DocsInv
  <2>1. Sequenced
    <3>1. invoices \in Seq({})
      BY <1>1
    <3> QED
      BY <3>1 DEF Sequenced
  <2> QED
    BY <1>1, <1>2, <2>1 DEF DocsInv, SaleTables, Kinds, AgreedStays, Own, Concluded
<1>4. /\ TemplateRow(NoTemplate) /\ NoTemplate.start = 1 /\ NoTemplate.next = 1
      /\ NoTemplate.interval = 1
  BY DEF TemplateRow, NoTemplate
<1>5. InStep(NoTemplate)
  <2>1. 1 \in Day /\ 1 = DayAfter(1, 1, 0)
    BY StockAssumption DEF Day, DayAfter
  <2> QED
    BY <1>4, <2>1 DEF InStep
<1>6. ASSUME NEW t \in Template PROVE Billed(t) = {} /\ Planned(t) = {}
  BY <1>1, <1>4, StockAssumption DEF Billed, Planned, Day
<1>7. PlansInv
  BY <1>1, <1>4, <1>5, <1>6 DEF PlansInv, TemplateTable, OnPlan, RunsOnce
<1> QED
  BY <1>3, <1>7 DEF SalesInv

LEMMA PlansStay ==
  ASSUME PlansInv, UNCHANGED << templates, templateRuns, replanned >>
  PROVE  PlansInv'
BY DEF PlansInv, TemplateTable, OnPlan, InStep, Billed, Planned, RunsOnce

\* Invoices of other kinds are only added too.
LEMMA OtherInvoicesGrow ==
  ASSUME Sequenced, NextInvoicing
  PROVE  Grown
<1>1. ASSUME NEW p, NEW draft, NEW day, NEW cash, Issue(p, draft, day, cash)
      PROVE  Grown
  BY <1>1, InvoiceIssued DEF Issue
<1>2. ASSUME NEW p, NEW today, IssueCredit(p, today) PROVE Grown
  BY <1>2, InvoiceIssued DEF IssueCredit, Grown
<1>3. ASSUME NEW n, NEW amount, MatchPayment(n, amount) PROVE Grown
  BY <1>3 DEF MatchPayment, Grown
<1>4. ASSUME NEW p, NEW n, StartCredit(p, n) PROVE Grown
  BY <1>4 DEF StartCredit, Grown
<1>5. ASSUME NEW p, MatchCredit(p) PROVE Grown
  BY <1>5 DEF MatchCredit, Grown
<1> QED
  BY <1>1, <1>2, <1>3, <1>4, <1>5 DEF NextInvoicing, CreateInvoice, CreateCashInvoice

LEMMA NextSalesInv == SalesInv /\ [NextSalesDesk]_<< varsStock, varsInvoicing, varsSales >> => SalesInv'
<1> SUFFICES ASSUME SalesInv, [NextSalesDesk]_<< varsStock, varsInvoicing, varsSales >>
             PROVE  SalesInv'
  OBVIOUS
<1> USE DEF SalesInv
<1>0. Sequenced
  BY DEF DocsInv
<1>1. CASE NextSalesDocuments
  <2>1. UNCHANGED << templates, templateRuns, replanned >>
    BY <1>1 DEF NextSalesDocuments, CreateSalesDocument, UpdateQuote, SetQuoteStatus, QuoteToOrder, OrderToInvoice
  <2> QED
    BY <1>1, <2>1, DocumentsKeep, PlansStay
<1>2. ASSUME NEW p \in Person, NEW t \in Template, NEW next \in Day, NEW interval \in Interval,
             \/ \E n \in DOMAIN invoices : CreateTemplateFromInvoice(p, t, n, next, interval)
             \/ \E end \in Day, lines \in SalesLines : CreateTemplate(p, t, next, end, interval, lines)
      PROVE  SalesInv'
  <2>1. PICK end : \E lines : PlanTemplate(t, next, end, interval, lines)
    BY <1>2 DEF CreateTemplateFromInvoice, CreateTemplate
  <2>2. PICK lines : PlanTemplate(t, next, end, interval, lines)
    BY <2>1
  <2>3. PlansInv'
    BY <2>2, PlanKeeps
  <2>4. UNCHANGED << salesDocs, agreed, invoices >>
    BY <2>2 DEF PlanTemplate, varsInvoicing
  <2> QED
    BY <2>3, <2>4, DocsStay DEF Grown
<1>3. ASSUME NEW p, NEW t \in Template, NEW next, NEW interval, NEW end, NEW lines, NEW active,
             UpdateTemplate(p, t, next, end, interval, active, lines)
      PROVE  SalesInv'
  <2>1. UNCHANGED << salesDocs, agreed, invoices >>
    BY <1>3 DEF UpdateTemplate, varsInvoicing
  <2> QED
    BY <1>3, <2>1, ReplanKeeps, DocsStay DEF Grown
<1>4. ASSUME NEW t \in Template, GenerateOne(t) PROVE SalesInv'
  <2>1. UNCHANGED << salesDocs, agreed >>
    BY <1>4 DEF GenerateOne
  <2> QED
    BY <1>0, <1>4, <2>1, GenerateKeeps, DocsStay
<1>5. CASE NextTemplates
  BY <1>2, <1>3, <1>4, <1>5 DEF NextTemplates, GenerateNow, GenerateDue
<1>6. CASE NextInvoicing /\ UNCHANGED varsSales
  BY <1>0, <1>6, OtherInvoicesGrow, DocsStay, PlansStay DEF varsSales
<1>7. CASE UNCHANGED << varsInvoicing, varsSales >>
  BY <1>7, DocsStay, PlansStay DEF Grown, varsInvoicing, varsSales
<1> QED
  BY <1>1, <1>5, <1>6, <1>7 DEF NextSalesDesk

LEMMA SalesSay == SalesInv => AgreedIsBilled
<1> SUFFICES ASSUME SalesInv PROVE AgreedIsBilled
  OBVIOUS
<1>1. ASSUME NEW o \in Orders
      PROVE  /\ salesDocs[o].quote # NoDoc => salesDocs[o].lines = agreed[salesDocs[o].quote]
             /\ salesDocs[o].status = "fakturert" =>
                   /\ invoices[salesDocs[o].invoice].lines = salesDocs[o].lines
                   /\ \A d \in Orders \ {o} :
                         /\ salesDocs[d].invoice # salesDocs[o].invoice
                         /\ salesDocs[o].quote # NoDoc => salesDocs[d].quote # salesDocs[o].quote
  <2>1. o \in SalesDoc /\ Orders \subseteq SalesDoc
    BY DEF Orders
  <2>2. salesDocs[o].status = "fakturert" => salesDocs[o].invoice # 0
    BY <2>1, InvoicesRemain DEF SalesInv, DocsInv, Kinds, Sequenced
  <2> QED
    BY <2>1, <2>2 DEF SalesInv, DocsInv, Kinds, AgreedStays, Own
<1>2. /\ \A t \in Template : t \notin replanned => Billed(t) = Planned(t)
      /\ \A t \in Template : \A r, q \in templateRuns :
            (r.template = t /\ q.template = t /\ r.day = q.day /\ r.invoice # 0 /\ q.invoice # 0) => r = q
  BY DEF SalesInv, PlansInv, OnPlan, RunsOnce
<1> QED
  BY <1>1, <1>2 DEF AgreedIsBilled

\* The invariant holds as long as documents, templates and invoices are worked with.
THEOREM SalesInvariant == SpecSalesDesk => []SalesInv
<1>1. InitStock /\ InitInvoicing /\ InitSales => SalesInv
  BY InitSalesInv
<1> QED
  BY <1>1, NextSalesInv, PTL DEF SpecSalesDesk

\* An order is billed the lines its customer accepted, by an invoice of its own, and a template
\* bills each of its periods once, however many people write, run and credit at a time.
THEOREM BilledAsAgreed == SpecSalesDesk => []AgreedIsBilled
BY SalesInvariant, SalesSay, PTL

-----------------------------------------------------------------------------
(***************************************************************************)
(* Credit notes.  Rounding is the same up and down and a total has the     *)
(* sign of its parts, so that a note on lines that take nothing off is no  *)
(* claim, whatever the rates of the day are.                               *)
(***************************************************************************)

\* Upwards from zero, or downwards.
Toward(up, x) == IF up THEN x >= 0 ELSE x <= 0

LEMMA RoundsToward ==
  ASSUME NEW n \in Int, NEW d \in Nat \ {0}
  PROVE  /\ RoundDiv(n, d) \in Int
         /\ RoundDiv(-n, d) = -RoundDiv(n, d)
         /\ \A up : Toward(up, n) => Toward(up, RoundDiv(n, d))
<1>1. Magnitude(n) \in Nat /\ Magnitude(-n) = Magnitude(n) /\ d \div 2 \in Nat
  BY DEF Magnitude
<1> DEFINE m == (Magnitude(n) + d \div 2) \div d
<1>2. m \in Nat
  BY <1>1
<1>3. /\ Signum(n) \in {-1, 0, 1} /\ Signum(-n) = -Signum(n)
      /\ n >= 0 => Signum(n) \in {0, 1}
      /\ n <= 0 => Signum(n) \in {0, -1}
  BY DEF Signum
<1>4. RoundDiv(n, d) = Signum(n) * m /\ RoundDiv(-n, d) = Signum(-n) * m
  BY <1>1 DEF RoundDiv
<1> HIDE DEF m
<1>5. RoundDiv(n, d) \in Int /\ RoundDiv(-n, d) = -RoundDiv(n, d)
  BY <1>2, <1>3, <1>4
<1>6. n >= 0 => RoundDiv(n, d) >= 0
  BY <1>2, <1>3, <1>4
<1>7. n <= 0 => RoundDiv(n, d) <= 0
  BY <1>2, <1>3, <1>4
<1> QED
  BY <1>5, <1>6, <1>7 DEF Toward

\* A share of an amount, and the amount in kroner.
LEMMA SharesToward ==
  ASSUME NEW n \in Int, NEW rate \in Nat
  PROVE  /\ VatOfBase(n, rate) \in Int /\ NokOre(n, rate) \in Int
         /\ \A up : Toward(up, n) => Toward(up, VatOfBase(n, rate)) /\ Toward(up, NokOre(n, rate))
<1>1. n * rate \in Int /\ \A up : Toward(up, n) => Toward(up, n * rate)
  <2>1. n >= 0 => n * rate >= 0
    OBVIOUS
  <2>2. n <= 0 => n * rate <= 0
    OBVIOUS
  <2> QED
    BY <2>1, <2>2 DEF Toward
<1>2. BasisPoints \in Nat \ {0} /\ MicroNok \in Nat \ {0}
  BY DEF BasisPoints, MicroNok
<1> QED
  BY <1>1, <1>2, RoundsToward DEF VatOfBase, NokOre

LEMMA TotalsToward ==
  ASSUME NEW q, IsFiniteSet(DOMAIN q), \A i \in DOMAIN q : q[i] \in Int
  PROVE  /\ Total(q) \in Int
         /\ \A up : (\A i \in DOMAIN q : Toward(up, q[i])) => Toward(up, Total(q))
<1> DEFINE S == DOMAIN q
           neg == [i \in S |-> -q[i]]
<1>1. Numbers(q, S) /\ Total(q) = SumOver(q, S)
  BY LinesSummed DEF Numbers
<1>2. Total(q) \in Int
  BY <1>1, TotalIsNumber
<1>3. (\A i \in S : q[i] >= 0) => Total(q) >= 0
  <2>1. (\A i \in S : q[i] >= 0) => \A i \in S : q[i] \in Nat
    OBVIOUS
  <2> QED
    BY <1>1, <2>1, TotalHolds
<1>4. (\A i \in S : q[i] <= 0) => Total(q) <= 0
  <2> SUFFICES ASSUME \A i \in S : q[i] <= 0 PROVE Total(q) <= 0
    OBVIOUS
  <2>1. \A i \in S : neg[i] = q[i] * (-1) /\ neg[i] \in Nat
    OBVIOUS
  <2> HIDE DEF neg
  <2>2. SumOver(neg, S) = SumOver(q, S) * (-1)
    BY <1>1, <2>1, TotalScaled
  <2>3. SumOver(neg, S) \in Nat
    BY <2>1, TotalHolds
  <2> QED
    BY <1>1, <1>2, <2>2, <2>3
<1> QED
  BY <1>2, <1>3, <1>4 DEF Toward

DocLines(lines) == lines \in Seq(DocLine)

\* All of the lines add, or none does.
AllToward(up, lines) == \A i \in DOMAIN lines : Toward(up, LineNet(lines[i]))

LEMMA LineIsWhole ==
  ASSUME NEW line \in DocLine
  PROVE  LineNet(line) \in Int
<1>1. line.quantity * line.price \in Int /\ 1000 \in Nat \ {0}
  BY DEF DocLine
<1> QED
  BY <1>1, RoundsToward DEF LineNet

LEMMA LinePlaces ==
  ASSUME NEW lines, DocLines(lines)
  PROVE  /\ IsFiniteSet(DOMAIN lines)
         /\ \A i \in DOMAIN lines : lines[i] \in DocLine /\ LineNet(lines[i]) \in Int
<1>1. /\ Len(lines) \in Nat /\ DOMAIN lines = 1..Len(lines)
      /\ \A i \in DOMAIN lines : lines[i] \in DocLine
  BY DEF DocLines
<1> QED
  BY <1>1, LineIsWhole, FS_Interval

LEMMA RatesAreShares ==
  ASSUME NEW code, NEW day, LineRates(code, day) # {}
  PROVE  (CHOOSE r \in LineRates(code, day) : TRUE) \in Nat
<1>1. LineRates(code, day) \subseteq Nat
  BY InvoicingAssumption DEF LineRates, RowsOf, InForce
<1>2. (CHOOSE r \in LineRates(code, day) : TRUE) \in LineRates(code, day)
  OBVIOUS
<1> QED
  BY <1>1, <1>2

\* What an invoice and its claim come to, and which way.
LEMMA ClaimToward ==
  ASSUME NEW lines, DocLines(lines), NEW day, Invoiceable(lines, day), NEW rate \in Nat, NEW currency
  PROVE  LET gross == Gross(lines, day)
             nok == BuildVoucher(lines, day, currency, rate)
         IN /\ gross \in Int /\ nok \in Int
            /\ currency = "NOK" => nok = gross
            /\ \A up : AllToward(up, lines) => Toward(up, gross) /\ Toward(up, nok)
<1> DEFINE nets == [i \in DOMAIN lines |-> LineNet(lines[i])]
           vats == [i \in DOMAIN lines |-> LineVat(lines[i], day)]
           noks == [i \in DOMAIN lines |-> NokOre(LineNet(lines[i]), rate)]
<1>1. /\ IsFiniteSet(DOMAIN lines)
      /\ \A i \in DOMAIN lines : LineNet(lines[i]) \in Int
  BY LinePlaces
<1>2. ASSUME NEW i \in DOMAIN lines
      PROVE  /\ nets[i] \in Int /\ vats[i] \in Int /\ noks[i] \in Int
             /\ \A up : Toward(up, LineNet(lines[i])) =>
                   Toward(up, nets[i]) /\ Toward(up, vats[i]) /\ Toward(up, noks[i])
  <2> DEFINE r == CHOOSE r \in LineRates(lines[i].code, day) : TRUE
  <2>1. r \in Nat
    BY RatesAreShares DEF Invoiceable
  <2>2. nets[i] = LineNet(lines[i]) /\ noks[i] = NokOre(LineNet(lines[i]), rate)
    OBVIOUS
  <2>3. vats[i] = VatOfBase(LineNet(lines[i]), r)
    BY DEF LineVat
  <2> HIDE DEF r, nets, vats, noks
  <2> QED
    BY <1>1, <2>1, <2>2, <2>3, SharesToward
<1>3. DOMAIN nets = DOMAIN lines /\ DOMAIN vats = DOMAIN lines /\ DOMAIN noks = DOMAIN lines
  OBVIOUS
<1>4. /\ Net(lines) = Total(nets) /\ Vat(lines, day) = Total(vats)
      /\ Gross(lines, day) = Net(lines) + Vat(lines, day)
      /\ NokGross(lines, day, rate) = NokOre(Vat(lines, day), rate) + Total(noks)
  BY DEF Net, Vat, Gross, NokGross
<1> HIDE DEF nets, vats, noks
<1>5. /\ Total(nets) \in Int /\ Total(vats) \in Int /\ Total(noks) \in Int
      /\ \A up : AllToward(up, lines) =>
            Toward(up, Total(nets)) /\ Toward(up, Total(vats)) /\ Toward(up, Total(noks))
  <2>1. \A q \in {nets, vats, noks} : IsFiniteSet(DOMAIN q) /\ \A i \in DOMAIN q : q[i] \in Int
    BY <1>1, <1>2, <1>3
  <2>2. ASSUME NEW up, AllToward(up, lines)
        PROVE  \A q \in {nets, vats, noks} : \A i \in DOMAIN q : Toward(up, q[i])
    BY <1>2, <1>3, <2>2 DEF AllToward
  <2> QED
    BY <2>1, <2>2, TotalsToward
<1>6. /\ NokOre(Vat(lines, day), rate) \in Int
      /\ \A up : AllToward(up, lines) => Toward(up, NokOre(Vat(lines, day), rate))
  BY <1>4, <1>5, SharesToward
<1>7. ASSUME NEW up, NEW x \in Int, NEW y \in Int, Toward(up, x), Toward(up, y)
      PROVE  Toward(up, x + y)
  BY <1>7 DEF Toward
<1>8. /\ Gross(lines, day) \in Int /\ NokGross(lines, day, rate) \in Int
      /\ \A up : AllToward(up, lines) => Toward(up, Gross(lines, day)) /\ Toward(up, NokGross(lines, day, rate))
  BY <1>4, <1>5, <1>6, <1>7
<1> QED
  BY <1>8 DEF BuildVoucher

\* The lines of a note are those of the invoice, the other way.
LEMMA NegatedToward ==
  ASSUME NEW lines, DocLines(lines)
  PROVE  /\ DocLines(Negated(lines))
         /\ ~ Discounted(lines) => AllToward(TRUE, lines) /\ AllToward(FALSE, Negated(lines))
<1>1. /\ Len(lines) \in Nat /\ DOMAIN lines = 1..Len(lines)
      /\ \A i \in DOMAIN lines : lines[i] \in DocLine /\ LineNet(lines[i]) \in Int
  BY LinePlaces DEF DocLines
<1>2. ASSUME NEW i \in DOMAIN lines
      PROVE  Negated(lines)[i] \in DocLine /\ LineNet(Negated(lines)[i]) = -LineNet(lines[i])
  <2> DEFINE l == lines[i]
             k == [l EXCEPT !.quantity = -@]
  <2>1. l \in DocLine /\ Negated(lines)[i] = k
    BY <1>1 DEF Negated
  <2>2. k \in DocLine /\ k.quantity = -l.quantity /\ k.price = l.price
    BY <2>1 DEF DocLine
  <2>3. l.quantity \in Int /\ l.price \in Int
    BY <2>1 DEF DocLine
  <2> HIDE DEF l, k
  <2>4. l.quantity * l.price \in Int /\ k.quantity * k.price = -(l.quantity * l.price)
    BY <2>2, <2>3
  <2>5. LineNet(k) = -LineNet(l)
    BY <2>4, RoundsToward DEF LineNet
  <2> QED
    BY <2>1, <2>2, <2>5 DEF l
<1>3. DOMAIN Negated(lines) = DOMAIN lines /\ Negated(lines) = [i \in 1..Len(lines) |-> Negated(lines)[i]]
  BY <1>1 DEF Negated
<1>4. DocLines(Negated(lines))
  BY <1>1, <1>2, <1>3 DEF DocLines
<1> QED
  BY <1>1, <1>2, <1>3, <1>4 DEF Discounted, AllToward, Toward

-----------------------------------------------------------------------------
(***************************************************************************)
(* The invariant: what an invoice says, which way it came out, what is     *)
(* open of it, what a request that credits has seen, and who asked.        *)
(***************************************************************************)
InvoiceTypes ==
    /\ Sequenced
    /\ open \in Seq(Int) /\ Len(open) = Len(invoices)
    /\ \A n \in DOMAIN invoices : LET r == invoices[n] IN
          /\ DocLines(r.lines) /\ r.rate \in Nat /\ r.gross \in Int /\ r.nok \in Int /\ r.of \in Nat
          /\ r.currency = "NOK" => r.nok = r.gross

IsClaim(r) == r.gross > 0 /\ (~ Discounted(r.lines) => r.nok >= 0)

IsNoteOn(n, m) ==
    /\ n \in DOMAIN invoices /\ invoices[n].of = 0
    /\ invoices[m].currency = invoices[n].currency
    /\ TakesBack(n, m) => invoices[m].gross <= 0 /\ invoices[m].nok <= 0

ComesOut ==
    /\ \A n \in DOMAIN invoices : invoices[n].of = 0 => IsClaim(invoices[n])
    /\ \A n, m : m \in DOMAIN invoices /\ invoices[m].of = n /\ n # 0 => IsNoteOn(n, m)

OpenWithin ==
    \A n \in DOMAIN invoices :
        /\ invoices[n].nok >= 0 => open[n] >= 0
        /\ invoices[n].nok <= 0 => open[n] <= 0

CreditRequest == [pc : {"idle", "issue", "match"}, of : Nat, note : Nat]

Requests ==
    /\ crediting \in [Person -> CreditRequest]
    /\ \A p \in Person : LET c == crediting[p] IN
          /\ c.pc = "idle" => c.of = 0
          /\ c.pc # "match" => c.note = 0
          /\ c.pc # "idle" => c.of \in DOMAIN invoices /\ invoices[c.of].of = 0
          /\ c.pc = "match" =>
                /\ c.note \in DOMAIN invoices /\ invoices[c.note].of = c.of
                /\ invoices[c.note].nok <= 0 => open[c.note] = invoices[c.note].nok
    /\ \A p, q \in Person : (p # q /\ crediting[p].pc = "match") => crediting[q].note # crediting[p].note

Asks(p, n) == crediting[p].pc = "issue" /\ crediting[p].of = n

\* Of an invoice that no two requests met on there is one who asks, or one note.
OneNote ==
    \A n \in DOMAIN invoices \ creditRaced :
        /\ \A p, q \in Person : Asks(p, n) /\ Asks(q, n) => p = q
        /\ \A p \in Person : Asks(p, n) => ~ AlreadyCredited(n)
        /\ \A m, k \in NotesOf(n) : m = k

OneIsClosed ==
    \A n, m \in DOMAIN invoices :
        (invoices[m].of = n /\ TakesBack(n, m) /\ invoices[n].currency = "NOK"
             /\ m \notin unmatched /\ ~ UnderWay(m)) => (open[n] = 0 \/ open[m] = 0)

CreditInv ==
    InvoiceTypes /\ ComesOut /\ OpenWithin /\ Requests /\ OneNote /\ OneIsClosed

\* A row is added, the others stay.
Grows(no, r, o) ==
    /\ no \in Nat \ {0} /\ no \notin DOMAIN invoices
    /\ DOMAIN invoices' = DOMAIN invoices \cup {no}
    /\ \A k \in DOMAIN invoices : invoices'[k] = invoices[k] /\ open'[k] = open[k]
    /\ invoices'[no] = r /\ open'[no] = o

\* The row of an invoice, and what is open of it.
Issues(no, r, o, lines, day, currency, rate, of, cash) ==
    /\ no = Len(invoices') /\ Grows(no, r, o)
    /\ r.lines = lines /\ r.currency = currency /\ r.rate = rate /\ r.of = of
    /\ r.gross = Gross(lines, day) /\ r.nok = BuildVoucher(lines, day, currency, rate)
    /\ of = 0 => r.gross > 0
    /\ o = IF cash THEN 0 ELSE r.nok

LEMMA InvoiceAppended ==
  ASSUME InvoiceTypes, NEW lines, DocLines(lines), NEW day, NEW currency, NEW rate \in Nat,
         NEW of \in Nat, NEW cash \in BOOLEAN, CreateInvoiceIn(lines, day, currency, rate, of, cash)
  PROVE  /\ InvoiceTypes'
         /\ \E no, r, o : Issues(no, r, o, lines, day, currency, rate, of, cash)
<1> DEFINE nok == BuildVoucher(lines, day, currency, rate)
           r == [lines |-> lines, day |-> day, currency |-> currency, rate |-> rate,
                 gross |-> Gross(lines, day), nok |-> nok, of |-> of]
           o == IF cash THEN 0 ELSE nok
           no == Len(invoices) + 1
<1>1. /\ invoices' = Append(invoices, r) /\ open' = Append(open, o)
      /\ Invoiceable(lines, day) /\ (of = 0 => Gross(lines, day) > 0)
  BY DEF CreateInvoiceIn
<1>2. /\ Gross(lines, day) \in Int /\ nok \in Int
      /\ currency = "NOK" => nok = Gross(lines, day)
  BY <1>1, ClaimToward
<1>3. /\ r.lines = lines /\ r.currency = currency /\ r.rate = rate /\ r.of = of
      /\ r.gross = Gross(lines, day) /\ r.nok = nok
  OBVIOUS
<1> HIDE DEF r, nok
<1>4. o \in Int
  BY <1>2
<1> HIDE DEF o
<1>5. PICK S : invoices \in Seq(S)
  BY DEF InvoiceTypes, Sequenced
<1>6. /\ Sequenced' /\ Len(invoices) \in Nat /\ Len(invoices') = no
      /\ DOMAIN invoices = 1..Len(invoices) /\ DOMAIN invoices' = 1..no
      /\ \A k \in 1..Len(invoices) : invoices'[k] = invoices[k]
      /\ invoices'[no] = r
  <2> DEFINE T == S \cup {r}
  <2>1. invoices \in Seq(T) /\ r \in T
    BY <1>5
  <2> HIDE DEF T
  <2>2. invoices' \in Seq(T)
    BY <1>1, <2>1
  <2> QED
    BY <1>1, <2>1, <2>2 DEF Sequenced
<1>7. /\ open' \in Seq(Int) /\ Len(open') = no
      /\ \A k \in 1..Len(invoices) : open'[k] = open[k]
      /\ open'[no] = o
  BY <1>1, <1>4, <1>6 DEF InvoiceTypes
<1>8. Grows(no, r, o)
  <2>1. \A n \in Nat : n + 1 \in Nat \ {0} /\ n + 1 \notin 1..n /\ 1..(n + 1) = (1..n) \cup {n + 1}
    OBVIOUS
  <2> QED
    BY <1>6, <1>7, <2>1 DEF Grows
<1>9. InvoiceTypes'
  <2>1. ASSUME NEW n \in DOMAIN invoices'
        PROVE  /\ DocLines(invoices'[n].lines) /\ invoices'[n].rate \in Nat /\ invoices'[n].gross \in Int
               /\ invoices'[n].nok \in Int /\ invoices'[n].of \in Nat
               /\ invoices'[n].currency = "NOK" => invoices'[n].nok = invoices'[n].gross
    <3>1. CASE n \in DOMAIN invoices
      BY <1>8, <3>1 DEF Grows, InvoiceTypes
    <3>2. CASE n = no
      BY <1>2, <1>3, <1>6, <3>2
    <3> QED
      BY <1>8, <3>1, <3>2 DEF Grows
  <2> QED
    BY <1>6, <1>7, <2>1 DEF InvoiceTypes
<1>10. Issues(no, r, o, lines, day, currency, rate, of, cash)
  BY <1>1, <1>3, <1>6, <1>8 DEF Issues, o, nok
<1> QED
  BY <1>9, <1>10

\* What is said of rows that were there is what was said.
LEMMA RowsThere ==
  ASSUME InvoiceTypes, ComesOut, NEW no, NEW r, NEW o, Grows(no, r, o)
  PROVE  /\ \A n, m \in DOMAIN invoices : TakesBack(n, m)' <=> TakesBack(n, m)
         /\ \A n \in DOMAIN invoices : r.of # n => NotesOf(n)' = NotesOf(n)
         /\ \A n \in DOMAIN invoices : r.of = n => NotesOf(n)' = NotesOf(n) \cup {no}
         /\ \A n \in DOMAIN invoices : AlreadyCredited(n)' <=> (AlreadyCredited(n) \/ r.of = n)
         /\ \A m \in DOMAIN invoices : invoices[m].of # no
         /\ 0 \notin DOMAIN invoices
<1>1. 0 \notin DOMAIN invoices
  BY DEF InvoiceTypes, Sequenced
<1>2. \A m \in DOMAIN invoices : invoices[m].of # no
  BY <1>1 DEF Grows, ComesOut, IsNoteOn
<1>3. \A n, m \in DOMAIN invoices : TakesBack(n, m)' <=> TakesBack(n, m)
  BY DEF TakesBack, Grows
<1>4. /\ \A n \in DOMAIN invoices : r.of # n => NotesOf(n)' = NotesOf(n)
      /\ \A n \in DOMAIN invoices : r.of = n => NotesOf(n)' = NotesOf(n) \cup {no}
  BY DEF NotesOf, Grows
<1>5. \A n \in DOMAIN invoices : AlreadyCredited(n)' <=> (AlreadyCredited(n) \/ r.of = n)
  BY DEF AlreadyCredited, Grows
<1> QED
  BY <1>1, <1>2, <1>3, <1>4, <1>5

LEMMA IssueKeeps ==
  ASSUME CreditInv, NEW lines, DocLines(lines), NEW day, NEW currency, NEW rate \in Nat,
         NEW cash \in BOOLEAN, CreateInvoiceIn(lines, day, currency, rate, 0, cash),
         UNCHANGED << crediting, creditRaced, unmatched >>
  PROVE  CreditInv'
<1>0. InvoiceTypes /\ ComesOut /\ OpenWithin /\ Requests /\ OneNote /\ OneIsClosed
  BY DEF CreditInv
<1>1. InvoiceTypes'
  BY <1>0, InvoiceAppended
<1> PICK no, r, o : Issues(no, r, o, lines, day, currency, rate, 0, cash)
  BY <1>0, InvoiceAppended
<1>2. /\ Grows(no, r, o)
      /\ r.lines = lines /\ r.currency = currency /\ r.of = 0
      /\ r.gross = Gross(lines, day) /\ r.nok = BuildVoucher(lines, day, currency, rate)
      /\ r.gross > 0
      /\ o = IF cash THEN 0 ELSE r.nok
  BY DEF Issues
<1>3. /\ \A n, m \in DOMAIN invoices : TakesBack(n, m)' <=> TakesBack(n, m)
      /\ \A n \in DOMAIN invoices : NotesOf(n)' = NotesOf(n)
      /\ \A n \in DOMAIN invoices : AlreadyCredited(n)' <=> AlreadyCredited(n)
      /\ \A m \in DOMAIN invoices : invoices[m].of # no
      /\ 0 \notin DOMAIN invoices
  <2>1. 0 \notin DOMAIN invoices /\ \A m \in DOMAIN invoices : invoices[m].of # no
    BY <1>0, <1>2, RowsThere
  <2>2. \A n \in DOMAIN invoices : r.of # n
    BY <1>2, <2>1
  <2>3. \A n, m \in DOMAIN invoices : TakesBack(n, m)' <=> TakesBack(n, m)
    BY <1>0, <1>2, RowsThere
  <2>4. \A n \in DOMAIN invoices : NotesOf(n)' = NotesOf(n) /\ (AlreadyCredited(n)' <=> AlreadyCredited(n))
    BY <1>0, <1>2, <2>2, RowsThere
  <2> QED
    BY <2>1, <2>3, <2>4
<1>4. /\ r.gross \in Int /\ r.nok \in Int
      /\ ~ Discounted(lines) => r.nok >= 0
  <2>1. Invoiceable(lines, day)
    BY DEF CreateInvoiceIn
  <2>2. /\ Gross(lines, day) \in Int /\ BuildVoucher(lines, day, currency, rate) \in Int
        /\ AllToward(TRUE, lines) => Toward(TRUE, BuildVoucher(lines, day, currency, rate))
    BY <2>1, ClaimToward
  <2> QED
    BY <1>2, <2>2, NegatedToward DEF Toward
<1>5. ComesOut'
  <2>1. /\ \A k \in DOMAIN invoices : invoices'[k] = invoices[k]
        /\ invoices'[no] = r /\ DOMAIN invoices' = DOMAIN invoices \cup {no}
    BY <1>2 DEF Grows
  <2>2. ASSUME NEW k, NEW m, m \in DOMAIN invoices, invoices[m].of = k, k # 0
        PROVE  IsNoteOn(k, m)'
    <3>1. IsNoteOn(k, m)
      BY <1>0, <2>2 DEF ComesOut
    <3>2. k \in DOMAIN invoices /\ (TakesBack(k, m)' <=> TakesBack(k, m))
      BY <1>3, <2>2, <3>1 DEF IsNoteOn
    <3> QED
      BY <2>1, <2>2, <3>1, <3>2 DEF IsNoteOn
  <2>3. IsClaim(r)
    BY <1>2, <1>4 DEF IsClaim
  <2>4. \A k \in DOMAIN invoices' : invoices'[k].of = 0 => IsClaim(invoices'[k])
    BY <1>0, <2>1, <2>3 DEF ComesOut
  <2>5. \A k, m : m \in DOMAIN invoices' /\ invoices'[m].of = k /\ k # 0 => IsNoteOn(k, m)'
    BY <1>2, <2>1, <2>2
  <2> QED
    BY <2>4, <2>5 DEF ComesOut
<1>6. OpenWithin'
  BY <1>0, <1>2, <1>4 DEF OpenWithin, Grows
<1>7. Requests'
  BY <1>0, <1>2 DEF Requests, Grows
<1>8. OneNote'
  <2>1. \A p \in Person : ~ Asks(p, no)'
    BY <1>0, <1>2 DEF Asks, Requests, Grows
  <2>2. NotesOf(no)' = {}
    BY <1>2, <1>3 DEF NotesOf, Grows
  <2>3. \A p \in Person, n \in DOMAIN invoices : Asks(p, n)' <=> Asks(p, n)
    BY DEF Asks
  <2> QED
    BY <1>0, <1>2, <1>3, <2>1, <2>2, <2>3 DEF OneNote, Grows
<1>9. OneIsClosed'
  <2>1. \A m : UnderWay(m)' <=> UnderWay(m)
    BY DEF UnderWay
  <2>2. /\ \A m \in DOMAIN invoices : invoices'[m] = invoices[m] /\ open'[m] = open[m]
        /\ DOMAIN invoices' = DOMAIN invoices \cup {no} /\ invoices'[no].of = 0
    BY <1>2 DEF Grows
  <2> SUFFICES ASSUME NEW k \in DOMAIN invoices', NEW m \in DOMAIN invoices', invoices'[m].of = k,
                      TakesBack(k, m)', invoices'[k].currency = "NOK", m \notin unmatched, ~ UnderWay(m)'
               PROVE  open'[k] = 0 \/ open'[m] = 0
    BY DEF OneIsClosed
  <2>3. k # 0 /\ no # 0
    BY <1>2, <1>3, <2>2 DEF Grows
  <2>4. m \in DOMAIN invoices /\ invoices[m].of = k /\ k \in DOMAIN invoices
    BY <1>3, <2>2, <2>3
  <2> QED
    BY <1>0, <1>3, <2>1, <2>2, <2>4 DEF OneIsClosed
<1> QED
  BY <1>1, <1>5, <1>6, <1>7, <1>8, <1>9 DEF CreditInv

\* What is said of the rows alone stays with them.
LEMMA RowsSame ==
  ASSUME UNCHANGED invoices, ComesOut
  PROVE  ComesOut'
BY DEF ComesOut, IsClaim, IsNoteOn, TakesBack

LEMMA PaymentKeeps ==
  ASSUME CreditInv, NEW n \in DOMAIN invoices, NEW amount, MatchPayment(n, amount)
  PROVE  CreditInv'
<1>0. InvoiceTypes /\ ComesOut /\ OpenWithin /\ Requests /\ OneNote /\ OneIsClosed
  BY DEF CreditInv
<1>1. /\ amount \in 1..open[n] /\ open' = [open EXCEPT ![n] = @ - amount]
      /\ UNCHANGED << invoices, crediting, creditRaced, unmatched >>
  BY DEF MatchPayment
<1>2. open[n] \in Int /\ DOMAIN open = DOMAIN invoices
  BY <1>0 DEF InvoiceTypes, Sequenced
<1>3. /\ open'[n] = open[n] - amount /\ amount > 0 /\ open'[n] >= 0 /\ open[n] > 0 /\ open'[n] \in Int
      /\ \A m \in DOMAIN invoices : m # n => open'[m] = open[m]
  BY <1>1, <1>2
<1>4. InvoiceTypes'
  <2>1. open' \in Seq(Int) /\ Len(open') = Len(open)
    BY <1>0, <1>1, <1>2, <1>3 DEF InvoiceTypes
  <2> QED
    BY <1>0, <1>1, <2>1 DEF InvoiceTypes, Sequenced
<1>5. invoices[n].nok > 0
  BY <1>0, <1>3 DEF OpenWithin, InvoiceTypes
<1>6. OpenWithin'
  BY <1>0, <1>1, <1>3, <1>5 DEF OpenWithin, InvoiceTypes
<1>7. ComesOut' /\ OneNote'
  BY <1>0, <1>1, RowsSame DEF OneNote, Asks, AlreadyCredited, NotesOf
<1>8. Requests'
  BY <1>0, <1>1, <1>3, <1>5 DEF Requests, InvoiceTypes
<1>9. OneIsClosed'
  BY <1>0, <1>1, <1>3 DEF OneIsClosed, TakesBack, UnderWay
<1> QED
  BY <1>4, <1>6, <1>7, <1>8, <1>9 DEF CreditInv

\* A request that asks, or gives up.
LEMMA AskingKeeps ==
  ASSUME CreditInv, NEW p \in Person, NEW n \in DOMAIN invoices, StartCredit(p, n)
  PROVE  CreditInv'
<1>0. InvoiceTypes /\ ComesOut /\ OpenWithin /\ Requests /\ OneNote /\ OneIsClosed
  BY DEF CreditInv
<1> DEFINE c == [pc |-> "issue", of |-> n, note |-> 0]
<1>1. /\ crediting[p] = NotCrediting /\ invoices[n].of = 0 /\ ~ AlreadyCredited(n)
      /\ crediting' = [crediting EXCEPT ![p] = c]
      /\ creditRaced' = IF BeingCredited(p, n) THEN creditRaced \cup {n} ELSE creditRaced
      /\ UNCHANGED << invoices, open, unmatched >>
  BY DEF StartCredit
<1>2. /\ n \in Nat /\ 0 \notin DOMAIN invoices
      /\ NotCrediting.pc = "idle" /\ NotCrediting.of = 0 /\ NotCrediting.note = 0
  BY <1>0 DEF InvoiceTypes, Sequenced, NotCrediting
<1>3. /\ c \in CreditRequest /\ c.pc = "issue" /\ c.of = n /\ c.note = 0
  BY <1>2 DEF CreditRequest
<1> HIDE DEF c
<1>4. /\ crediting'[p] = c /\ \A q \in Person : q # p => crediting'[q] = crediting[q]
      /\ crediting' \in [Person -> CreditRequest]
  BY <1>0, <1>1, <1>3 DEF Requests
<1>5. InvoiceTypes' /\ ComesOut' /\ OpenWithin'
  BY <1>0, <1>1, RowsSame DEF InvoiceTypes, Sequenced, OpenWithin
<1>6. Requests'
  BY <1>0, <1>1, <1>2, <1>3, <1>4 DEF Requests
<1>7. OneNote'
  <2>1. ASSUME NEW k \in DOMAIN invoices, k \notin creditRaced'
        PROVE  /\ \A q, s \in Person : Asks(q, k)' /\ Asks(s, k)' => q = s
               /\ \A q \in Person : Asks(q, k)' => ~ AlreadyCredited(k)
               /\ \A m, l \in NotesOf(k) : m = l
    <3>1. k \notin creditRaced /\ (k = n => ~ BeingCredited(p, n))
      BY <1>1, <2>1
    <3>2. \A q \in Person : q # p => (Asks(q, k)' <=> Asks(q, k))
      BY <1>4 DEF Asks
    <3>3. Asks(p, k)' => k = n
      BY <1>3, <1>4 DEF Asks
    <3>4. k = n => \A q \in Person : q # p => ~ Asks(q, k)
      BY <3>1 DEF BeingCredited, Asks
    <3> QED
      BY <1>0, <1>1, <3>1, <3>2, <3>3, <3>4 DEF OneNote
  <2> QED
    BY <1>1, <2>1 DEF OneNote, NotesOf, AlreadyCredited
<1>8. OneIsClosed'
  <2>1. \A m \in DOMAIN invoices : UnderWay(m)' <=> UnderWay(m)
    BY <1>1, <1>2, <1>3, <1>4 DEF UnderWay
  <2> QED
    BY <1>0, <1>1, <2>1 DEF OneIsClosed, TakesBack
<1> QED
  BY <1>5, <1>6, <1>7, <1>8 DEF CreditInv

\* A request that is done, whatever it left open.
LEMMA RequestEnds ==
  ASSUME Requests, InvoiceTypes, NEW p \in Person, crediting' = [crediting EXCEPT ![p] = NotCrediting],
         UNCHANGED invoices,
         \A q \in Person : q # p /\ crediting[q].pc = "match" => open'[crediting[q].note] = open[crediting[q].note]
  PROVE  /\ Requests'
         /\ \A n : Asks(p, n)' => FALSE
         /\ \A q \in Person : \A n : Asks(q, n)' => Asks(q, n)
         /\ \A m \in DOMAIN invoices : m # crediting[p].note => (UnderWay(m)' <=> UnderWay(m))
<1>1. /\ 0 \notin DOMAIN invoices
      /\ NotCrediting.pc = "idle" /\ NotCrediting.of = 0 /\ NotCrediting.note = 0
      /\ NotCrediting \in CreditRequest
  BY DEF InvoiceTypes, Sequenced, NotCrediting, CreditRequest
<1>2. /\ crediting'[p] = NotCrediting /\ \A q \in Person : q # p => crediting'[q] = crediting[q]
      /\ crediting' \in [Person -> CreditRequest]
  BY <1>1 DEF Requests
<1>3. Requests'
  BY <1>1, <1>2 DEF Requests
<1>4. /\ \A n : Asks(p, n)' => FALSE
      /\ \A q \in Person : \A n : Asks(q, n)' => Asks(q, n)
  BY <1>1, <1>2 DEF Asks
<1>5. \A m \in DOMAIN invoices : m # crediting[p].note => (UnderWay(m)' <=> UnderWay(m))
  BY <1>1, <1>2 DEF UnderWay
<1> QED
  BY <1>3, <1>4, <1>5

LEMMA GivingUpKeeps ==
  ASSUME CreditInv, NEW p \in Person, crediting[p].pc = "issue",
         crediting' = [crediting EXCEPT ![p] = NotCrediting],
         UNCHANGED << invoices, open, creditRaced, unmatched >>
  PROVE  CreditInv'
<1>0. InvoiceTypes /\ ComesOut /\ OpenWithin /\ Requests /\ OneNote /\ OneIsClosed
  BY DEF CreditInv
<1>1. /\ Requests'
      /\ \A q \in Person : \A n : Asks(q, n)' => Asks(q, n)
      /\ \A m \in DOMAIN invoices : m # crediting[p].note => (UnderWay(m)' <=> UnderWay(m))
  BY <1>0, RequestEnds
<1>2. crediting[p].note = 0 /\ 0 \notin DOMAIN invoices
  BY <1>0 DEF Requests, InvoiceTypes, Sequenced
<1>3. InvoiceTypes' /\ ComesOut' /\ OpenWithin'
  BY <1>0, RowsSame DEF InvoiceTypes, Sequenced, OpenWithin
<1>4. OneNote'
  BY <1>0, <1>1 DEF OneNote, NotesOf, AlreadyCredited
<1>5. OneIsClosed'
  BY <1>0, <1>1, <1>2 DEF OneIsClosed, TakesBack
<1> QED
  BY <1>1, <1>3, <1>4, <1>5 DEF CreditInv

\* The note on an invoice: its lines the other way, at the invoice's exchange rate.
LEMMA NoteComesOut ==
  ASSUME InvoiceTypes, ComesOut, NEW n \in DOMAIN invoices, invoices[n].of = 0, NEW today,
         NEW no, NEW r, NEW o,
         Issues(no, r, o, Negated(invoices[n].lines), today, invoices[n].currency, invoices[n].rate, n, FALSE),
         Invoiceable(Negated(invoices[n].lines), today)
  PROVE  /\ r.gross \in Int /\ r.nok \in Int
         /\ TakesBack(n, no)' => r.gross <= 0 /\ r.nok <= 0
<1> DEFINE i == invoices[n]
           lines == Negated(i.lines)
<1>1. /\ DocLines(i.lines) /\ i.rate \in Nat /\ i.gross \in Int /\ i.gross > 0
  BY DEF InvoiceTypes, ComesOut, IsClaim
<1>2. DocLines(lines) /\ (~ Discounted(i.lines) => AllToward(FALSE, lines))
  BY <1>1, NegatedToward
<1>3. r.gross = Gross(lines, today) /\ r.nok = BuildVoucher(lines, today, i.currency, i.rate)
  BY DEF Issues
<1>4. Invoiceable(lines, today)
  OBVIOUS
<1>5. /\ invoices'[n] = i /\ invoices'[no] = r
  BY DEF Issues, Grows
<1> HIDE DEF i, lines
<1>6. /\ r.gross \in Int /\ r.nok \in Int
      /\ i.currency = "NOK" => r.nok = r.gross
      /\ AllToward(FALSE, lines) => Toward(FALSE, r.gross) /\ Toward(FALSE, r.nok)
  BY <1>1, <1>2, <1>3, <1>4, ClaimToward
<1>7. TakesBack(n, no)' => ~ Discounted(i.lines) \/ (i.currency = "NOK" /\ r.gross = -i.gross)
  BY <1>5 DEF TakesBack
<1>8. ASSUME ~ Discounted(i.lines) PROVE r.gross <= 0 /\ r.nok <= 0
  <2>1. Toward(FALSE, r.gross) /\ Toward(FALSE, r.nok)
    BY <1>2, <1>6, <1>8
  <2> QED
    BY <2>1 DEF Toward
<1>9. ASSUME i.currency = "NOK", r.gross = -i.gross PROVE r.gross <= 0 /\ r.nok <= 0
  BY <1>1, <1>6, <1>9
<1> QED
  BY <1>6, <1>7, <1>8, <1>9

LEMMA NoteKeeps ==
  ASSUME CreditInv, NEW p \in Person, NEW today, crediting[p].pc = "issue",
         LET i == invoices[crediting[p].of] IN
            CreateInvoiceIn(Negated(i.lines), today, i.currency, i.rate, crediting[p].of, FALSE),
         crediting' = [crediting EXCEPT ![p] = [@ EXCEPT !.pc = "match", !.note = Len(invoices')]],
         UNCHANGED << creditRaced, unmatched >>
  PROVE  CreditInv'
<1>0. InvoiceTypes /\ ComesOut /\ OpenWithin /\ Requests /\ OneNote /\ OneIsClosed
  BY DEF CreditInv
<1> PICK n : n = crediting[p].of
  OBVIOUS
<1>1. /\ n \in DOMAIN invoices /\ invoices[n].of = 0 /\ n \in Nat /\ n # 0
      /\ crediting[p] \in CreditRequest /\ crediting[p].note = 0 /\ Asks(p, n)
  BY <1>0 DEF Requests, InvoiceTypes, Sequenced, Asks
<1>2. /\ DocLines(Negated(invoices[n].lines)) /\ invoices[n].rate \in Nat
  BY <1>0, <1>1, NegatedToward DEF InvoiceTypes
<1>3. CreateInvoiceIn(Negated(invoices[n].lines), today, invoices[n].currency, invoices[n].rate, n, FALSE)
  OBVIOUS
<1>4. InvoiceTypes'
  BY <1>0, <1>1, <1>2, <1>3, InvoiceAppended
<1> PICK no, r, o :
       Issues(no, r, o, Negated(invoices[n].lines), today, invoices[n].currency, invoices[n].rate, n, FALSE)
  BY <1>0, <1>1, <1>2, <1>3, InvoiceAppended
<1>5. /\ Grows(no, r, o) /\ no = Len(invoices') /\ no \in Nat \ {0}
      /\ r.currency = invoices[n].currency /\ r.of = n /\ o = r.nok
  BY DEF Issues, Grows
<1>6. /\ r.gross \in Int /\ r.nok \in Int
      /\ TakesBack(n, no)' => r.gross <= 0 /\ r.nok <= 0
  BY <1>0, <1>1, <1>3, NoteComesOut DEF CreateInvoiceIn
<1>7. /\ \A k, m \in DOMAIN invoices : TakesBack(k, m)' <=> TakesBack(k, m)
      /\ \A k \in DOMAIN invoices : k # n => NotesOf(k)' = NotesOf(k)
      /\ NotesOf(n)' = NotesOf(n) \cup {no}
      /\ \A k \in DOMAIN invoices : k # n => (AlreadyCredited(k)' <=> AlreadyCredited(k))
      /\ \A m \in DOMAIN invoices : invoices[m].of # no
      /\ 0 \notin DOMAIN invoices
  BY <1>0, <1>1, <1>5, RowsThere
<1> DEFINE c == [crediting[p] EXCEPT !.pc = "match", !.note = no]
<1>8. /\ c.pc = "match" /\ c.of = n /\ c.note = no /\ c \in CreditRequest
  BY <1>1, <1>5 DEF CreditRequest
<1>9. /\ crediting'[p] = c /\ \A q \in Person : q # p => crediting'[q] = crediting[q]
      /\ crediting' \in [Person -> CreditRequest]
  <2>1. crediting' = [crediting EXCEPT ![p] = c]
    BY <1>5
  <2> HIDE DEF c
  <2> QED
    BY <1>0, <1>8, <2>1 DEF Requests
<1> HIDE DEF c
<1>10. ComesOut'
  <2>1. /\ \A k \in DOMAIN invoices : invoices'[k] = invoices[k]
        /\ invoices'[no] = r /\ DOMAIN invoices' = DOMAIN invoices \cup {no}
    BY <1>5 DEF Grows
  <2>2. ASSUME NEW k, NEW m, m \in DOMAIN invoices, invoices[m].of = k, k # 0
        PROVE  IsNoteOn(k, m)'
    <3>1. IsNoteOn(k, m)
      BY <1>0, <2>2 DEF ComesOut
    <3>2. k \in DOMAIN invoices /\ (TakesBack(k, m)' <=> TakesBack(k, m))
      BY <1>7, <2>2, <3>1 DEF IsNoteOn
    <3> QED
      BY <2>1, <2>2, <3>1, <3>2 DEF IsNoteOn
  <2>3. IsNoteOn(n, no)'
    BY <1>1, <1>5, <1>6, <2>1 DEF IsNoteOn
  <2>4. \A k \in DOMAIN invoices' : invoices'[k].of = 0 => IsClaim(invoices'[k])
    BY <1>0, <1>1, <1>5, <2>1 DEF ComesOut
  <2>5. \A k, m : m \in DOMAIN invoices' /\ invoices'[m].of = k /\ k # 0 => IsNoteOn(k, m)'
    BY <1>5, <2>1, <2>2, <2>3
  <2> QED
    BY <2>4, <2>5 DEF ComesOut
<1>11. OpenWithin'
  BY <1>0, <1>5, <1>6 DEF OpenWithin, Grows
<1>12. Requests'
  <2>1. \A q \in Person : crediting[q].note # no
    BY <1>0, <1>5 DEF Requests, Grows
  <2>2. ASSUME NEW q \in Person
        PROVE  LET d == crediting'[q] IN
                 /\ d.pc = "idle" => d.of = 0
                 /\ d.pc # "match" => d.note = 0
                 /\ d.pc # "idle" => d.of \in DOMAIN invoices' /\ invoices'[d.of].of = 0
                 /\ d.pc = "match" =>
                       /\ d.note \in DOMAIN invoices' /\ invoices'[d.note].of = d.of
                       /\ invoices'[d.note].nok <= 0 => open'[d.note] = invoices'[d.note].nok
    <3>1. CASE q = p
      <4>1. crediting'[q] = c
        BY <1>9, <3>1
      <4>2. n \in DOMAIN invoices' /\ invoices'[n].of = 0
        BY <1>1, <1>5 DEF Grows
      <4>3. no \in DOMAIN invoices' /\ invoices'[no].of = n /\ open'[no] = invoices'[no].nok
        BY <1>5 DEF Grows
      <4> QED
        BY <1>8, <4>1, <4>2, <4>3
    <3>2. CASE q # p
      <4>1. crediting'[q] = crediting[q]
        BY <1>9, <3>2
      <4> PICK d : d = crediting[q]
        OBVIOUS
      <4>2. \A k \in DOMAIN invoices : k \in DOMAIN invoices' /\ invoices'[k] = invoices[k] /\ open'[k] = open[k]
        BY <1>5 DEF Grows
      <4>3. /\ d.pc = "idle" => d.of = 0
            /\ d.pc # "match" => d.note = 0
            /\ d.pc # "idle" => d.of \in DOMAIN invoices /\ invoices[d.of].of = 0
            /\ d.pc = "match" =>
                  /\ d.note \in DOMAIN invoices /\ invoices[d.note].of = d.of
                  /\ invoices[d.note].nok <= 0 => open[d.note] = invoices[d.note].nok
        BY <1>0 DEF Requests
      <4> QED
        BY <4>1, <4>2, <4>3
    <3> QED
      BY <3>1, <3>2
  <2>3. \A q, s \in Person : (q # s /\ crediting'[q].pc = "match") => crediting'[s].note # crediting'[q].note
    <3> SUFFICES ASSUME NEW q \in Person, NEW s \in Person, q # s, crediting'[q].pc = "match"
                 PROVE  crediting'[s].note # crediting'[q].note
      OBVIOUS
    <3>1. CASE q = p
      BY <1>8, <1>9, <2>1, <3>1
    <3>2. CASE q # p
      <4>1. crediting'[q] = crediting[q] /\ crediting[q].note # no
        BY <1>9, <2>1, <3>2
      <4>2. s # p => crediting[s].note # crediting[q].note
        BY <1>0, <4>1 DEF Requests
      <4> QED
        BY <1>8, <1>9, <4>1, <4>2
    <3> QED
      BY <3>1, <3>2
  <2> QED
    BY <1>9, <2>2, <2>3 DEF Requests
<1>13. OneNote'
  <2>1. /\ \A q \in Person : \A k : q # p => (Asks(q, k)' <=> Asks(q, k))
        /\ \A k : ~ Asks(p, k)'
    BY <1>8, <1>9 DEF Asks
  <2>2. ASSUME NEW k \in DOMAIN invoices, k \notin creditRaced
        PROVE  /\ \A q, s \in Person : Asks(q, k)' /\ Asks(s, k)' => q = s
               /\ \A q \in Person : Asks(q, k)' => ~ AlreadyCredited(k)'
               /\ \A m, l \in NotesOf(k)' : m = l
    <3>1. CASE k # n
      BY <1>0, <1>7, <2>1, <2>2, <3>1 DEF OneNote
    <3>2. CASE k = n
      <4>1. \A q \in Person : ~ Asks(q, k)'
        BY <1>0, <1>1, <2>1, <2>2, <3>2 DEF OneNote
      <4>2. NotesOf(n) = {}
        BY <1>0, <1>1, <2>2, <3>2 DEF OneNote, AlreadyCredited, NotesOf
      <4> QED
        BY <1>7, <3>2, <4>1, <4>2
    <3> QED
      BY <3>1, <3>2
  <2>3. ASSUME NEW q \in Person PROVE ~ Asks(q, no)'
    <3>1. ~ Asks(q, no)
      <4>1. no \notin DOMAIN invoices
        BY <1>5 DEF Grows
      <4>2. crediting[q].pc # "idle" => crediting[q].of \in DOMAIN invoices
        BY <1>0 DEF Requests
      <4> QED
        BY <4>1, <4>2 DEF Asks
    <3>2. CASE q = p
      BY <2>1, <3>2
    <3>3. CASE q # p
      BY <2>1, <3>1, <3>3
    <3> QED
      BY <3>2, <3>3
  <2>4. NotesOf(no)' = {}
    <3>1. no # n /\ DOMAIN invoices' = DOMAIN invoices \cup {no} /\ invoices'[no].of = n
      BY <1>1, <1>5 DEF Grows
    <3>2. \A m \in DOMAIN invoices : invoices'[m].of # no
      BY <1>5, <1>7 DEF Grows
    <3> QED
      BY <3>1, <3>2 DEF NotesOf
  <2> QED
    BY <1>5, <2>2, <2>3, <2>4 DEF OneNote, Grows
<1>14. OneIsClosed'
  <2>1. \A m : UnderWay(m) /\ m # 0 => UnderWay(m)'
    BY <1>1, <1>9 DEF UnderWay
  <2>2. UnderWay(no)'
    BY <1>8, <1>9 DEF UnderWay
  <2>3. /\ \A m \in DOMAIN invoices : invoices'[m] = invoices[m] /\ open'[m] = open[m]
        /\ DOMAIN invoices' = DOMAIN invoices \cup {no}
    BY <1>5 DEF Grows
  <2> SUFFICES ASSUME NEW k \in DOMAIN invoices', NEW m \in DOMAIN invoices', invoices'[m].of = k,
                      TakesBack(k, m)', invoices'[k].currency = "NOK", m \notin unmatched, ~ UnderWay(m)'
               PROVE  open'[k] = 0 \/ open'[m] = 0
    BY DEF OneIsClosed
  <2>4. m \in DOMAIN invoices /\ invoices[m].of = k
    BY <2>2, <2>3
  <2>5. k \in DOMAIN invoices
    BY <1>7, <2>3, <2>4
  <2>6. TakesBack(k, m) /\ invoices[k].currency = "NOK" /\ ~ UnderWay(m)
    BY <1>7, <2>1, <2>3, <2>4, <2>5
  <2>7. open[k] = 0 \/ open[m] = 0
    BY <1>0, <2>4, <2>5, <2>6 DEF OneIsClosed
  <2> QED
    BY <2>3, <2>4, <2>5, <2>7
<1> QED
  BY <1>4, <1>10, <1>11, <1>12, <1>13, <1>14 DEF CreditInv

\* The match: what the claim and the note have in common is taken off both.
LEMMA MatchKeeps ==
  ASSUME CreditInv, NEW p \in Person, MatchCredit(p)
  PROVE  CreditInv'
<1>0. InvoiceTypes /\ ComesOut /\ OpenWithin /\ Requests /\ OneNote /\ OneIsClosed
  BY DEF CreditInv
<1> DEFINE n == crediting[p].of
           note == crediting[p].note
           amount == Creditable(p)
<1>1. /\ crediting[p].pc = "match" /\ crediting' = [crediting EXCEPT ![p] = NotCrediting]
      /\ UNCHANGED << invoices, creditRaced >>
  BY DEF MatchCredit
<1>2. /\ n \in DOMAIN invoices /\ invoices[n].of = 0 /\ note \in DOMAIN invoices /\ invoices[note].of = n
      /\ n # note /\ 0 \notin DOMAIN invoices /\ DOMAIN open = DOMAIN invoices
      /\ open[n] \in Int /\ open[note] \in Int
      /\ invoices[note].gross \in Int /\ invoices[note].nok \in Int /\ invoices[n].nok \in Int
      /\ invoices[note].nok <= 0 => open[note] = invoices[note].nok
      /\ \A q \in Person : q # p /\ crediting[q].pc = "match" => crediting[q].note # note
  <2>1. 0 \notin DOMAIN invoices /\ DOMAIN open = DOMAIN invoices
    BY <1>0 DEF InvoiceTypes, Sequenced
  <2>2. \A k \in DOMAIN invoices : open[k] \in Int /\ invoices[k].gross \in Int /\ invoices[k].nok \in Int
    BY <1>0, <2>1 DEF InvoiceTypes
  <2>3. /\ n \in DOMAIN invoices /\ invoices[n].of = 0 /\ note \in DOMAIN invoices /\ invoices[note].of = n
        /\ invoices[note].nok <= 0 => open[note] = invoices[note].nok
    BY <1>0, <1>1 DEF Requests
  <2>4. \A q \in Person : q # p => crediting[q].note # note
    BY <1>0, <1>1 DEF Requests
  <2> HIDE DEF n, note
  <2> QED
    BY <2>1, <2>2, <2>3, <2>4
<1>3. /\ amount \in Int /\ amount <= open[n] /\ amount <= -invoices[note].gross
      /\ amount = open[n] \/ amount = -invoices[note].gross
  BY <1>2 DEF Creditable
<1>4. \/ /\ amount > 0 /\ amount <= -open[note]
         /\ open' = [open EXCEPT ![n] = @ - amount, ![note] = @ + amount]
         /\ UNCHANGED unmatched
      \/ amount <= 0 /\ UNCHANGED << open, unmatched >>
      \/ amount > 0 /\ unmatched' = unmatched \cup {note} /\ UNCHANGED open
  BY DEF MatchCredit
<1>5. \A q \in Person : q # p /\ crediting[q].pc = "match" => crediting[q].note # n
  BY <1>0, <1>2 DEF Requests
<1> HIDE DEF n, note, amount
<1>6. /\ \A k \in DOMAIN invoices : k # n /\ k # note => open'[k] = open[k]
      /\ DOMAIN open' = DOMAIN invoices
      /\ \/ /\ amount > 0 /\ amount <= -open[note]
            /\ open'[n] = open[n] - amount /\ open'[note] = open[note] + amount
         \/ open'[n] = open[n] /\ open'[note] = open[note]
  BY <1>2, <1>4
<1>7. open' \in Seq(Int) /\ Len(open') = Len(open)
  <2>1. ASSUME NEW a \in Int, NEW b \in Int, NEW k \in DOMAIN open, NEW l \in DOMAIN open,
               open' = [open EXCEPT ![k] = a, ![l] = b]
        PROVE  open' \in Seq(Int) /\ Len(open') = Len(open)
    BY <1>0, <2>1 DEF InvoiceTypes
  <2>2. open[n] - amount \in Int /\ open[note] + amount \in Int
    BY <1>2, <1>3
  <2>3. CASE open' = [open EXCEPT ![n] = open[n] - amount, ![note] = open[note] + amount]
    BY <1>2, <2>1, <2>2, <2>3
  <2> QED
    BY <1>0, <1>2, <1>4, <2>3 DEF InvoiceTypes
<1>8. InvoiceTypes' /\ ComesOut'
  BY <1>0, <1>1, <1>7, RowsSame DEF InvoiceTypes, Sequenced
<1>9. OpenWithin'
  <2>1. /\ invoices[n].nok <= 0 => open[n] <= 0
        /\ invoices[n].nok >= 0 => open[n] >= 0
        /\ invoices[note].nok <= 0 => open[note] <= 0
        /\ invoices[note].nok >= 0 => open[note] >= 0
    BY <1>0, <1>2 DEF OpenWithin
  <2>2. /\ invoices[n].nok <= 0 => open'[n] <= 0
        /\ invoices[n].nok >= 0 => open'[n] >= 0
        /\ invoices[note].nok <= 0 => open'[note] <= 0
        /\ invoices[note].nok >= 0 => open'[note] >= 0
    BY <1>2, <1>3, <1>6, <2>1
  <2> QED
    BY <1>0, <1>1, <1>6, <2>2 DEF OpenWithin
<1>10. /\ Requests'
       /\ \A q \in Person : \A k : Asks(q, k)' => Asks(q, k)
       /\ \A m \in DOMAIN invoices : m # note => (UnderWay(m)' <=> UnderWay(m))
  <2>1. \A q \in Person : q # p /\ crediting[q].pc = "match" => open'[crediting[q].note] = open[crediting[q].note]
    BY <1>0, <1>2, <1>5, <1>6 DEF Requests
  <2> QED
    BY <1>0, <1>1, <2>1, RequestEnds DEF note
<1>11. OneNote'
  BY <1>0, <1>1, <1>10 DEF OneNote, NotesOf, AlreadyCredited
<1>12. OneIsClosed'
  <2> SUFFICES ASSUME NEW k \in DOMAIN invoices, NEW m \in DOMAIN invoices, invoices[m].of = k,
                      TakesBack(k, m), invoices[k].currency = "NOK", m \notin unmatched', ~ UnderWay(m)'
               PROVE  open'[k] = 0 \/ open'[m] = 0
    BY <1>1 DEF OneIsClosed, TakesBack
  <2>1. invoices[k].of = 0 /\ k # m
    BY <1>0, <1>2 DEF ComesOut, IsNoteOn
  <2>2. CASE m = note
    <3>1. k = n
      BY <1>2, <2>2
    <3>2. /\ invoices[note].gross <= 0 /\ invoices[note].nok = invoices[note].gross
          /\ open[note] = invoices[note].gross
      BY <1>0, <1>2, <2>2, <3>1 DEF ComesOut, IsNoteOn, InvoiceTypes
    <3>3. open[n] >= 0
      BY <1>0, <1>2, <2>2, <3>1 DEF ComesOut, IsClaim, InvoiceTypes, OpenWithin
    <3>4. note \notin unmatched'
      BY <2>2
    <3>5. CASE amount > 0
      BY <1>2, <1>3, <1>4, <1>6, <2>2, <3>1, <3>2, <3>4, <3>5
    <3>6. CASE ~ (amount > 0)
      BY <1>2, <1>3, <1>6, <2>2, <3>1, <3>2, <3>3, <3>6
    <3> QED
      BY <3>5, <3>6
  <2>3. CASE m # note
    <3>1. open[k] = 0 \/ open[m] = 0
      BY <1>0, <1>4, <1>10, <2>3 DEF OneIsClosed
    <3>2. m # n /\ open'[m] = open[m]
      BY <1>2, <1>6, <2>3
    <3>3. k # note
      BY <1>2, <2>1
    <3>4. open[k] = 0 => open'[k] = 0
      BY <1>2, <1>3, <1>6, <2>1, <3>3
    <3> QED
      BY <3>1, <3>2, <3>4
  <2> QED
    BY <2>2, <2>3
<1> QED
  BY <1>8, <1>9, <1>10, <1>11, <1>12 DEF CreditInv

-----------------------------------------------------------------------------
(***************************************************************************)
(* The lines that are written: those of drafts, documents and templates    *)
(* have prices once the register has been asked.                           *)
(***************************************************************************)
LinesTyped ==
    /\ product \in [Product -> [active : BOOLEAN, stocked : BOOLEAN, price : StockPrice]]
    /\ \A d \in SalesDoc : DocLines(salesDocs[d].lines)
    /\ \A t \in Template : DocLines(templates[t].lines)

DeskInv == SalesInv /\ LinesTyped /\ CreditInv

LEMMA ResolvedLines ==
  ASSUME LinesTyped, NEW lines, Writable(lines)
  PROVE  DocLines(ResolveLines(lines))
<1>1. /\ Len(lines) \in Nat /\ DOMAIN lines = 1..Len(lines)
      /\ \A i \in DOMAIN lines : /\ lines[i] \in DocLine
                                 /\ lines[i].price = NoCost => lines[i].product \in Product
  BY DEF Writable
<1>2. \A x \in Product : product[x].price \in Int
  BY InvoicingAssumption DEF LinesTyped
<1>3. ASSUME NEW l \in DocLine, l.price = NoCost => l.product \in Product
      PROVE  ResolveProductLine(l) \in DocLine
  <2>1. ASSUME NEW price \in Int PROVE [l EXCEPT !.price = price] \in DocLine
    BY DEF DocLine
  <2>2. l.price \in Int
    BY DEF DocLine
  <2>3. CASE l.price = NoCost
    BY <1>2, <1>3, <2>1, <2>3 DEF ResolveProductLine
  <2>4. CASE l.price # NoCost
    BY <2>1, <2>2, <2>4 DEF ResolveProductLine
  <2> QED
    BY <2>3, <2>4
<1> DEFINE f(i) == ResolveProductLine(lines[i])
<1>4. ResolveLines(lines) = [i \in 1..Len(lines) |-> f(i)]
  BY <1>1 DEF ResolveLines
<1>5. \A i \in 1..Len(lines) : f(i) \in DocLine
  BY <1>1, <1>3
<1> HIDE DEF f
<1> QED
  BY <1>1, <1>4, <1>5 DEF DocLines

\* An invoice leaves the register alone.
LEMMA RegisterStays ==
  ASSUME NEW lines, NEW day, NEW currency, NEW rate, NEW of, NEW cash,
         CreateInvoiceIn(lines, day, currency, rate, of, cash)
  PROVE  UNCHANGED product
BY DEF CreateInvoiceIn, RecordSalesIn

\* One document, or one template, gets lines that are typed.
LEMMA DocLinesKept ==
  ASSUME LinesTyped, NEW d \in SalesDoc, NEW R, DocLines(R.lines),
         salesDocs' = [salesDocs EXCEPT ![d] = R], UNCHANGED << product, templates >>
  PROVE  LinesTyped'
BY DEF LinesTyped

LEMMA TemplateLinesKept ==
  ASSUME LinesTyped, NEW t \in Template, NEW R, DocLines(R.lines),
         templates' = [templates EXCEPT ![t] = R], UNCHANGED << product, salesDocs >>
  PROVE  LinesTyped'
BY DEF LinesTyped

LEMMA DocumentsTyped ==
  ASSUME DeskInv, NextSalesDocuments
  PROVE  LinesTyped'
<1>1. LinesTyped /\ SaleTables
  BY DEF DeskInv, SalesInv, DocsInv
<1>2. ASSUME NEW p \in Person, NEW d \in SalesDoc, NEW kind, NEW lines \in SalesLines,
             CreateSalesDocument(p, d, kind, lines)
      PROVE  LinesTyped'
  <2> DEFINE R == [kind |-> kind, status |-> FirstStatus(kind), lines |-> ResolveLines(lines),
                   quote |-> NoDoc, invoice |-> 0]
  <2>1. salesDocs' = [salesDocs EXCEPT ![d] = R] /\ UNCHANGED << product, templates >>
    BY <1>2 DEF CreateSalesDocument, Written, varsStock
  <2>2. DocLines(R.lines)
    BY <1>1, SalesAssumption, ResolvedLines
  <2> HIDE DEF R
  <2> QED
    BY <1>1, <2>1, <2>2, DocLinesKept
<1>3. ASSUME NEW p \in Person, NEW d \in SalesDoc, NEW lines \in SalesLines, UpdateQuote(p, d, lines)
      PROVE  LinesTyped'
  <2> DEFINE R == [salesDocs[d] EXCEPT !.lines = ResolveLines(lines)]
  <2>1. salesDocs' = [salesDocs EXCEPT ![d] = R] /\ UNCHANGED << product, templates >>
    BY <1>3 DEF UpdateQuote, varsStock
  <2>2. DocLines(R.lines)
    BY <1>1, SalesAssumption, ResolvedLines DEF SaleTables, SaleRow
  <2> HIDE DEF R
  <2> QED
    BY <1>1, <2>1, <2>2, DocLinesKept
<1>4. ASSUME NEW p \in Person, NEW d \in SalesDoc, NEW status, SetQuoteStatus(p, d, status)
      PROVE  LinesTyped'
  <2> DEFINE R == [salesDocs[d] EXCEPT !.status = status]
  <2>1. salesDocs' = [salesDocs EXCEPT ![d] = R] /\ UNCHANGED << product, templates >>
    BY <1>4 DEF SetQuoteStatus, varsStock
  <2>2. DocLines(R.lines)
    BY <1>1 DEF LinesTyped, SaleTables, SaleRow
  <2> HIDE DEF R
  <2> QED
    BY <1>1, <2>1, <2>2, DocLinesKept
<1>5. ASSUME NEW p \in Person, NEW d \in SalesDoc, NEW o \in SalesDoc, QuoteToOrder(p, d, o)
      PROVE  LinesTyped'
  <2> DEFINE R == [kind |-> "ordre", status |-> FirstStatus("ordre"), lines |-> salesDocs[d].lines,
                   quote |-> d, invoice |-> 0]
  <2>1. salesDocs' = [salesDocs EXCEPT ![o] = R] /\ UNCHANGED << product, templates >>
    BY <1>5 DEF QuoteToOrder, Written, varsStock
  <2>2. DocLines(R.lines)
    BY <1>1 DEF LinesTyped
  <2> HIDE DEF R
  <2> QED
    BY <1>1, <2>1, <2>2, DocLinesKept
<1>6. ASSUME NEW p \in Person, NEW o \in SalesDoc, NEW day, OrderToInvoice(p, o, day)
      PROVE  LinesTyped'
  <2> DEFINE R == [salesDocs[o] EXCEPT !.status = "fakturert", !.invoice = Len(invoices')]
  <2>1. salesDocs' = [salesDocs EXCEPT ![o] = R] /\ UNCHANGED << product, templates >>
    BY <1>6, RegisterStays DEF OrderToInvoice
  <2>2. DocLines(R.lines)
    BY <1>1 DEF LinesTyped, SaleTables, SaleRow
  <2> HIDE DEF R
  <2> QED
    BY <1>1, <2>1, <2>2, DocLinesKept
<1> QED
  BY <1>2, <1>3, <1>4, <1>5, <1>6 DEF NextSalesDocuments

LEMMA TemplatesTyped ==
  ASSUME DeskInv, NextTemplates
  PROVE  LinesTyped'
<1>1. LinesTyped /\ TemplateTable /\ InvoiceTypes
  BY DEF DeskInv, SalesInv, PlansInv, CreditInv
<1>2. ASSUME NEW t \in Template, NEW next, NEW end, NEW interval, NEW lines, DocLines(lines),
             PlanTemplate(t, next, end, interval, lines)
      PROVE  LinesTyped'
  <2> DEFINE R == [active |-> TRUE, next |-> next, start |-> next, end |-> end, interval |-> interval,
                   lines |-> lines]
  <2>1. templates' = [templates EXCEPT ![t] = R] /\ UNCHANGED << product, salesDocs >>
    BY <1>2 DEF PlanTemplate, varsStock
  <2>2. DocLines(R.lines)
    BY <1>2
  <2> HIDE DEF R
  <2> QED
    BY <1>1, <2>1, <2>2, TemplateLinesKept
<1>3. ASSUME NEW p, NEW t \in Template, NEW n \in DOMAIN invoices, NEW next, NEW interval,
             CreateTemplateFromInvoice(p, t, n, next, interval)
      PROVE  LinesTyped'
  BY <1>1, <1>2, <1>3 DEF CreateTemplateFromInvoice, InvoiceTypes
<1>4. ASSUME NEW p, NEW t \in Template, NEW next, NEW end, NEW interval, NEW lines \in SalesLines,
             CreateTemplate(p, t, next, end, interval, lines)
      PROVE  LinesTyped'
  BY <1>1, <1>2, <1>4, SalesAssumption, ResolvedLines DEF CreateTemplate
<1>5. ASSUME NEW p, NEW t \in Template, NEW next, NEW end, NEW interval, NEW active,
             NEW lines \in SalesLines, UpdateTemplate(p, t, next, end, interval, active, lines)
      PROVE  LinesTyped'
  <2> DEFINE R == [templates[t] EXCEPT !.next = next, !.end = end, !.interval = interval,
                                       !.active = active, !.lines = ResolveLines(lines)]
  <2>1. templates' = [templates EXCEPT ![t] = R] /\ UNCHANGED << product, salesDocs >>
    BY <1>5 DEF UpdateTemplate, varsStock
  <2>2. DocLines(R.lines)
    BY <1>1, SalesAssumption, ResolvedLines DEF TemplateTable, TemplateRow
  <2> HIDE DEF R
  <2> QED
    BY <1>1, <2>1, <2>2, TemplateLinesKept
<1>6. ASSUME NEW t \in Template, GenerateOne(t) PROVE LinesTyped'
  <2>1. UNCHANGED << product, salesDocs >>
    BY <1>6, RegisterStays DEF GenerateOne, Issued, NoInvoiceIssued, varsStock
  <2>2. \/ UNCHANGED templates
        \/ \E day : templates' = [templates EXCEPT ![t] = [templates[t] EXCEPT !.next = day]]
    BY <1>6 DEF GenerateOne
  <2>3. ASSUME NEW day, templates' = [templates EXCEPT ![t] = [templates[t] EXCEPT !.next = day]]
        PROVE  LinesTyped'
    <3>1. DocLines([templates[t] EXCEPT !.next = day].lines)
      BY <1>1 DEF LinesTyped, TemplateTable, TemplateRow
    <3> QED
      BY <1>1, <2>1, <2>3, <3>1, TemplateLinesKept
  <2> QED
    BY <1>1, <2>1, <2>2, <2>3 DEF LinesTyped
<1> QED
  BY <1>3, <1>4, <1>5, <1>6 DEF NextTemplates, GenerateNow, GenerateDue

LEMMA CreditStays ==
  ASSUME CreditInv, UNCHANGED varsInvoicing
  PROVE  CreditInv'
<1>1. UNCHANGED << invoices, open, crediting, creditRaced, unmatched >>
  BY DEF varsInvoicing
<1>2. InvoiceTypes' /\ OpenWithin' /\ Requests'
  BY <1>1 DEF CreditInv, InvoiceTypes, Sequenced, OpenWithin, Requests
<1>3. ComesOut'
  BY <1>1, RowsSame DEF CreditInv
<1>4. OneNote' /\ OneIsClosed'
  BY <1>1 DEF CreditInv, OneNote, OneIsClosed, Asks, AlreadyCredited, NotesOf, TakesBack, UnderWay
<1> QED
  BY <1>2, <1>3, <1>4 DEF CreditInv

LEMMA DocumentsCredit ==
  ASSUME DeskInv, NextSalesDocuments
  PROVE  CreditInv'
<1>1. ASSUME NEW p \in Person, NEW o \in SalesDoc, NEW day, OrderToInvoice(p, o, day)
      PROVE  CreditInv'
  <2>1. /\ CreateInvoiceIn(salesDocs[o].lines, day, "NOK", MicroNok, 0, FALSE)
        /\ UNCHANGED << crediting, creditRaced, unmatched >>
    BY <1>1 DEF OrderToInvoice
  <2>2. DocLines(salesDocs[o].lines) /\ MicroNok \in Nat
    BY DEF DeskInv, LinesTyped, MicroNok
  <2> QED
    BY <2>1, <2>2, IssueKeeps DEF DeskInv
<1>2. ASSUME UNCHANGED varsInvoicing PROVE CreditInv'
  BY <1>2, CreditStays DEF DeskInv
<1>3. ASSUME NEW p, NEW d, NEW kind, NEW lines,
             CreateSalesDocument(p, d, kind, lines) \/ UpdateQuote(p, d, lines)
      PROVE  UNCHANGED varsInvoicing
  BY <1>3 DEF CreateSalesDocument, UpdateQuote
<1>4. ASSUME NEW p, NEW d, NEW o, NEW status, SetQuoteStatus(p, d, status) \/ QuoteToOrder(p, d, o)
      PROVE  UNCHANGED varsInvoicing
  BY <1>4 DEF SetQuoteStatus, QuoteToOrder
<1> QED
  BY <1>1, <1>2, <1>3, <1>4 DEF NextSalesDocuments

LEMMA TemplatesCredit ==
  ASSUME DeskInv, NextTemplates
  PROVE  CreditInv'
<1>1. ASSUME NEW t \in Template, GenerateOne(t) PROVE CreditInv'
  <2>1. UNCHANGED << crediting, creditRaced, unmatched, paid, matchTrouble >>
    BY <1>1 DEF GenerateOne
  <2>2. CASE Issued(t)
    <3>1. DocLines(templates[t].lines) /\ MicroNok \in Nat
      BY DEF DeskInv, LinesTyped, MicroNok
    <3>2. CreateInvoiceIn(templates[t].lines, templates[t].next, "NOK", MicroNok, 0, FALSE)
      BY <2>2 DEF Issued
    <3> QED
      BY <2>1, <3>1, <3>2, IssueKeeps DEF DeskInv
  <2>3. CASE NoInvoiceIssued
    BY <2>1, <2>3, CreditStays DEF DeskInv, NoInvoiceIssued, varsInvoicing
  <2> QED
    BY <1>1, <2>2, <2>3 DEF GenerateOne
<1>2. ASSUME UNCHANGED varsInvoicing PROVE CreditInv'
  BY <1>2, CreditStays DEF DeskInv
<1>3. ASSUME NEW p, NEW t, NEW n, NEW next, NEW interval, NEW end, NEW lines, NEW active,
             \/ CreateTemplateFromInvoice(p, t, n, next, interval)
             \/ CreateTemplate(p, t, next, end, interval, lines)
             \/ UpdateTemplate(p, t, next, end, interval, active, lines)
      PROVE  UNCHANGED varsInvoicing
  BY <1>3 DEF CreateTemplateFromInvoice, CreateTemplate, UpdateTemplate, PlanTemplate
<1> QED
  BY <1>1, <1>2, <1>3 DEF NextTemplates, GenerateNow, GenerateDue

LEMMA InvoicingCredit ==
  ASSUME DeskInv, NextInvoicing
  PROVE  CreditInv' /\ UNCHANGED product
<1>1. CreditInv /\ LinesTyped
  BY DEF DeskInv
<1>2. ASSUME NEW p, NEW draft \in Draft, NEW day, NEW cash \in BOOLEAN, Issue(p, draft, day, cash)
      PROVE  CreditInv' /\ UNCHANGED product
  <2>1. PICK rate \in RatesFor(draft, day) :
          CreateInvoiceIn(ResolveLines(draft.lines), day, draft.currency, rate, 0, cash)
    BY <1>2 DEF Issue
  <2>2. UNCHANGED << crediting, creditRaced, unmatched >>
    BY <1>2 DEF Issue
  <2>3. rate \in Nat
    BY InvoicingAssumption DEF RatesFor, RateMicro, KurserOf, InForce, MicroNok
  <2>4. DocLines(ResolveLines(draft.lines))
    BY <1>1, InvoicingAssumption, ResolvedLines
  <2> QED
    BY <1>1, <2>1, <2>2, <2>3, <2>4, IssueKeeps, RegisterStays
<1>3. ASSUME NEW n \in DOMAIN invoices, NEW amount, MatchPayment(n, amount)
      PROVE  CreditInv' /\ UNCHANGED product
  BY <1>1, <1>3, PaymentKeeps DEF MatchPayment, varsStock
<1>4. ASSUME NEW p \in Person, NEW n \in DOMAIN invoices, StartCredit(p, n)
      PROVE  CreditInv' /\ UNCHANGED product
  BY <1>1, <1>4, AskingKeeps DEF StartCredit, varsStock
<1>5. ASSUME NEW p \in Person, NEW today, IssueCredit(p, today)
      PROVE  CreditInv' /\ UNCHANGED product
  <2> DEFINE n == crediting[p].of
  <2>1. crediting[p].pc = "issue" /\ UNCHANGED << creditRaced, unmatched >>
    BY <1>5 DEF IssueCredit
  <2>2. CASE CreateInvoiceIn(Negated(invoices[n].lines), today, invoices[n].currency,
                             invoices[n].rate, n, FALSE)
                /\ crediting' = [crediting EXCEPT ![p] = [@ EXCEPT !.pc = "match", !.note = Len(invoices')]]
    BY <1>1, <2>1, <2>2, NoteKeeps, RegisterStays
  <2>3. CASE crediting' = [crediting EXCEPT ![p] = NotCrediting] /\ UNCHANGED << invoices, open, varsStock >>
    BY <1>1, <2>1, <2>3, GivingUpKeeps DEF varsStock
  <2> QED
    BY <1>5, <2>2, <2>3 DEF IssueCredit
<1>6. ASSUME NEW p \in Person, MatchCredit(p) PROVE CreditInv' /\ UNCHANGED product
  BY <1>1, <1>6, MatchKeeps DEF MatchCredit, varsStock
<1>7. ASSUME NEW p \in Person, NEW draft \in Draft, NEW day,
             CreateInvoice(p, draft, day) \/ CreateCashInvoice(p, draft, day)
      PROVE  CreditInv' /\ UNCHANGED product
  BY <1>2, <1>7 DEF CreateInvoice, CreateCashInvoice
<1> QED
  BY <1>3, <1>4, <1>5, <1>6, <1>7 DEF NextInvoicing

LEMMA RegisterTyped ==
  ASSUME LinesTyped, NextStock, UNCHANGED varsSales
  PROVE  LinesTyped'
<1>1. ASSUME NEW p, NEW x \in Product, NEW active \in BOOLEAN, NEW stocked \in BOOLEAN,
             NEW price \in StockPrice,
             UpdateProduct(p, x, [active |-> active, stocked |-> stocked, price |-> price])
      PROVE  product' \in [Product -> [active : BOOLEAN, stocked : BOOLEAN, price : StockPrice]]
  BY <1>1 DEF UpdateProduct, LinesTyped
<1>2. ASSUME NEW p, NEW x, NEW day, NEW move, NEW quantity, NEW post,
             \/ RegisterMovement(p, x, day, move) \/ StartCount(p, x, day, quantity)
             \/ Varetelling(p, post) \/ AbortCount(p)
      PROVE  UNCHANGED product
  BY <1>2 DEF RegisterMovement, StartCount, Varetelling, AbortCount
<1>3. product' \in [Product -> [active : BOOLEAN, stocked : BOOLEAN, price : StockPrice]]
  BY <1>1, <1>2 DEF NextStock, LinesTyped
<1> QED
  BY <1>3 DEF LinesTyped, varsSales

LEMMA NextDeskInv ==
  DeskInv /\ [NextSalesDesk]_<< varsStock, varsInvoicing, varsSales >> => DeskInv'
<1> SUFFICES ASSUME DeskInv, [NextSalesDesk]_<< varsStock, varsInvoicing, varsSales >>
             PROVE  DeskInv'
  OBVIOUS
<1>1. SalesInv'
  BY NextSalesInv DEF DeskInv
<1>2. LinesTyped /\ CreditInv
  BY DEF DeskInv
<1>3. CASE NextSalesDocuments
  BY <1>1, <1>3, DocumentsTyped, DocumentsCredit DEF DeskInv
<1>4. CASE NextTemplates
  BY <1>1, <1>4, TemplatesTyped, TemplatesCredit DEF DeskInv
<1>5. CASE NextInvoicing /\ UNCHANGED varsSales
  <2>1. CreditInv' /\ UNCHANGED product
    BY <1>5, InvoicingCredit
  <2>2. LinesTyped'
    BY <1>2, <1>5, <2>1 DEF LinesTyped, varsSales
  <2> QED
    BY <1>1, <2>1, <2>2 DEF DeskInv
<1>6. CASE NextStock /\ UNCHANGED << varsInvoicing, varsSales >>
  BY <1>1, <1>2, <1>6, RegisterTyped, CreditStays DEF DeskInv
<1>7. CASE UNCHANGED << varsStock, varsInvoicing, varsSales >>
  BY <1>1, <1>2, <1>7, CreditStays DEF DeskInv, LinesTyped, varsStock, varsSales
<1> QED
  BY <1>3, <1>4, <1>5, <1>6, <1>7 DEF NextSalesDesk

LEMMA InitDeskInv == InitStock /\ InitInvoicing /\ InitSales => DeskInv
<1> SUFFICES ASSUME InitStock, InitInvoicing, InitSales PROVE DeskInv
  OBVIOUS
<1>1. SalesInv
  BY InitSalesInv
<1>2. /\ invoices = << >> /\ open = << >> /\ crediting = [p \in Person |-> NotCrediting]
      /\ product \in [Product -> [active : {TRUE}, stocked : {TRUE}, price : StockPrice]]
      /\ salesDocs = [d \in SalesDoc |-> UnwrittenDoc] /\ templates = [t \in Template |-> NoTemplate]
  BY DEF InitStock, InitInvoicing, InitSales
<1>3. DocLines(<< >>) /\ UnwrittenDoc.lines = << >> /\ NoTemplate.lines = << >>
  BY DEF DocLines, UnwrittenDoc, NoTemplate
<1>4. LinesTyped
  BY <1>2, <1>3 DEF LinesTyped
<1>5. DOMAIN invoices = {} /\ open \in Seq(Int) /\ Len(open) = Len(invoices) /\ Sequenced
  BY <1>1, <1>2 DEF SalesInv, DocsInv
<1>6. InvoiceTypes /\ ComesOut /\ OpenWithin /\ OneNote /\ OneIsClosed
  BY <1>5 DEF InvoiceTypes, ComesOut, OpenWithin, OneNote, OneIsClosed
<1>7. Requests
  <2>1. /\ NotCrediting \in CreditRequest /\ NotCrediting.pc = "idle" /\ NotCrediting.of = 0
        /\ NotCrediting.note = 0
    BY DEF NotCrediting, CreditRequest
  <2> QED
    BY <1>2, <2>1 DEF Requests
<1> QED
  BY <1>1, <1>4, <1>6, <1>7 DEF DeskInv, CreditInv

LEMMA CreditSays == CreditInv => CreditedOnce
<1> SUFFICES ASSUME CreditInv, NEW n \in DOMAIN invoices, invoices[n].of = 0
             PROVE  /\ (invoices[n].currency = "NOK" \/ ~ Discounted(invoices[n].lines)) => open[n] >= 0
                    /\ Cardinality(NotesOf(n)) > 1 => n \in creditRaced
                    /\ \A m \in NotesOf(n) : TakesBack(n, m) =>
                          /\ open[m] <= 0
                          /\ (invoices[n].currency = "NOK" /\ m \notin unmatched /\ ~ UnderWay(m))
                                => (open[n] = 0 \/ open[m] = 0)
  BY DEF CreditedOnce
<1>0. InvoiceTypes /\ ComesOut /\ OpenWithin /\ OneNote /\ OneIsClosed
  BY DEF CreditInv
<1>1. (invoices[n].currency = "NOK" \/ ~ Discounted(invoices[n].lines)) => open[n] >= 0
  BY <1>0 DEF InvoiceTypes, ComesOut, IsClaim, OpenWithin
<1>2. n \notin creditRaced => Cardinality(NotesOf(n)) \in {0, 1}
  <2> SUFFICES ASSUME n \notin creditRaced PROVE Cardinality(NotesOf(n)) \in {0, 1}
    OBVIOUS
  <2>1. \A m, k \in NotesOf(n) : m = k
    BY <1>0 DEF OneNote
  <2>2. CASE NotesOf(n) = {}
    BY <2>2, FS_EmptySet
  <2>3. ASSUME NEW m \in NotesOf(n) PROVE Cardinality(NotesOf(n)) \in {0, 1}
    <3>1. NotesOf(n) = {m}
      BY <2>1, <2>3
    <3> QED
      BY <3>1, FS_Singleton
  <2> QED
    BY <2>2, <2>3
<1>3. n \notin creditRaced => ~ (Cardinality(NotesOf(n)) > 1)
  <2>1. \A c \in {0, 1} : ~ (c > 1)
    OBVIOUS
  <2> QED
    BY <1>2, <2>1
<1>4. ASSUME NEW m \in NotesOf(n), TakesBack(n, m)
      PROVE  /\ open[m] <= 0
             /\ (invoices[n].currency = "NOK" /\ m \notin unmatched /\ ~ UnderWay(m))
                   => (open[n] = 0 \/ open[m] = 0)
  <2>1. m \in DOMAIN invoices /\ invoices[m].of = n /\ n # 0
    BY <1>0 DEF NotesOf, InvoiceTypes, Sequenced
  <2>2. open[m] <= 0
    BY <1>0, <1>4, <2>1 DEF ComesOut, IsNoteOn, OpenWithin
  <2> QED
    BY <1>0, <1>4, <2>1, <2>2 DEF OneIsClosed
<1> QED
  BY <1>1, <1>3, <1>4

\* An invoice is credited once but where two requests met, and claim and note take off each
\* other what they have in common: for any lines, VAT codes, rates of exchange, payments and
\* people, while quotes, orders and templates are billed beside it.
THEOREM CreditedAtMostOnce == SpecSalesDesk => []CreditedOnce
<1>1. InitStock /\ InitInvoicing /\ InitSales => DeskInv
  BY InitDeskInv
<1>2. DeskInv => CreditedOnce
  BY CreditSays DEF DeskInv
<1> QED
  BY <1>1, <1>2, NextDeskInv, PTL DEF SpecSalesDesk

-----------------------------------------------------------------------------
(***************************************************************************)
(* The stock: what a log of movements gives for a product, and the counts. *)
(***************************************************************************)

\* What a log keeps, row by row.
Keeping(k, log, T) ==
    /\ k[1..0] = << >>
    /\ \A j \in 1..Len(log) : /\ log[j] \in T => k[1..j] = Append(k[1..(j - 1)], log[j])
                              /\ log[j] \notin T => k[1..j] = k[1..(j - 1)]

LEMMA KeptChain ==
  ASSUME NEW R, NEW log \in Seq(R), NEW T
  PROVE  \E k : Kept(log, T) = k[1..Len(log)] /\ Keeping(k, log, T)
<1> DEFINE n == Len(log)
           S == 1..n
           next(v, i) == IF log[i] \in T THEN Append(v, log[i]) ELSE v
           chain(k) == k = [s \in SUBSET S |-> IF s = {} THEN << >>
                                               ELSE next(k[s \ {Max(s)}], Max(s))]
           step == [i \in S |-> [v \in Seq(R) |-> next(v, i)]]
<1>1. n \in Nat /\ Positions(S) /\ << >> \in Seq(R)
  BY LogPlaces, FS_Interval DEF Positions
<1>2. \A i \in S : \A v \in Seq(R) : step[i][v] \in Seq(R)
  <2> SUFFICES ASSUME NEW i \in S, NEW v \in Seq(R) PROVE next(v, i) \in Seq(R)
    OBVIOUS
  <2>1. log[i] \in R
    BY LogPlaces
  <2> QED
    BY <2>1
<1>3. PICK f : Folding(f, step, << >>, S)
  <2> HIDE DEF step, S
  <2> QED
    BY <1>1, FoldsExist
<1>4. ASSUME NEW s \in SUBSET S PROVE f[s] \in Seq(R)
  <2> HIDE DEF step, S
  <2> QED
    BY <1>1, <1>2, <1>3, <1>4, FoldStays
<1>5. ASSUME NEW s \in SUBSET S, s # {}
      PROVE  step[Greatest(s)][f[s \ {Greatest(s)}]] = next(f[s \ {Max(s)}], Max(s))
  <2>1. Greatest(s) = Max(s)
    BY DEF Greatest, Max
  <2>2. Greatest(s) \in s
    <3> HIDE DEF S
    <3> QED
      BY <1>1, <1>5, GreatestIn
  <2>3. f[s \ {Greatest(s)}] \in Seq(R)
    BY <1>4
  <2> HIDE DEF next
  <2> QED
    BY <2>1, <2>2, <2>3
<1>6. chain(f)
  <2> HIDE DEF step, next, S
  <2> QED
    BY <1>3, <1>5 DEF Folding
<1> DEFINE k == CHOOSE c : chain(c)
<1>7. chain(k)
  <2> HIDE DEF chain
  <2> QED
    BY <1>6
<1>8. Kept(log, T) = k[S]
  <2> HIDE DEF S
  <2>1. DOMAIN log = S
    BY LogPlaces DEF S
  <2> QED
    BY <2>1 DEF Kept, FoldLeft, MapThenFoldSet
<1> DEFINE body(s) == IF s = {} THEN << >> ELSE next(k[s \ {Max(s)}], Max(s))
<1>9. k = [s \in SUBSET S |-> body(s)]
  <2> HIDE DEF k, next, S
  <2> QED
    BY <1>7
<1>10. ASSUME NEW s \in SUBSET S PROVE k[s] = body(s)
  <2> HIDE DEF k, body, S
  <2> QED
    BY <1>9
<1>11. k[{}] = << >>
  <2> HIDE DEF k, next
  <2> QED
    BY <1>10
<1>12. ASSUME NEW j \in S PROVE k[1..j] = next(k[1..(j - 1)], j)
  <2>1. j \in Nat \ {0} /\ 1..j \in SUBSET S
    BY <1>1
  <2>2. 1..j # {} /\ Max(1..j) = j /\ (1..j) \ {j} = 1..(j - 1)
    BY <2>1, GreatestUpTo DEF Greatest, Max
  <2>3. k[1..j] = body(1..j)
    BY <1>10, <2>1
  <2> HIDE DEF k, next, S
  <2> QED
    BY <2>2, <2>3
<1> HIDE DEF k
<1>13. 1..0 = {} /\ S = 1..Len(log)
  OBVIOUS
<1> HIDE DEF S
<1> QED
  BY <1>8, <1>11, <1>12, <1>13 DEF Keeping

\* What is kept is of the log, and in the set.
LEMMA KeptTyped ==
  ASSUME NEW R, NEW log \in Seq(R), NEW T
  PROVE  Kept(log, T) \in Seq(R) /\ Kept(log, T) \in Seq(R \cap T)
<1>1. PICK k : Kept(log, T) = k[1..Len(log)] /\ Keeping(k, log, T)
  BY KeptChain
<1> DEFINE n == Len(log)
           B == {j \in 0..n : k[1..j] \in Seq(R) /\ k[1..j] \in Seq(R \cap T)}
<1>2. n \in Nat /\ 1..0 = {} /\ \A j \in 1..n : log[j] \in R /\ j - 1 \in 0..n
  BY LogPlaces
<1>3. 0 \in B
  <2>1. << >> \in Seq(R) /\ << >> \in Seq(R \cap T)
    OBVIOUS
  <2>2. k[1..0] = << >> /\ 0 \in 0..n
    BY <1>1, <1>2 DEF Keeping
  <2> HIDE DEF n
  <2> QED
    BY <2>1, <2>2
<1>4. ASSUME NEW j \in 1..n, j - 1 \in B PROVE j \in B
  <2>1. k[1..(j - 1)] \in Seq(R) /\ k[1..(j - 1)] \in Seq(R \cap T) /\ log[j] \in R
    BY <1>2, <1>4
  <2>2. CASE log[j] \in T
    <3>1. k[1..j] = Append(k[1..(j - 1)], log[j])
      BY <1>1, <2>2 DEF Keeping
    <3>2. log[j] \in R \cap T
      BY <2>1, <2>2
    <3>3. k[1..j] \in Seq(R)
      BY <2>1, <3>1
    <3>4. k[1..j] \in Seq(R \cap T)
      BY <2>1, <3>1, <3>2
    <3> QED
      BY <3>3, <3>4
  <2>3. CASE log[j] \notin T
    <3>1. k[1..j] = k[1..(j - 1)]
      BY <1>1, <2>3 DEF Keeping
    <3> QED
      BY <2>1, <3>1
  <2> QED
    BY <2>2, <2>3
<1>5. n \in B
  <2>1. \A j \in 0..n : j \in B
    <3> HIDE DEF B, n
    <3> QED
      BY <1>2, <1>3, <1>4, ReachesLast
  <2>2. n \in 0..n
    BY <1>2
  <2> QED
    BY <2>1, <2>2
<1> QED
  BY <1>1, <1>5

\* It weighs what the log weighs where only the set counts.
OnlyOf(v, w, T, R) == \A r \in R : v[r] = IF r \in T THEN w[r] ELSE 0

LEMMA KeptWeighs ==
  ASSUME NEW R, NEW log \in Seq(R), NEW T, NEW w, Weights(w, R), NEW v, OnlyOf(v, w, T, R)
  PROVE  Weight(w, Kept(log, T)) = Weight(v, log)
<1>1. PICK k : Kept(log, T) = k[1..Len(log)] /\ Keeping(k, log, T)
  BY KeptChain
<1> DEFINE n == Len(log)
           B == {j \in 0..n : k[1..j] \in Seq(R) /\ Weight(w, k[1..j]) = WeightTo(v, log, j)}
<1>2. n \in Nat /\ 1..0 = {} /\ \A j \in 1..n : log[j] \in R /\ j - 1 \in 0..n
  BY LogPlaces
<1>3. Weights(v, R)
  BY DEF Weights, OnlyOf
<1>4. 0 \in B
  <2>1. k[1..0] = << >> /\ << >> \in Seq(R) /\ 0 \in 0..n
    BY <1>1, <1>2 DEF Keeping
  <2>2. Weight(w, << >>) = 0 /\ WeightTo(v, log, 0) = 0
    BY <1>3, WeightOfNone, WeightIsNumber
  <2> QED
    BY <2>1, <2>2
<1>5. ASSUME NEW j \in 1..n, j - 1 \in B PROVE j \in B
  <2> DEFINE before == k[1..(j - 1)]
             r == log[j]
  <2>1. before \in Seq(R) /\ r \in R /\ Weight(w, before) = WeightTo(v, log, j - 1)
    BY <1>2, <1>5
  <2>2. WeightTo(v, log, j) = WeightTo(v, log, j - 1) + v[r]
    BY <1>3, WeightIsNumber
  <2>3. Weight(w, before) \in Int
    BY <2>1, WeightIsNumber
  <2>4. CASE r \in T
    <3>1. k[1..j] = Append(before, r)
      BY <1>1, <2>4 DEF Keeping
    <3>2. Append(before, r) \in Seq(R) /\ Weight(w, Append(before, r)) = Weight(w, before) + w[r]
      BY <2>1, WeightAppended
    <3>3. v[r] = w[r]
      BY <2>1, <2>4 DEF OnlyOf
    <3> HIDE DEF before, r
    <3>4. k[1..j] \in Seq(R) /\ Weight(w, k[1..j]) = WeightTo(v, log, j)
      BY <2>1, <2>2, <3>1, <3>2, <3>3
    <3>5. j \in 0..n
      BY <1>2
    <3> HIDE DEF n
    <3> QED
      BY <3>4, <3>5
  <2>5. CASE r \notin T
    <3>1. k[1..j] = before
      BY <1>1, <2>5 DEF Keeping
    <3>2. v[r] = 0
      BY <2>1, <2>5 DEF OnlyOf
    <3> HIDE DEF before
    <3> QED
      BY <2>1, <2>2, <2>3, <3>1, <3>2
  <2> QED
    BY <2>4, <2>5
<1>6. n \in B
  <2>1. \A j \in 0..n : j \in B
    <3> HIDE DEF B, n
    <3> QED
      BY <1>2, <1>4, <1>5, ReachesLast
  <2>2. n \in 0..n
    BY <1>2
  <2> QED
    BY <2>1, <2>2
<1>7. Weight(v, log) = WeightTo(v, log, n)
  BY <1>3, WeightIsNumber
<1> QED
  BY <1>1, <1>6, <1>7

\* A movement in the log.
Movement == [product : Product, day : Day, kind : {"kjop", "salg", "justering"}, quantity : Int, cost : Int, invoice : Nat]
Stocks == [quantity : Int, value : Int]

LEMMA MovedStock ==
  ASSUME NEW s \in Stocks, NEW b \in Movement
  PROVE  Moved(s, b) \in Stocks /\ Moved(s, b).quantity = s.quantity + b.quantity
<1>1. s.quantity \in Int /\ s.value \in Int /\ b.quantity \in Int /\ b.cost \in Int /\ 1000 \in Nat \ {0}
  BY DEF Stocks, Movement
<1>2. MoveIn(s, b) \in Int
  <2>1. RoundDiv(b.quantity * b.cost, 1000) \in Int
    BY <1>1, RoundedIsWhole
  <2>2. s.quantity > 0 => RoundDiv(s.value * b.quantity, s.quantity) \in Int
    BY <1>1, RoundedIsWhole
  <2> QED
    BY <2>1, <2>2 DEF MoveIn
<1>3. MoveOut(s, b) \in Int
  <2> DEFINE out == IF -b.quantity < s.quantity THEN -b.quantity ELSE s.quantity
  <2>1. out \in Int
    BY <1>1
  <2> HIDE DEF out
  <2>2. s.quantity > 0 => RoundDiv(s.value * out, s.quantity) \in Int
    BY <1>1, <2>1, RoundedIsWhole
  <2> QED
    BY <2>2 DEF MoveOut, out
<1> QED
  BY <1>1, <1>2, <1>3 DEF Moved, Stocks

\* The value of a stock, row by row.
LEMMA ValueChain ==
  ASSUME NEW log \in Seq(Movement)
  PROVE  \E k : /\ ValueStock(log) = k[1..Len(log)] /\ k[{}] = EmptyStock
                /\ \A j \in 1..Len(log) : k[1..j] = Moved(k[1..(j - 1)], log[j])
<1> DEFINE n == Len(log)
           S == 1..n
           next(v, i) == Moved(v, log[i])
           chain(k) == k = [s \in SUBSET S |-> IF s = {} THEN EmptyStock
                                               ELSE next(k[s \ {Max(s)}], Max(s))]
           step == [i \in S |-> [v \in Stocks |-> next(v, i)]]
<1>1. n \in Nat /\ Positions(S) /\ EmptyStock \in Stocks
  BY LogPlaces, FS_Interval DEF Positions, EmptyStock, Stocks
<1>2. \A i \in S : \A v \in Stocks : step[i][v] \in Stocks
  BY LogPlaces, MovedStock
<1>3. PICK f : Folding(f, step, EmptyStock, S)
  <2> HIDE DEF step, S
  <2> QED
    BY <1>1, FoldsExist
<1>4. ASSUME NEW s \in SUBSET S PROVE f[s] \in Stocks
  <2> HIDE DEF step, S
  <2> QED
    BY <1>1, <1>2, <1>3, <1>4, FoldStays
<1>5. ASSUME NEW s \in SUBSET S, s # {}
      PROVE  step[Greatest(s)][f[s \ {Greatest(s)}]] = next(f[s \ {Max(s)}], Max(s))
  <2>1. Greatest(s) = Max(s)
    BY DEF Greatest, Max
  <2>2. Greatest(s) \in s
    <3> HIDE DEF S
    <3> QED
      BY <1>1, <1>5, GreatestIn
  <2>3. f[s \ {Greatest(s)}] \in Stocks
    BY <1>4
  <2> HIDE DEF next
  <2> QED
    BY <2>1, <2>2, <2>3
<1>6. chain(f)
  <2> HIDE DEF step, next, S
  <2> QED
    BY <1>3, <1>5 DEF Folding
<1> DEFINE k == CHOOSE c : chain(c)
<1>7. chain(k)
  <2> HIDE DEF chain
  <2> QED
    BY <1>6
<1>8. ValueStock(log) = k[S]
  <2> HIDE DEF S
  <2>1. DOMAIN log = S
    BY LogPlaces DEF S
  <2> QED
    BY <2>1 DEF ValueStock, FoldLeft, MapThenFoldSet
<1> DEFINE body(s) == IF s = {} THEN EmptyStock ELSE next(k[s \ {Max(s)}], Max(s))
<1>9. k = [s \in SUBSET S |-> body(s)]
  <2> HIDE DEF k, next, S
  <2> QED
    BY <1>7
<1>10. ASSUME NEW s \in SUBSET S PROVE k[s] = body(s)
  <2> HIDE DEF k, body, S
  <2> QED
    BY <1>9
<1>11. k[{}] = EmptyStock
  <2> HIDE DEF k, next
  <2> QED
    BY <1>10
<1>12. ASSUME NEW j \in S PROVE k[1..j] = next(k[1..(j - 1)], j)
  <2>1. j \in Nat \ {0} /\ 1..j \in SUBSET S
    BY <1>1
  <2>2. 1..j # {} /\ Max(1..j) = j /\ (1..j) \ {j} = 1..(j - 1)
    BY <2>1, GreatestUpTo DEF Greatest, Max
  <2>3. k[1..j] = body(1..j)
    BY <1>10, <2>1
  <2> HIDE DEF k, next, S
  <2> QED
    BY <2>2, <2>3
<1> HIDE DEF k
<1> QED
  BY <1>8, <1>11, <1>12

\* The log of a product by date, day by day.
LEMMA DayChain ==
  ASSUME NEW R, NEW log \in Seq(R), NEW x
  PROVE  \E k : /\ Chronological(log, x) = k[1..MaxDay] /\ k[{}] = << >>
                /\ \A j \in 1..MaxDay : k[1..j] = k[1..(j - 1)] \o OnDay(log, x, j)
<1> DEFINE n == MaxDay
           S == 1..n
           seq == [d \in Day |-> d]
           next(v, i) == v \o OnDay(log, x, seq[i])
           chain(k) == k = [s \in SUBSET S |-> IF s = {} THEN << >>
                                               ELSE next(k[s \ {Max(s)}], Max(s))]
           step == [i \in S |-> [v \in Seq(R) |-> next(v, i)]]
<1>1. n \in Nat /\ Positions(S) /\ << >> \in Seq(R)
  BY StockAssumption, FS_Interval DEF Positions
<1>2. \A i \in S : \A v \in Seq(R) : step[i][v] \in Seq(R)
  <2> SUFFICES ASSUME NEW i \in S, NEW v \in Seq(R) PROVE next(v, i) \in Seq(R)
    OBVIOUS
  <2>1. OnDay(log, x, seq[i]) \in Seq(R)
    BY KeptTyped DEF OnDay
  <2> QED
    BY <2>1
<1>3. PICK f : Folding(f, step, << >>, S)
  <2> HIDE DEF step, S
  <2> QED
    BY <1>1, FoldsExist
<1>4. ASSUME NEW s \in SUBSET S PROVE f[s] \in Seq(R)
  <2> HIDE DEF step, S
  <2> QED
    BY <1>1, <1>2, <1>3, <1>4, FoldStays
<1>5. ASSUME NEW s \in SUBSET S, s # {}
      PROVE  step[Greatest(s)][f[s \ {Greatest(s)}]] = next(f[s \ {Max(s)}], Max(s))
  <2>1. Greatest(s) = Max(s)
    BY DEF Greatest, Max
  <2>2. Greatest(s) \in s
    <3> HIDE DEF S
    <3> QED
      BY <1>1, <1>5, GreatestIn
  <2>3. f[s \ {Greatest(s)}] \in Seq(R)
    BY <1>4
  <2> HIDE DEF next
  <2> QED
    BY <2>1, <2>2, <2>3
<1>6. chain(f)
  <2> HIDE DEF step, next, S
  <2> QED
    BY <1>3, <1>5 DEF Folding
<1> DEFINE k == CHOOSE c : chain(c)
<1>7. chain(k)
  <2> HIDE DEF chain
  <2> QED
    BY <1>6
<1>8. Chronological(log, x) = k[S]
  <2>1. DOMAIN seq = S
    BY DEF Day
  <2>2. Chronological(log, x) = FoldLeft(LAMBDA rows, day : rows \o OnDay(log, x, day), << >>, seq)
    BY DEF Chronological
  <2> HIDE DEF seq, S
  <2> QED
    BY <2>1, <2>2 DEF FoldLeft, MapThenFoldSet
<1> DEFINE body(s) == IF s = {} THEN << >> ELSE next(k[s \ {Max(s)}], Max(s))
<1>9. k = [s \in SUBSET S |-> body(s)]
  <2> HIDE DEF k, next, S
  <2> QED
    BY <1>7
<1>10. ASSUME NEW s \in SUBSET S PROVE k[s] = body(s)
  <2> HIDE DEF k, body, S
  <2> QED
    BY <1>9
<1>11. k[{}] = << >>
  <2> HIDE DEF k, next
  <2> QED
    BY <1>10
<1>12. ASSUME NEW j \in S PROVE k[1..j] = next(k[1..(j - 1)], j)
  <2>1. j \in Nat \ {0} /\ 1..j \in SUBSET S
    BY <1>1
  <2>2. 1..j # {} /\ Max(1..j) = j /\ (1..j) \ {j} = 1..(j - 1)
    BY <2>1, GreatestUpTo DEF Greatest, Max
  <2>3. k[1..j] = body(1..j)
    BY <1>10, <2>1
  <2> HIDE DEF k, next, S
  <2> QED
    BY <2>2, <2>3
<1>13. ASSUME NEW j \in 1..MaxDay PROVE k[1..j] = k[1..(j - 1)] \o OnDay(log, x, j)
  <2>1. j \in S /\ seq[j] = j
    BY DEF Day
  <2>2. k[1..j] = next(k[1..(j - 1)], j)
    <3> HIDE DEF k, next, S
    <3> QED
      BY <1>12, <2>1
  <2> HIDE DEF k, seq
  <2> QED
    BY <2>1, <2>2
<1>14. Chronological(log, x) = k[1..MaxDay]
  BY <1>8
<1> HIDE DEF k
<1> QED
  BY <1>11, <1>13, <1>14

\* The quantity of a stock is what its movements come to.
QuantityOf == [r \in Movement |-> r.quantity]

LEMMA StockQuantity ==
  ASSUME NEW log \in Seq(Movement)
  PROVE  ValueStock(log) \in Stocks /\ ValueStock(log).quantity = Weight(QuantityOf, log)
<1>1. PICK k : /\ ValueStock(log) = k[1..Len(log)] /\ k[{}] = EmptyStock
               /\ \A j \in 1..Len(log) : k[1..j] = Moved(k[1..(j - 1)], log[j])
  BY ValueChain
<1> DEFINE n == Len(log)
           B == {j \in 0..n : k[1..j] \in Stocks /\ k[1..j].quantity = WeightTo(QuantityOf, log, j)}
<1>2. n \in Nat /\ 1..0 = {} /\ \A j \in 1..n : log[j] \in Movement /\ j - 1 \in 0..n
  BY LogPlaces
<1>3. Weights(QuantityOf, Movement)
  BY DEF Weights, QuantityOf, Movement
<1>4. 0 \in B
  <2>1. WeightTo(QuantityOf, log, 0) = 0
    BY <1>3, WeightIsNumber
  <2> QED
    BY <1>1, <1>2, <2>1 DEF EmptyStock, Stocks
<1>5. ASSUME NEW j \in 1..n, j - 1 \in B PROVE j \in B
  <2>1. /\ k[1..(j - 1)] \in Stocks /\ log[j] \in Movement
        /\ k[1..(j - 1)].quantity = WeightTo(QuantityOf, log, j - 1)
    BY <1>2, <1>5
  <2>2. WeightTo(QuantityOf, log, j) = WeightTo(QuantityOf, log, j - 1) + log[j].quantity
    BY <1>2, <1>3, WeightIsNumber DEF QuantityOf
  <2>3. k[1..j] = Moved(k[1..(j - 1)], log[j])
    BY <1>1
  <2> QED
    BY <2>1, <2>2, <2>3, MovedStock
<1>6. n \in B
  <2>1. \A j \in 0..n : j \in B
    <3> HIDE DEF B, n
    <3> QED
      BY <1>2, <1>4, <1>5, ReachesLast
  <2>2. n \in 0..n
    BY <1>2
  <2> QED
    BY <2>1, <2>2
<1>7. Weight(QuantityOf, log) = WeightTo(QuantityOf, log, n)
  BY <1>3, WeightIsNumber
<1> QED
  BY <1>1, <1>6, <1>7

-----------------------------------------------------------------------------
\* Two weights together, and weights that agree on the rows of a log.
LEMMA WeightBoth ==
  ASSUME NEW R, NEW log \in Seq(R), NEW u, Weights(u, R), NEW v, Weights(v, R),
         NEW w, \A r \in R : w[r] = u[r] + v[r]
  PROVE  Weight(w, log) = Weight(u, log) + Weight(v, log)
<1> DEFINE D == DOMAIN log
           f == Weighed(u, log)
           g == Weighed(v, log)
           h == Weighed(w, log)
<1>1. IsFiniteSet(D) /\ Numbers(f, D) /\ Numbers(g, D)
  BY LogPlaces, FS_Interval, WeightIsNumber
<1>2. \A i \in D : h[i] = f[i] + g[i]
  BY LogPlaces DEF Weighed
<1> HIDE DEF D, f, g, h
<1>3. SumOver(h, D) = SumOver(f, D) + SumOver(g, D)
  BY <1>1, <1>2, TotalOfBoth
<1> QED
  BY <1>3 DEF Weight, D, f, g, h

LEMMA WeightSame ==
  ASSUME NEW R, NEW log \in Seq(R), NEW u, NEW v, \A i \in DOMAIN log : u[log[i]] = v[log[i]]
  PROVE  Weight(u, log) = Weight(v, log)
<1>1. IsFiniteSet(DOMAIN log)
  BY LogPlaces, FS_Interval
<1>2. Alike(Weighed(u, log), Weighed(v, log), DOMAIN log)
  BY DEF Alike, Weighed
<1> QED
  BY <1>1, <1>2, TotalSame DEF Weight

\* A log is a log of its own rows.
LEMMA OwnRows ==
  ASSUME NEW R, NEW log \in Seq(R)
  PROVE  log \in Seq(ToSet(log)) /\ ToSet(log) \subseteq R
<1>1. /\ Len(log) \in Nat /\ DOMAIN log = 1..Len(log)
      /\ log = [i \in 1..Len(log) |-> log[i]] /\ \A i \in 1..Len(log) : log[i] \in R
  OBVIOUS
<1>2. \A i \in 1..Len(log) : log[i] \in ToSet(log)
  BY <1>1 DEF ToSet
<1>3. log \in Seq(ToSet(log))
  BY <1>1, <1>2
<1> QED
  BY <1>1, <1>3 DEF ToSet

\* The quantities a product moved by: in all, on a day, up to a day.
OfProduct(x) == [r \in Movement |-> IF r.product = x THEN r.quantity ELSE 0]
On(x, day) == [r \in Movement |-> IF r.product = x /\ r.day = day THEN r.quantity ELSE 0]
UpToDay(x, day) == [r \in Movement |-> IF r.product = x /\ r.day <= day THEN r.quantity ELSE 0]

LEMMA ProductWeights ==
  ASSUME NEW x, NEW day
  PROVE  /\ Weights(OfProduct(x), Movement) /\ Weights(On(x, day), Movement)
         /\ Weights(UpToDay(x, day), Movement) /\ Weights(QuantityOf, Movement)
<1>1. \A r \in Movement : r.quantity \in Int
  BY DEF Movement
<1> QED
  BY <1>1 DEF Weights, OfProduct, On, UpToDay, QuantityOf

\* What is kept of one day.
LEMMA DayWeighs ==
  ASSUME NEW log \in Seq(Movement), NEW x, NEW day
  PROVE  /\ OnDay(log, x, day) \in Seq(Movement)
         /\ Weight(QuantityOf, OnDay(log, x, day)) = Weight(On(x, day), log)
<1> DEFINE T == {m \in ToSet(log) : m.product = x /\ m.day = day}
           R == ToSet(log)
<1>1. log \in Seq(R) /\ R \subseteq Movement
  BY OwnRows
<1>2. OnlyOf(On(x, day), QuantityOf, T, R)
  BY <1>1 DEF OnlyOf, On, QuantityOf
<1>3. Weights(QuantityOf, R)
  BY <1>1, ProductWeights DEF Weights
<1>4. OnDay(log, x, day) = Kept(log, T)
  BY DEF OnDay
<1> HIDE DEF T, R
<1>5. Weight(QuantityOf, Kept(log, T)) = Weight(On(x, day), log)
  BY <1>1, <1>2, <1>3, KeptWeighs
<1>6. Kept(log, T) \in Seq(Movement)
  BY KeptTyped
<1> QED
  BY <1>4, <1>5, <1>6

\* The quantity of a product in stock is what all its movements come to, in whatever order
\* they arrived.
LEMMA ProductQuantity ==
  ASSUME NEW log \in Seq(Movement), NEW x
  PROVE  ProductStatus(log, x) \in Stocks /\ ProductStatus(log, x).quantity = Weight(OfProduct(x), log)
<1>1. PICK k : /\ Chronological(log, x) = k[1..MaxDay] /\ k[{}] = << >>
               /\ \A j \in 1..MaxDay : k[1..j] = k[1..(j - 1)] \o OnDay(log, x, j)
  BY DayChain
<1> DEFINE n == MaxDay
           rows(j) == k[1..j]
           B == {j \in 0..n : rows(j) \in Seq(Movement)
                                /\ Weight(QuantityOf, rows(j)) = Weight(UpToDay(x, j), log)}
<1>2. n \in Nat /\ 1..0 = {}
  BY StockAssumption
<1>3. \A r \in Movement : r.day \in 1..n /\ r.quantity \in Int
  BY DEF Movement, Day
<1>4. 0 \in B
  <2>1. rows(0) = << >> /\ << >> \in Seq(Movement) /\ Weight(QuantityOf, << >>) = 0
    BY <1>1, <1>2, WeightOfNone
  <2>2. ASSUME NEW i \in DOMAIN log PROVE Weighed(UpToDay(x, 0), log)[i] = 0
    <3>1. log[i] \in Movement
      BY LogPlaces
    <3>2. log[i].day \in 1..n
      BY <1>3, <3>1
    <3>3. ~ (log[i].day <= 0)
      BY <3>2
    <3> QED
      BY <3>1, <3>3 DEF Weighed, UpToDay
  <2>3. Weight(UpToDay(x, 0), log) = 0
    <3>1. IsFiniteSet(DOMAIN log)
      BY LogPlaces, FS_Interval
    <3> QED
      BY <2>2, <3>1, TotalOfNothing DEF Weight
  <2>4. 0 \in 0..n
    BY <1>2
  <2> HIDE DEF n, rows
  <2> QED
    BY <2>1, <2>3, <2>4
<1>5. ASSUME NEW j \in 1..n, j - 1 \in B PROVE j \in B
  <2>0. j \in Int /\ j - 1 \in Int /\ j \in 0..n
    BY <1>2
  <2>1. rows(j - 1) \in Seq(Movement) /\ Weight(QuantityOf, rows(j - 1)) = Weight(UpToDay(x, j - 1), log)
    BY <1>5
  <2>2. rows(j) = rows(j - 1) \o OnDay(log, x, j)
    BY <1>1
  <2>3. /\ OnDay(log, x, j) \in Seq(Movement)
        /\ Weight(QuantityOf, OnDay(log, x, j)) = Weight(On(x, j), log)
    BY DayWeighs
  <2>4. /\ rows(j - 1) \o OnDay(log, x, j) \in Seq(Movement)
        /\ Weight(QuantityOf, rows(j - 1) \o OnDay(log, x, j))
              = Weight(QuantityOf, rows(j - 1)) + Weight(QuantityOf, OnDay(log, x, j))
    <3> HIDE DEF rows
    <3> QED
      BY <2>1, <2>3, ProductWeights, WeightJoined
  <2>5. \A r \in Movement : UpToDay(x, j)[r] = UpToDay(x, j - 1)[r] + On(x, j)[r]
    <3> SUFFICES ASSUME NEW r \in Movement PROVE UpToDay(x, j)[r] = UpToDay(x, j - 1)[r] + On(x, j)[r]
      OBVIOUS
    <3>1. r.day \in Int /\ r.quantity \in Int
      BY <1>3
    <3>2. r.day <= j <=> (r.day <= j - 1 \/ r.day = j)
      BY <2>0, <3>1
    <3>3. r.day = j => ~ (r.day <= j - 1)
      BY <2>0, <3>1
    <3> QED
      BY <3>1, <3>2, <3>3 DEF UpToDay, On
  <2>6. Weight(UpToDay(x, j), log) = Weight(UpToDay(x, j - 1), log) + Weight(On(x, j), log)
    BY <2>5, ProductWeights, WeightBoth
  <2>7. rows(j) \in Seq(Movement) /\ Weight(QuantityOf, rows(j)) = Weight(UpToDay(x, j), log)
    <3> HIDE DEF rows
    <3> QED
      BY <2>1, <2>2, <2>3, <2>4, <2>6
  <2> HIDE DEF n, rows
  <2> QED
    BY <2>0, <2>7
<1>6. n \in B
  <2>1. \A j \in 0..n : j \in B
    <3> HIDE DEF B, n
    <3> QED
      BY <1>2, <1>4, <1>5, ReachesLast
  <2>2. n \in 0..n
    BY <1>2
  <2> QED
    BY <2>1, <2>2
<1>7. UpToDay(x, n) = OfProduct(x)
  <2>1. \A r \in Movement : r.day <= n
    BY <1>2, <1>3
  <2> QED
    BY <2>1 DEF UpToDay, OfProduct
<1>8. /\ Chronological(log, x) \in Seq(Movement)
      /\ Weight(QuantityOf, Chronological(log, x)) = Weight(OfProduct(x), log)
  BY <1>1, <1>6, <1>7
<1> QED
  BY <1>8, StockQuantity DEF ProductStatus

-----------------------------------------------------------------------------
\* The log as a count leaves it.
LEMMA AdjustedGives ==
  ASSUME NEW log \in Seq(Movement), NEW x \in Product, NEW day \in Day, NEW quantity \in Int
  PROVE  /\ Adjusted(log, x, day, quantity) \in Seq(Movement)
         /\ Weight(OfProduct(x), Adjusted(log, x, day, quantity)) = quantity
         /\ \E more \in Seq(Movement) : Adjusted(log, x, day, quantity) = log \o more
<1> DEFINE diff == quantity - ProductStatus(log, x).quantity
           r == Row(x, day, "justering", diff, NoCost, 0)
<1>1. ProductStatus(log, x).quantity = Weight(OfProduct(x), log) /\ Weight(OfProduct(x), log) \in Int
  BY ProductQuantity, ProductWeights, WeightIsNumber
<1>2. diff \in Int /\ quantity = Weight(OfProduct(x), log) + diff
  BY <1>1
<1>3. Adjusted(log, x, day, quantity) = IF diff = 0 THEN log ELSE Append(log, r)
  BY DEF Adjusted
<1>4. r \in Movement /\ OfProduct(x)[r] = diff
  <2>1. NoCost \in Int
    BY DEF NoCost
  <2> HIDE DEF diff
  <2>2. r \in Movement
    BY <1>2, <2>1 DEF Row, Movement
  <2>3. r.product = x /\ r.quantity = diff
    BY DEF Row
  <2> HIDE DEF r
  <2> QED
    BY <2>2, <2>3 DEF OfProduct
<1> HIDE DEF diff, r
<1>5. Append(log, r) \in Seq(Movement) /\ Weight(OfProduct(x), Append(log, r)) = Weight(OfProduct(x), log) + diff
  BY <1>4, ProductWeights, WeightAppended
<1>6. CASE diff = 0
  <2>1. << >> \in Seq(Movement) /\ log = log \o << >>
    OBVIOUS
  <2>2. Adjusted(log, x, day, quantity) = log /\ Weight(OfProduct(x), log) = quantity
    BY <1>1, <1>2, <1>3, <1>6
  <2> QED
    BY <2>1, <2>2
<1>7. CASE diff # 0
  <2>1. << r >> \in Seq(Movement) /\ Append(log, r) = log \o << r >>
    BY <1>4
  <2> QED
    BY <1>2, <1>3, <1>5, <1>7, <2>1
<1> QED
  BY <1>6, <1>7

\* What was registered up to a day is all there is of a product that did not move later.
LEMMA QuantityOnDay ==
  ASSUME NEW log \in Seq(Movement), NEW x, NEW day,
         \A i \in DOMAIN log : log[i].product = x => log[i].day <= day
  PROVE  ProductStatus(Kept(log, {m \in ToSet(log) : m.day <= day}), x).quantity
            = Weight(OfProduct(x), log)
<1> DEFINE R == ToSet(log)
           T == {m \in R : m.day <= day}
<1>1. log \in Seq(R) /\ R \subseteq Movement
  BY OwnRows
<1>2. ASSUME NEW r \in R PROVE OfProduct(x)[r] = IF r \in T THEN OfProduct(x)[r] ELSE 0
  <2>1. PICK i \in DOMAIN log : r = log[i]
    BY DEF ToSet
  <2>2. r \in Movement
    BY <1>1
  <2> QED
    BY <2>1, <2>2 DEF OfProduct
<1>3. Weights(OfProduct(x), R) /\ OnlyOf(OfProduct(x), OfProduct(x), T, R)
  BY <1>1, <1>2, ProductWeights DEF Weights, OnlyOf
<1> HIDE DEF T, R
<1>4. Weight(OfProduct(x), Kept(log, T)) = Weight(OfProduct(x), log)
  BY <1>1, <1>3, KeptWeighs
<1>5. Kept(log, T) \in Seq(Movement)
  BY KeptTyped
<1> QED
  BY <1>4, <1>5, ProductQuantity DEF T, R

\* What the stock of some products is worth after the movements of a log.
Worth(log, S) == MapThenSumSet(LAMBDA x : ProductStatus(log, x).value, S)
Values(log) == [x \in Product |-> ProductStatus(log, x).value]

LEMMA WorthSummed ==
  ASSUME NEW log \in Seq(Movement), NEW S \in SUBSET Product
  PROVE  Worth(log, S) = SumOver(Values(log), S) /\ Worth(log, S) \in Int
<1> DEFINE value(x) == ProductStatus(log, x).value
           sum(f) == f = [s \in SUBSET S |-> IF s = {} THEN 0 ELSE value(Pick(s)) + f[s \ {Pick(s)}]]
<1>0. IsFiniteSet(S)
  BY StockAssumption, FS_Subset
<1>1. \A x \in S : Values(log)[x] = value(x) /\ value(x) \in Int
  BY ProductQuantity DEF Values, Stocks
<1>2. ASSUME NEW f PROVE sum(f) <=> Sums(f, Values(log), S)
  <2>1. ASSUME NEW s \in SUBSET S, s # {} PROVE Values(log)[Pick(s)] = value(Pick(s))
    <3>1. Pick(s) \in S
      BY <2>1, PickIn
    <3> HIDE DEF value
    <3> QED
      BY <1>1, <3>1
  <2> HIDE DEF value
  <2> QED
    BY <2>1 DEF Sums
<1>3. Worth(log, S) = (CHOOSE f : sum(f))[S]
  BY DEF Worth, MapThenSumSet, MapThenFoldSet, Pick
<1> HIDE DEF value
<1>4. sum(CHOOSE f : sum(f))
  BY <1>0, <1>2, SumsExist
<1>5. Worth(log, S) = SumOver(Values(log), S)
  BY <1>0, <1>2, <1>3, <1>4, SumsGiveTotal
<1>6. Numbers(Values(log), S)
  BY <1>1 DEF Numbers
<1> QED
  BY <1>0, <1>5, <1>6, TotalIsNumber

\* No movements, no stock.
LEMMA WorthOfNothing ==
  ASSUME NEW S \in SUBSET Product
  PROVE  Worth(<< >>, S) = 0
<1>1. << >> \in Seq(Movement) /\ IsFiniteSet(S)
  BY StockAssumption, FS_Subset
<1>2. ASSUME NEW x PROVE ProductStatus(<< >>, x).value = 0
  <2>1. PICK k : /\ Chronological(<< >>, x) = k[1..MaxDay] /\ k[{}] = << >>
                 /\ \A j \in 1..MaxDay : k[1..j] = k[1..(j - 1)] \o OnDay(<< >>, x, j)
    BY <1>1, DayChain
  <2>2. ASSUME NEW j PROVE OnDay(<< >>, x, j) = << >>
    <3>1. Kept(<< >>, {}) \in Seq({})
      <4>1. << >> \in Seq({})
        OBVIOUS
      <4> QED
        BY <4>1, KeptTyped
    <3>2. {m \in ToSet(<< >>) : m.product = x /\ m.day = j} = {}
      BY DEF ToSet
    <3>3. \A s \in Seq({}) : s = << >>
      OBVIOUS
    <3>4. OnDay(<< >>, x, j) = Kept(<< >>, {})
      BY <3>2 DEF OnDay
    <3> QED
      BY <3>1, <3>3, <3>4
  <2> DEFINE B == {j \in 0..MaxDay : k[1..j] = << >>}
  <2>3. MaxDay \in Nat /\ 1..0 = {}
    BY StockAssumption
  <2>4. 0 \in B
    BY <2>1, <2>3
  <2>5. ASSUME NEW j \in 1..MaxDay, j - 1 \in B PROVE j \in B
    <3>1. k[1..j] = << >> \o << >> /\ j \in 0..MaxDay
      BY <2>1, <2>2, <2>3, <2>5
    <3> QED
      BY <3>1
  <2>6. MaxDay \in B
    <3>1. \A j \in 0..MaxDay : j \in B
      <4> HIDE DEF B
      <4> QED
        BY <2>3, <2>4, <2>5, ReachesLast
    <3> QED
      BY <2>3, <3>1
  <2>7. ProductStatus(<< >>, x) = ValueStock(<< >>)
    BY <2>1, <2>6 DEF ProductStatus
  <2>8. PICK v : /\ ValueStock(<< >>) = v[1..Len(<< >>)] /\ v[{}] = EmptyStock
                 /\ \A j \in 1..Len(<< >>) : v[1..j] = Moved(v[1..(j - 1)], << >>[j])
    BY <1>1, ValueChain
  <2>9. 1..Len(<< >>) = {}
    OBVIOUS
  <2> QED
    BY <2>7, <2>8, <2>9 DEF EmptyStock
<1>3. \A x \in S : Values(<< >>)[x] = 0
  BY <1>2 DEF Values
<1> QED
  BY <1>1, <1>3, WorthSummed, TotalOfNothing

-----------------------------------------------------------------------------
(***************************************************************************)
(* The invariant of the stock: what its tables hold, what each count left  *)
(* behind, and what the one that is alone at it has read.                  *)
(***************************************************************************)
Count == [product : Product \cup {NoProduct}, day : Day, quantity : Int, change : Int, alone : BOOLEAN]

StockTyped ==
    /\ movements \in Seq(Movement) /\ inventoryBook \in Int
    /\ counting \in [Person -> Count]

\* When it was made the log gave what it says.
Held(c, log) ==
    /\ c.rows \in 0..Len(log)
    /\ Weight(OfProduct(c.product), SubSeq(log, 1, c.rows)) = c.quantity
CountsHold == \A c \in counted : Held(c, movements)

BooksAgree == trueBook => inventoryBook = Worth(movements, StockedProducts)

\* What it will leave is what it has read, if nobody came between.
WillLeave(c) == Adjusted(movements, c.product, c.day, c.quantity)
AloneKnows ==
    \A p \in Person : (counting[p].product # NoProduct /\ counting[p].alone)
        => counting[p].change = Worth(WillLeave(counting[p]), StockedProducts) - inventoryBook

StockInv == StockTyped /\ CountsHold /\ BooksAgree /\ AloneKnows

LEMMA StillHeld ==
  ASSUME NEW log \in Seq(Movement), NEW more \in Seq(Movement), NEW c, Held(c, log)
  PROVE  Held(c, log \o more)
<1>1. c.rows \in 0..Len(log) /\ Len(log) \in Nat /\ Len(log \o more) = Len(log) + Len(more) /\ Len(more) \in Nat
  BY DEF Held
<1>2. c.rows \in 0..Len(log \o more)
  BY <1>1
<1>3. SubSeq(log \o more, 1, c.rows) = SubSeq(log, 1, c.rows)
  <2>1. \A i \in 1..c.rows : (log \o more)[i] = log[i]
    BY <1>1
  <2> QED
    BY <1>1, <2>1
<1> QED
  BY <1>2, <1>3 DEF Held

\* Whoever counts is no longer alone when the log has grown.
LEMMA DisturbedKnows ==
  ASSUME StockTyped
  PROVE  /\ Disturbed \in [Person -> Count]
         /\ \A p \in Person : /\ Disturbed[p].product = counting[p].product
                              /\ Disturbed[p].product # NoProduct => ~ Disturbed[p].alone
<1>1. NotCounting \in Count /\ NotCounting.product = NoProduct
  BY StockAssumption DEF NotCounting, Count, Day
<1>2. ASSUME NEW p \in Person
      PROVE  /\ Disturbed[p] \in Count /\ Disturbed[p].product = counting[p].product
             /\ Disturbed[p].product # NoProduct => ~ Disturbed[p].alone
  <2> DEFINE d == [counting[p] EXCEPT !.alone = FALSE]
  <2>1. counting[p] \in Count
    BY DEF StockTyped
  <2>2. d \in Count /\ d.product = counting[p].product /\ ~ d.alone
    BY <2>1 DEF Count
  <2>3. Disturbed[p] = IF counting[p] = NotCounting THEN NotCounting ELSE d
    BY DEF Disturbed
  <2> HIDE DEF d
  <2> QED
    BY <1>1, <2>2, <2>3
<1> QED
  BY <1>2 DEF Disturbed

\* Something arrives that no count has asked for.
LEMMA ArrivalKeeps ==
  ASSUME StockInv, NEW more \in Seq(Movement), movements' = movements \o more,
         trueBook' = FALSE, counting' = Disturbed, UNCHANGED << inventoryBook, counted >>
  PROVE  StockInv'
<1>1. StockTyped /\ CountsHold
  BY DEF StockInv
<1>2. movements' \in Seq(Movement) /\ StockTyped'
  BY <1>1, DisturbedKnows DEF StockTyped
<1>3. CountsHold'
  <2>1. \A c \in counted : Held(c, movements \o more)
    BY <1>1, StillHeld DEF CountsHold, StockTyped
  <2> QED
    BY <2>1 DEF CountsHold
<1>4. AloneKnows'
  <2>1. \A p \in Person : counting'[p].product # NoProduct => ~ counting'[p].alone
    BY <1>1, DisturbedKnows
  <2> QED
    BY <2>1 DEF AloneKnows
<1>5. BooksAgree'
  BY DEF BooksAgree
<1> QED
  BY <1>2, <1>3, <1>4, <1>5 DEF StockInv

\* A count that did not come to an end, and steps of others, leave it as it is.
LEMMA StockStays ==
  ASSUME StockInv, UNCHANGED varsStock
  PROVE  StockInv'
<1>1. UNCHANGED << product, movements, inventoryBook, counting, counted, trueBook >>
  BY DEF varsStock
<1>2. StockTyped' /\ CountsHold'
  BY <1>1 DEF StockInv, StockTyped, CountsHold
<1>3. StockedProducts' = StockedProducts
  BY <1>1 DEF StockedProducts
<1>4. BooksAgree' /\ AloneKnows'
  BY <1>1, <1>3 DEF StockInv, BooksAgree, AloneKnows, WillLeave
<1> QED
  BY <1>2, <1>4 DEF StockInv

\* The lines of a document that move the stock.
LEMMA SalesMove ==
  ASSUME NEW lines, DocLines(lines), NEW day \in Day, NEW no \in Nat
  PROVE  [i \in DOMAIN StockedLines(lines) |->
            Row(StockedLines(lines)[i].product, day, "salg", -StockedLines(lines)[i].quantity, NoCost, no)]
               \in Seq(Movement)
<1> DEFINE T == {l \in ToSet(lines) : l.product # NoProduct /\ l.quantity # 0 /\ product[l.product].stocked}
           sold == StockedLines(lines)
           row(i) == Row(sold[i].product, day, "salg", -sold[i].quantity, NoCost, no)
<1>1. sold \in Seq(DocLine \cap T)
  <2>1. sold = Kept(lines, T)
    BY DEF StockedLines
  <2> HIDE DEF T, sold
  <2> QED
    BY <2>1, KeptTyped DEF DocLines
<1>2. ASSUME NEW l \in DocLine \cap T PROVE Row(l.product, day, "salg", -l.quantity, NoCost, no) \in Movement
  <2>1. l.product \in Product /\ l.quantity \in Int
    BY DEF DocLine
  <2>2. -l.quantity \in Int /\ NoCost \in Int
    BY <2>1 DEF NoCost
  <2> QED
    BY <2>1, <2>2 DEF Row, Movement
<1>3. Len(sold) \in Nat /\ DOMAIN sold = 1..Len(sold) /\ \A i \in 1..Len(sold) : sold[i] \in DocLine \cap T
  <2> HIDE DEF T, sold
  <2> QED
    BY <1>1, LogPlaces
<1>4. \A i \in 1..Len(sold) : row(i) \in Movement
  <2> HIDE DEF T, sold
  <2> QED
    BY <1>2, <1>3
<1> HIDE DEF row, sold
<1>5. [i \in 1..Len(sold) |-> row(i)] \in Seq(Movement)
  BY <1>3, <1>4
<1>6. [i \in DOMAIN sold |-> row(i)] \in Seq(Movement)
  BY <1>3, <1>5
<1> QED
  BY <1>6 DEF row, sold

\* A document is issued.
LEMMA SalesKeep ==
  ASSUME StockInv, NEW lines, DocLines(lines), NEW day \in Day, NEW no \in Nat,
         RecordSalesIn(lines, day, no)
  PROVE  StockInv'
<1> DEFINE sold == StockedLines(lines)
           more == [i \in DOMAIN sold |-> Row(sold[i].product, day, "salg", -sold[i].quantity, NoCost, no)]
<1>1. /\ movements' = movements \o more
      /\ sold = << >> => UNCHANGED << trueBook, counting >>
      /\ sold # << >> => trueBook' = FALSE /\ counting' = Disturbed
      /\ UNCHANGED << product, inventoryBook, counted, registerEdits >>
  BY DEF RecordSalesIn
<1>2. more \in Seq(Movement) /\ (sold = << >> => more = << >>)
  <2>1. more \in Seq(Movement)
    BY SalesMove
  <2>2. sold = << >> => DOMAIN more = {}
    OBVIOUS
  <2>3. \A s \in Seq(Movement) : DOMAIN s = {} => s = << >>
    OBVIOUS
  <2> HIDE DEF more, sold
  <2> QED
    BY <2>1, <2>2, <2>3
<1>3. movements \in Seq(Movement)
  BY DEF StockInv, StockTyped
<1> HIDE DEF more, sold
<1>4. CASE sold = << >>
  <2>1. movements' = movements
    BY <1>1, <1>2, <1>3, <1>4
  <2> QED
    BY <1>1, <1>4, <2>1, StockStays DEF varsStock
<1>5. CASE sold # << >>
  BY <1>1, <1>2, <1>5, ArrivalKeeps
<1> QED
  BY <1>4, <1>5

\* The register is edited, a movement is registered.
LEMMA RegisterEdited ==
  ASSUME StockInv, NEW p, NEW x, NEW row, UpdateProduct(p, x, row)
  PROVE  StockInv'
<1>1. /\ UNCHANGED << movements, inventoryBook, counted >>
      /\ trueBook' = FALSE /\ counting' = Disturbed
  BY DEF UpdateProduct
<1>2. << >> \in Seq(Movement) /\ movements' = movements \o << >>
  BY <1>1 DEF StockInv, StockTyped
<1> QED
  BY <1>1, <1>2, ArrivalKeeps

LEMMA MovementKeeps ==
  ASSUME StockInv, NEW p, NEW x \in Product, NEW day \in Day, NEW move \in StockMove,
         RegisterMovement(p, x, day, move)
  PROVE  StockInv'
<1> DEFINE r == Row(x, day, move.kind, move.quantity, move.cost, 0)
<1>1. /\ movements' = Append(movements, r) /\ trueBook' = FALSE /\ counting' = Disturbed
      /\ UNCHANGED << inventoryBook, counted >>
  BY DEF RegisterMovement
<1>2. r \in Movement
  BY StockAssumption DEF Row, Movement
<1>3. movements \in Seq(Movement)
  BY DEF StockInv, StockTyped
<1> HIDE DEF r
<1>4. << r >> \in Seq(Movement) /\ movements' = movements \o << r >>
  BY <1>1, <1>2, <1>3
<1> QED
  BY <1>1, <1>4, ArrivalKeeps

-----------------------------------------------------------------------------
\* A count begins.
LEMMA CountBegins ==
  ASSUME StockInv, NEW p \in Person, NEW x \in Product, NEW day \in Day,
         NEW quantity \in CountedQuantity, StartCount(p, x, day, quantity)
  PROVE  StockInv'
<1> DEFINE log == Adjusted(movements, x, day, quantity)
           worth == Worth(log, StockedProducts)
           only == \A q \in Person : counting[q] = NotCounting
           c == [product |-> x, day |-> day, quantity |-> quantity, change |-> worth - inventoryBook,
                 alone |-> only]
<1>1. /\ counting' = [Disturbed EXCEPT ![p] = c]
      /\ UNCHANGED << product, movements, inventoryBook, counted, trueBook >>
  BY DEF StartCount, CountedValue, InventoryValue, Worth
<1>2. StockTyped /\ quantity \in Int /\ StockedProducts \in SUBSET Product
  BY StockAssumption DEF StockInv, StockedProducts
<1>3. worth \in Int
  <2>1. log \in Seq(Movement)
    BY <1>2, AdjustedGives DEF StockTyped
  <2> HIDE DEF log
  <2> QED
    BY <1>2, <2>1, WorthSummed
<1>4. c \in Count
  <2>1. worth - inventoryBook \in Int
    <3> HIDE DEF worth
    <3> QED
      BY <1>2, <1>3 DEF StockTyped
  <2>2. only \in BOOLEAN
    OBVIOUS
  <2> HIDE DEF worth, only
  <2> QED
    BY <1>2, <2>1, <2>2 DEF Count
<1>5. StockedProducts' = StockedProducts
  BY <1>1 DEF StockedProducts
<1>6. counting' \in [Person -> Count] /\ counting'[p] = c
      /\ \A q \in Person \ {p} : counting'[q] = Disturbed[q]
  <2> HIDE DEF c
  <2> QED
    BY <1>1, <1>2, <1>4, DisturbedKnows
<1>7. StockTyped' /\ CountsHold' /\ BooksAgree'
  BY <1>1, <1>5, <1>6 DEF StockInv, StockTyped, CountsHold, BooksAgree
<1> DEFINE Left(q) == Adjusted(movements', counting'[q].product, counting'[q].day, counting'[q].quantity)
<1>8. ASSUME NEW q \in Person, counting'[q].product # NoProduct, counting'[q].alone
      PROVE  counting'[q].change = Worth(Left(q), StockedProducts') - inventoryBook'
  <2>1. CASE q = p
    <3>1. Left(q) = log /\ counting'[q].change = worth - inventoryBook
      BY <1>1, <1>6, <2>1
    <3> HIDE DEF log
    <3> QED
      BY <1>1, <1>5, <3>1
  <2>2. CASE q # p
    BY <1>2, <1>6, <1>8, <2>2, DisturbedKnows
  <2> QED
    BY <2>1, <2>2
<1>9. AloneKnows'
  BY <1>8 DEF AloneKnows, WillLeave
<1> QED
  BY <1>7, <1>9 DEF StockInv

\* It ends: the log is adjusted, and the difference may be posted.
LEMMA CountEnds ==
  ASSUME StockInv, NEW p \in Person, NEW post \in BOOLEAN, Varetelling(p, post)
  PROVE  StockInv'
<1> DEFINE c == counting[p]
           log == WillLeave(c)
<1>1. /\ c.product # NoProduct /\ movements' = log
      /\ inventoryBook' = IF post THEN inventoryBook + c.change ELSE inventoryBook
      /\ counted' = {[product |-> c.product, day |-> c.day, quantity |-> c.quantity, rows |-> Len(log)]}
      /\ trueBook' = (post /\ c.alone)
      /\ counting' = [Disturbed EXCEPT ![p] = NotCounting]
      /\ UNCHANGED product
  BY DEF Varetelling, WillLeave
<1>2. StockTyped /\ AloneKnows /\ StockedProducts \in SUBSET Product
  BY DEF StockInv, StockedProducts
<1>3. /\ c \in Count /\ c.product \in Product /\ c.day \in Day /\ c.quantity \in Int /\ c.change \in Int
  BY <1>1, <1>2 DEF StockTyped, Count
<1>4. log \in Seq(Movement) /\ Weight(OfProduct(c.product), log) = c.quantity
  <2> HIDE DEF c
  <2> QED
    BY <1>2, <1>3, AdjustedGives DEF WillLeave, StockTyped
<1>5. NotCounting \in Count /\ NotCounting.product = NoProduct
  BY StockAssumption DEF NotCounting, Count, Day
<1>6. /\ counting' \in [Person -> Count]
      /\ \A q \in Person : counting'[q].product # NoProduct => ~ counting'[q].alone
  BY <1>1, <1>2, <1>5, DisturbedKnows
<1>7. inventoryBook' \in Int
  BY <1>1, <1>2, <1>3 DEF StockTyped
<1>8. StockTyped' /\ AloneKnows'
  <2>1. StockTyped'
    <3> HIDE DEF log
    <3> QED
      BY <1>1, <1>4, <1>6, <1>7 DEF StockTyped
  <2>2. AloneKnows'
    BY <1>6 DEF AloneKnows
  <2> QED
    BY <2>1, <2>2
<1>9. CountsHold'
  <2> DEFINE d == [product |-> c.product, day |-> c.day, quantity |-> c.quantity, rows |-> Len(log)]
  <2>1. SubSeq(log, 1, Len(log)) = log /\ Len(log) \in 0..Len(log)
    <3> HIDE DEF log
    <3> QED
      BY <1>4
  <2>2. d.rows = Len(log) /\ d.product = c.product /\ d.quantity = c.quantity
    OBVIOUS
  <2>3. counted' = {d} /\ movements' = log
    BY <1>1
  <2> HIDE DEF d, log, c
  <2>4. Held(d, log)
    BY <1>4, <2>1, <2>2 DEF Held
  <2> QED
    BY <2>3, <2>4 DEF CountsHold
<1>10. BooksAgree'
  <2>1. StockedProducts' = StockedProducts
    BY <1>1 DEF StockedProducts
  <2>2. ASSUME trueBook' PROVE inventoryBook' = Worth(movements', StockedProducts')
    <3>1. post /\ c.alone
      BY <1>1, <2>2
    <3>2. c.change = Worth(log, StockedProducts) - inventoryBook
      BY <1>1, <1>2, <3>1 DEF AloneKnows
    <3>3. Worth(log, StockedProducts) \in Int
      BY <1>2, <1>4, WorthSummed
    <3>4. inventoryBook \in Int
      BY <1>2 DEF StockTyped
    <3> HIDE DEF log, c
    <3> QED
      BY <1>1, <2>1, <3>1, <3>2, <3>3, <3>4
  <2> QED
    BY <2>2 DEF BooksAgree
<1> QED
  BY <1>8, <1>9, <1>10 DEF StockInv

\* It is given up.
LEMMA CountAborts ==
  ASSUME StockInv, NEW p \in Person, AbortCount(p)
  PROVE  StockInv'
<1>1. /\ counting' = [counting EXCEPT ![p] = NotCounting]
      /\ UNCHANGED << product, movements, inventoryBook, counted, trueBook >>
  BY DEF AbortCount
<1>2. StockTyped
  BY DEF StockInv
<1>3. NotCounting \in Count /\ NotCounting.product = NoProduct
  BY StockAssumption DEF NotCounting, Count, Day
<1>4. StockedProducts' = StockedProducts
  BY <1>1 DEF StockedProducts
<1>5. /\ counting' \in [Person -> Count] /\ counting'[p].product = NoProduct
      /\ \A q \in Person \ {p} : counting'[q] = counting[q]
  BY <1>1, <1>2, <1>3 DEF StockTyped
<1>6. StockTyped' /\ CountsHold' /\ BooksAgree'
  BY <1>1, <1>4, <1>5 DEF StockInv, StockTyped, CountsHold, BooksAgree
<1>7. AloneKnows'
  BY <1>1, <1>4, <1>5 DEF StockInv, AloneKnows, WillLeave
<1> QED
  BY <1>6, <1>7 DEF StockInv

LEMMA StockKeeps == ASSUME StockInv, NextStock PROVE StockInv'
<1>1. ASSUME NEW p \in Person, NEW x \in Product, NEW row, UpdateProduct(p, x, row) PROVE StockInv'
  BY <1>1, RegisterEdited
<1>2. ASSUME NEW p \in Person, NEW x \in Product, NEW day \in Day, NEW move \in StockMove,
             RegisterMovement(p, x, day, move)
      PROVE  StockInv'
  BY <1>2, MovementKeeps
<1>3. ASSUME NEW p \in Person, NEW x \in Product, NEW day \in Day, NEW quantity \in CountedQuantity,
             StartCount(p, x, day, quantity)
      PROVE  StockInv'
  BY <1>3, CountBegins
<1>4. ASSUME NEW p \in Person, NEW post \in BOOLEAN, Varetelling(p, post) PROVE StockInv'
  BY <1>4, CountEnds
<1>5. ASSUME NEW p \in Person, AbortCount(p) PROVE StockInv'
  BY <1>5, CountAborts
<1> QED
  BY <1>1, <1>2, <1>3, <1>4, <1>5 DEF NextStock

-----------------------------------------------------------------------------
\* The stock at the desk: what is issued on a day, and the days templates are due on.
LEMMA InvoiceMoves ==
  ASSUME StockInv, Len(invoices) \in Nat, NEW lines, DocLines(lines), NEW day \in Day,
         NEW currency, NEW rate, NEW of, NEW cash,
         CreateInvoiceIn(lines, day, currency, rate, of, cash)
  PROVE  StockInv'
<1>1. RecordSalesIn(lines, day, Len(invoices) + 1)
  BY DEF CreateInvoiceIn
<1>2. Len(invoices) + 1 \in Nat
  OBVIOUS
<1> QED
  BY <1>1, <1>2, SalesKeep

LEMMA DocumentsMove ==
  ASSUME DeskInv, StockInv, NextSalesDocuments
  PROVE  StockInv'
<1>0. Len(invoices) \in Nat
  BY DEF DeskInv, CreditInv, InvoiceTypes, Sequenced
<1>1. ASSUME NEW p \in Person, NEW o \in SalesDoc, NEW day \in Day, OrderToInvoice(p, o, day)
      PROVE  StockInv'
  <2>1. CreateInvoiceIn(salesDocs[o].lines, day, "NOK", MicroNok, 0, FALSE)
    BY <1>1 DEF OrderToInvoice
  <2>2. DocLines(salesDocs[o].lines)
    BY DEF DeskInv, LinesTyped
  <2> QED
    BY <1>0, <2>1, <2>2, InvoiceMoves
<1>2. ASSUME NEW p, NEW d, NEW o, NEW kind, NEW lines, NEW status,
             \/ CreateSalesDocument(p, d, kind, lines) \/ UpdateQuote(p, d, lines)
             \/ SetQuoteStatus(p, d, status) \/ QuoteToOrder(p, d, o)
      PROVE  StockInv'
  <2>1. UNCHANGED varsStock
    BY <1>2 DEF CreateSalesDocument, UpdateQuote, SetQuoteStatus, QuoteToOrder
  <2> QED
    BY <2>1, StockStays
<1> QED
  BY <1>1, <1>2 DEF NextSalesDocuments

PlannedDays == \A t \in Template : templates[t].next \in Nat \ {0} /\ templates[t].interval \in Nat

LEMMA TemplatesMove ==
  ASSUME DeskInv, StockInv, PlannedDays, NextTemplates
  PROVE  StockInv' /\ PlannedDays'
<1>0. Len(invoices) \in Nat /\ TemplateTable /\ \A day \in Day : day \in Nat \ {0}
  BY DEF DeskInv, CreditInv, InvoiceTypes, Sequenced, SalesInv, PlansInv, Day
<1>1. ASSUME NEW t \in Template, NEW R, R.next \in Nat \ {0}, R.interval \in Nat,
             templates' = [templates EXCEPT ![t] = R]
      PROVE  PlannedDays'
  BY <1>0, <1>1 DEF PlannedDays, TemplateTable
<1>2. ASSUME NEW t \in Template, GenerateOne(t) PROVE StockInv' /\ PlannedDays'
  <2> DEFINE day == templates[t].next
  <2>1. day \in Day /\ templates[t].interval \in Nat
    <3>1. day \in Nat \ {0} /\ day <= Today /\ templates[t].interval \in Nat
      BY <1>2 DEF GenerateOne, DueTemplate, PlannedDays
    <3> HIDE DEF day
    <3> QED
      BY <3>1, SalesAssumption, StockAssumption DEF Day
  <2>2. ASSUME Issued(t) PROVE StockInv'
    <3>1. CreateInvoiceIn(templates[t].lines, day, "NOK", MicroNok, 0, FALSE)
      BY <2>2 DEF Issued
    <3>2. DocLines(templates[t].lines)
      BY DEF DeskInv, LinesTyped
    <3> QED
      BY <1>0, <2>1, <3>1, <3>2, InvoiceMoves
  <2>3. ASSUME NoInvoiceIssued PROVE StockInv'
    BY <2>3, StockStays DEF NoInvoiceIssued
  <2>4. PlannedDays'
    <3> DEFINE R == [templates[t] EXCEPT !.next = day + templates[t].interval]
    <3>1. UNCHANGED templates \/ templates' = [templates EXCEPT ![t] = R]
      BY <1>2 DEF GenerateOne
    <3>2. day + templates[t].interval \in Nat \ {0}
      BY <1>0, <2>1
    <3>3. R.next \in Nat \ {0} /\ R.interval \in Nat
      BY <1>0, <2>1, <3>2 DEF TemplateTable, TemplateRow
    <3> HIDE DEF R
    <3> QED
      BY <1>1, <3>1, <3>3 DEF PlannedDays
  <2>5. StockInv'
    BY <1>2, <2>2, <2>3 DEF GenerateOne
  <2> QED
    BY <2>4, <2>5
<1>3. ASSUME NEW t \in Template, NEW next \in Day, NEW interval \in Interval, NEW end, NEW lines,
             PlanTemplate(t, next, end, interval, lines)
      PROVE  StockInv' /\ PlannedDays'
  <2> DEFINE R == [active |-> TRUE, next |-> next, start |-> next, end |-> end, interval |-> interval,
                   lines |-> lines]
  <2>1. templates' = [templates EXCEPT ![t] = R] /\ UNCHANGED varsStock
    BY <1>3 DEF PlanTemplate
  <2>2. R.next \in Nat \ {0} /\ R.interval \in Nat
    BY <1>0, SalesAssumption
  <2> HIDE DEF R
  <2> QED
    BY <1>1, <2>1, <2>2, StockStays
<1>4. ASSUME NEW p, NEW t \in Template, NEW n, NEW next \in Day, NEW interval \in Interval, NEW end, NEW lines,
             \/ CreateTemplateFromInvoice(p, t, n, next, interval)
             \/ CreateTemplate(p, t, next, end, interval, lines)
      PROVE  StockInv' /\ PlannedDays'
  BY <1>3, <1>4 DEF CreateTemplateFromInvoice, CreateTemplate
<1>5. ASSUME NEW p, NEW t \in Template, NEW next \in Day, NEW end, NEW interval \in Interval, NEW active,
             NEW lines, UpdateTemplate(p, t, next, end, interval, active, lines)
      PROVE  StockInv' /\ PlannedDays'
  <2> DEFINE R == [templates[t] EXCEPT !.next = next, !.end = end, !.interval = interval,
                                       !.active = active, !.lines = ResolveLines(lines)]
  <2>1. templates' = [templates EXCEPT ![t] = R] /\ UNCHANGED varsStock
    BY <1>5 DEF UpdateTemplate
  <2>2. R.next \in Nat \ {0} /\ R.interval \in Nat
    BY <1>0, SalesAssumption DEF TemplateTable, TemplateRow
  <2> HIDE DEF R
  <2> QED
    BY <1>1, <2>1, <2>2, StockStays
<1> QED
  BY <1>2, <1>4, <1>5 DEF NextTemplates, GenerateNow, GenerateDue

LEMMA InvoicingMoves ==
  ASSUME DeskInv, StockInv, NextInvoicing
  PROVE  StockInv'
<1>0. Len(invoices) \in Nat /\ LinesTyped /\ InvoiceTypes
  BY DEF DeskInv, CreditInv, InvoiceTypes, Sequenced
<1>1. ASSUME NEW p, NEW draft \in Draft, NEW day \in Day, NEW cash, Issue(p, draft, day, cash)
      PROVE  StockInv'
  <2>1. PICK rate \in RatesFor(draft, day) :
          CreateInvoiceIn(ResolveLines(draft.lines), day, draft.currency, rate, 0, cash)
    BY <1>1 DEF Issue
  <2>2. DocLines(ResolveLines(draft.lines))
    BY <1>0, InvoicingAssumption, ResolvedLines
  <2> QED
    BY <1>0, <2>1, <2>2, InvoiceMoves
<1>2. ASSUME NEW p \in Person, NEW today \in Day, IssueCredit(p, today) PROVE StockInv'
  <2> DEFINE n == crediting[p].of
  <2>1. CASE CreateInvoiceIn(Negated(invoices[n].lines), today, invoices[n].currency, invoices[n].rate, n, FALSE)
    <3>1. n \in DOMAIN invoices
      BY <1>2 DEF IssueCredit, DeskInv, CreditInv, Requests
    <3>2. DocLines(Negated(invoices[n].lines))
      BY <1>0, <3>1, NegatedToward DEF InvoiceTypes
    <3> QED
      BY <1>0, <2>1, <3>2, InvoiceMoves
  <2>2. CASE UNCHANGED << invoices, open, varsStock >>
    BY <2>2, StockStays
  <2> QED
    BY <1>2, <2>1, <2>2 DEF IssueCredit
<1>3. ASSUME NEW p, NEW n, NEW amount, MatchPayment(n, amount) \/ StartCredit(p, n) \/ MatchCredit(p)
      PROVE  StockInv'
  <2>1. UNCHANGED varsStock
    BY <1>3 DEF MatchPayment, StartCredit, MatchCredit
  <2> QED
    BY <2>1, StockStays
<1>4. ASSUME NEW p, NEW draft \in Draft, NEW day \in Day,
             CreateInvoice(p, draft, day) \/ CreateCashInvoice(p, draft, day)
      PROVE  StockInv'
  BY <1>1, <1>4 DEF CreateInvoice, CreateCashInvoice
<1> QED
  BY <1>2, <1>3, <1>4 DEF NextInvoicing

-----------------------------------------------------------------------------
LEMMA NextStockInv ==
  DeskInv /\ StockInv /\ PlannedDays /\ [NextSalesDesk]_<< varsStock, varsInvoicing, varsSales >>
    => StockInv' /\ PlannedDays'
<1> SUFFICES ASSUME DeskInv, StockInv, PlannedDays,
                    [NextSalesDesk]_<< varsStock, varsInvoicing, varsSales >>
             PROVE  StockInv' /\ PlannedDays'
  OBVIOUS
<1>0. ASSUME UNCHANGED templates PROVE PlannedDays'
  BY <1>0 DEF PlannedDays
<1>1. CASE NextSalesDocuments
  <2>1. UNCHANGED templates
    BY <1>1 DEF NextSalesDocuments, CreateSalesDocument, UpdateQuote, SetQuoteStatus, QuoteToOrder, OrderToInvoice
  <2> QED
    BY <1>0, <1>1, <2>1, DocumentsMove
<1>2. CASE NextTemplates
  BY <1>2, TemplatesMove
<1>3. CASE NextInvoicing /\ UNCHANGED varsSales
  BY <1>0, <1>3, InvoicingMoves DEF varsSales
<1>4. CASE NextStock /\ UNCHANGED << varsInvoicing, varsSales >>
  BY <1>0, <1>4, StockKeeps DEF varsSales
<1>5. CASE UNCHANGED << varsStock, varsInvoicing, varsSales >>
  BY <1>0, <1>5, StockStays DEF varsSales
<1> QED
  BY <1>1, <1>2, <1>3, <1>4, <1>5 DEF NextSalesDesk

LEMMA InitStockInv == InitStock /\ InitSales => StockInv /\ PlannedDays
<1> SUFFICES ASSUME InitStock, InitSales PROVE StockInv /\ PlannedDays
  OBVIOUS
<1>1. NotCounting \in Count /\ NotCounting.product = NoProduct
  BY StockAssumption DEF NotCounting, Count, Day
<1>2. /\ movements = << >> /\ inventoryBook = 0 /\ counting = [p \in Person |-> NotCounting] /\ counted = {}
      /\ templates = [t \in Template |-> NoTemplate]
  BY DEF InitStock, InitSales
<1>3. StockTyped /\ CountsHold /\ AloneKnows
  BY <1>1, <1>2 DEF StockTyped, CountsHold, AloneKnows
<1>4. StockedProducts \in SUBSET Product
  BY DEF StockedProducts
<1>5. BooksAgree
  BY <1>2, <1>4, WorthOfNothing DEF BooksAgree
<1>6. PlannedDays
  BY <1>2 DEF PlannedDays, NoTemplate
<1> QED
  BY <1>3, <1>5, <1>6 DEF StockInv

LEMMA StockSays == StockInv => CountSettlesStock
<1> SUFFICES ASSUME StockInv PROVE CountSettlesStock
  OBVIOUS
<1>1. StockTyped /\ CountsHold /\ BooksAgree
  BY DEF StockInv
<1>2. ASSUME NEW c \in counted,
             \A i \in DOMAIN Then(c) : Then(c)[i].product = c.product => Then(c)[i].day <= c.day
      PROVE  ProductStatus(UpTo(c), c.product).quantity = c.quantity
  <2>1. c.rows \in 0..Len(movements) /\ Weight(OfProduct(c.product), Then(c)) = c.quantity
    BY <1>1 DEF CountsHold, Held, Then
  <2>2. Then(c) \in Seq(Movement)
    BY <1>1, <2>1 DEF StockTyped, Then
  <2> QED
    BY <1>2, <2>1, <2>2, QuantityOnDay DEF UpTo
<1>3. trueBook => inventoryBook = InventoryValue(movements)
  BY <1>1 DEF BooksAgree, InventoryValue, Worth
<1> QED
  BY <1>2, <1>3 DEF CountSettlesStock

\* A count settles the stock, and once its difference is posted the books are worth what the
\* stock is: for any products, prices, movements and people, whatever is invoiced, credited
\* and counted meanwhile.
THEOREM CountsSettle == SpecSalesDesk => []CountSettlesStock
<1>1. InitStock /\ InitInvoicing /\ InitSales => DeskInv /\ StockInv /\ PlannedDays
  BY InitDeskInv, InitStockInv
<1>2. StockInv => CountSettlesStock
  BY StockSays
<1> QED
  BY <1>1, <1>2, NextDeskInv, NextStockInv, PTL DEF SpecSalesDesk

=============================================================================
