---------------------------- MODULE InboundMail ----------------------------
(***************************************************************************)
(* Documents by mail: a company's secret address, the senders it trusts,   *)
(* the queue the mails come in on, and the quarantine.  A mail is routed,  *)
(* judged and stored in separate statements; a release reads the mail      *)
(* before the transaction that puts its attachments in the inbox.          *)
(***************************************************************************)
EXTENDS Access, FiniteSetsExt

CONSTANTS
    Envelope,       \* mails on the queue: id, from, to, attachments (whether any is usable)
    MailAddress,    \* local parts, drawn at random and never drawn twice
    FirstAddress,   \* the one the company has to begin with
    NoEnvelope,
    Domain,         \* the domain entry that covers each sender
    MaxMailTrouble  \* bound: crashes of the consumer and failures of the database

MessageId == {e.id : e \in Envelope}
Sender == {e.from : e \in Envelope}
AllowedSender == Sender \cup {Domain[s] : s \in Sender}

ASSUME EnvelopeAssumption ==
    /\ \A e \in Envelope : e.to \in MailAddress /\ e.attachments \in BOOLEAN
    /\ MaxMailTrouble \in Nat

VARIABLES
    address,    \* the local parts: unused, active or revoked
    allowed,    \* active entries of the list of senders
    queued,     \* each mail's place on the stream
    mailRow,    \* the rows of inbox_mail, keyed by message id
    filed,      \* times the attachments of a row were put in the inbox
    consumer,   \* what the consumer has read of the mail it holds
    deciding,   \* what each person's request has read and not yet done
    unroutable, \* mails that came when no active address was theirs
    trouble

varsMail == << address, allowed, queued, mailRow, filed, consumer, deciding, unroutable, trouble >>

Resting == [op |-> "none"]
Waiting == [pc |-> "idle", mail |-> NoEnvelope, trusted |-> FALSE]
Active == {a \in MailAddress : address[a] = "active"}

InitMail ==
    /\ address = [a \in MailAddress |-> IF a = FirstAddress THEN "active" ELSE "unused"]
    /\ allowed = {}
    /\ queued = [e \in Envelope |-> "outside"]
    /\ mailRow = [i \in MessageId |-> [status |-> "none"]]
    /\ filed = [i \in MessageId |-> 0]
    /\ consumer = Waiting
    /\ deciding = [p \in Person |-> Resting]
    /\ unroutable = {}
    /\ trouble = 0

-----------------------------------------------------------------------------
(***************************************************************************)
(* The company's settings.                                                 *)
(***************************************************************************)

\* The update waits for the row and sees no address that came after it began.
StartRotate(p) ==
    /\ Allowed(p, "InboundMailAdmin")
    /\ deciding[p] = Resting
    /\ deciding' = [deciding EXCEPT ![p] = [op |-> "rotate", seen |-> Active]]
    /\ UNCHANGED << address, allowed, queued, mailRow, filed, consumer, unroutable, trouble >>

RotateMailAddress(p, a) ==
    /\ deciding[p].op = "rotate"
    /\ address[a] = "unused"
    /\ address' = [b \in MailAddress |->
                     IF b = a THEN "active"
                     ELSE IF b \in deciding[p].seen THEN "revoked" ELSE address[b]]
    /\ deciding' = [deciding EXCEPT ![p] = Resting]
    /\ UNCHANGED << allowed, queued, mailRow, filed, consumer, unroutable, trouble >>

AllowSender(s) == allowed' = allowed \cup {s}

AddSender(p, s) ==
    /\ Allowed(p, "InboundMailAdmin")
    /\ deciding[p] = Resting
    /\ AllowSender(s)
    /\ UNCHANGED << address, queued, mailRow, filed, consumer, deciding, unroutable, trouble >>

RevokeSender(p, s) ==
    /\ Allowed(p, "InboundMailAdmin")
    /\ deciding[p] = Resting
    /\ s \in allowed
    /\ allowed' = allowed \ {s}
    /\ UNCHANGED << address, queued, mailRow, filed, consumer, deciding, unroutable, trouble >>

SenderAllowed(s) == s \in allowed \/ Domain[s] \in allowed

-----------------------------------------------------------------------------
(***************************************************************************)
(* The consumer of the queue.                                              *)
(***************************************************************************)
MailArrives(e) ==
    /\ queued[e] = "outside"
    /\ queued' = [queued EXCEPT ![e] = "queued"]
    /\ UNCHANGED << address, allowed, mailRow, filed, consumer, deciding, unroutable, trouble >>

\* The address decides the company; the list of senders is read next.
RouteMail(e) ==
    /\ consumer.pc = "idle"
    /\ queued[e] = "queued"
    /\ queued' = [queued EXCEPT ![e] = "delivered"]
    /\ IF e.to \in Active
       THEN /\ consumer' = [pc |-> "routed", mail |-> e, trusted |-> SenderAllowed(e.from)]
            /\ UNCHANGED unroutable
       ELSE /\ consumer' = [pc |-> "done", mail |-> e, trusted |-> FALSE]
            /\ unroutable' = unroutable \cup {e}
    /\ UNCHANGED << address, allowed, mailRow, filed, deciding, trouble >>

MailStatus(e, trusted) ==
    IF ~ e.attachments THEN "avvist" ELSE IF trusted THEN "mottatt" ELSE "karantene"

\* One transaction; a message id that is there already changes nothing.
ReceiveMail ==
    LET e == consumer.mail
        status == MailStatus(e, consumer.trusted)
    IN
    /\ consumer.pc = "routed"
    /\ IF mailRow[e.id].status # "none"
       THEN UNCHANGED << mailRow, filed >>
       ELSE /\ mailRow' = [mailRow EXCEPT ![e.id] = [status |-> status, mail |-> e]]
            /\ filed' = IF status = "mottatt" THEN [filed EXCEPT ![e.id] = @ + 1] ELSE filed
    /\ consumer' = [consumer EXCEPT !.pc = "done"]
    /\ UNCHANGED << address, allowed, queued, deciding, unroutable, trouble >>

\* receive_mail fails: the consumer writes a line in its log and goes on.
ReceiveFails ==
    /\ consumer.pc = "routed"
    /\ trouble < MaxMailTrouble
    /\ trouble' = trouble + 1
    /\ consumer' = [consumer EXCEPT !.pc = "done"]
    /\ UNCHANGED << address, allowed, queued, mailRow, filed, deciding, unroutable >>

AckMail ==
    /\ consumer.pc = "done"
    /\ queued' = [queued EXCEPT ![consumer.mail] = "acked"]
    /\ consumer' = Waiting
    /\ UNCHANGED << address, allowed, mailRow, filed, deciding, unroutable, trouble >>

\* What was not acknowledged is delivered again.
ConsumerCrash ==
    /\ consumer.pc # "idle"
    /\ trouble < MaxMailTrouble
    /\ trouble' = trouble + 1
    /\ queued' = [queued EXCEPT ![consumer.mail] = "queued"]
    /\ consumer' = Waiting
    /\ UNCHANGED << address, allowed, mailRow, filed, deciding, unroutable >>

-----------------------------------------------------------------------------
(***************************************************************************)
(* The quarantine.                                                         *)
(***************************************************************************)

\* Faulty: no trigger on inbox_mail.
NoMailGuard(i) == mailRow[i].status # "none"

\* inbox_mail_guard: only a mail in quarantine can be decided.
MailGuard(i) == mailRow[i].status = "karantene"

\* The row is read FOR UPDATE outside a transaction, so nothing stays locked.
StartRelease(p, i, trust) ==
    /\ mailRow[i].status = "karantene"
    /\ mailRow[i].mail.attachments
    /\ deciding' = [deciding EXCEPT ![p] = [op |-> "release", id |-> i, trust |-> trust]]

Release(p, i, trust) ==
    /\ Allowed(p, "InboundMailAdmin")
    /\ deciding[p] = Resting
    /\ StartRelease(p, i, trust)
    /\ UNCHANGED << address, allowed, queued, mailRow, filed, consumer, unroutable, trouble >>

\* The documents and the status in one transaction; the guard can undo it.
ReleaseMail(p) ==
    LET r == deciding[p] IN
    /\ r.op = "release"
    /\ IF MailGuard(r.id)
       THEN /\ mailRow' = [mailRow EXCEPT ![r.id].status = "mottatt"]
            /\ filed' = [filed EXCEPT ![r.id] = @ + 1]
            /\ deciding' = [deciding EXCEPT ![p] =
                              IF r.trust THEN [op |-> "trust", sender |-> mailRow[r.id].mail.from]
                              ELSE Resting]
       ELSE /\ deciding' = [deciding EXCEPT ![p] = Resting]
            /\ UNCHANGED << mailRow, filed >>
    /\ UNCHANGED << address, allowed, queued, consumer, unroutable, trouble >>

\* After the commit, in a statement of its own, which a crash may leave out.
TrustSender(p) ==
    /\ deciding[p].op = "trust"
    /\ \/ AllowSender(deciding[p].sender)
       \/ UNCHANGED allowed
    /\ deciding' = [deciding EXCEPT ![p] = Resting]
    /\ UNCHANGED << address, queued, mailRow, filed, consumer, unroutable, trouble >>

RejectMail(i) ==
    /\ mailRow[i].status = "karantene"
    /\ mailRow' = [mailRow EXCEPT ![i].status = "avvist"]

Reject(p, i) ==
    /\ Allowed(p, "InboundMailAdmin")
    /\ deciding[p] = Resting
    /\ RejectMail(i)
    /\ UNCHANGED << address, allowed, queued, filed, consumer, deciding, unroutable, trouble >>

NextMail ==
    \/ \E p \in Person : StartRotate(p) \/ ReleaseMail(p) \/ TrustSender(p)
    \/ \E p \in Person, a \in MailAddress : RotateMailAddress(p, a)
    \/ \E p \in Person, s \in AllowedSender : AddSender(p, s) \/ RevokeSender(p, s)
    \/ \E e \in Envelope : MailArrives(e) \/ RouteMail(e)
    \/ ReceiveMail \/ ReceiveFails \/ AckMail \/ ConsumerCrash
    \/ \E p \in Person, i \in MessageId, trust \in BOOLEAN : Release(p, i, trust)
    \/ \E p \in Person, i \in MessageId : Reject(p, i)

SpecMail == InitMail /\ [][NextMail]_varsMail

-----------------------------------------------------------------------------
Received == [status : {"mottatt", "karantene", "avvist"}, mail : Envelope]
Rotating == [op : {"rotate"}, seen : SUBSET MailAddress]
Releasing == [op : {"release"}, id : MessageId, trust : BOOLEAN]
Trusting == [op : {"trust"}, sender : Sender]

TypeOKMail ==
    /\ address \in [MailAddress -> {"unused", "active", "revoked"}]
    /\ allowed \subseteq AllowedSender
    /\ queued \in [Envelope -> {"outside", "queued", "delivered", "acked"}]
    /\ mailRow \in [MessageId -> {[status |-> "none"]} \cup Received]
    /\ filed \in [MessageId -> Nat]
    /\ consumer \in {Waiting} \cup [pc : {"routed", "done"}, mail : Envelope, trusted : BOOLEAN]
    /\ deciding \in [Person -> {Resting} \cup Rotating \cup Releasing \cup Trusting]
    /\ unroutable \subseteq Envelope
    /\ trouble \in 0..MaxMailTrouble

(***************************************************************************)
(* The attachments of a mail are in the inbox once if it was let through,  *)
(* and not at all otherwise, however often the queue delivers it and       *)
(* however many people release or reject it at once: release_mail's own    *)
(* lock is gone before its transaction starts, and it is the trigger       *)
(* inbox_mail_guard that undoes the second release.                        *)
(***************************************************************************)
FiledOnce ==
    \A i \in MessageId : filed[i] = IF mailRow[i].status = "mottatt" THEN 1 ELSE 0

=============================================================================
