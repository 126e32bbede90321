------------------------------ MODULE Dispatch ------------------------------
(***************************************************************************)
(* Mail going out: a payload is built from what is stored, published on    *)
(* the stream and acknowledged by it, and only then written in the log.    *)
(* The id of the log row is the id the stream tells duplicates by.         *)
(***************************************************************************)
EXTENDS Access

CONSTANTS
    Subject,        \* what is sent: invoices, reminders, open invitations
    Invitation,     \* those of them that are invitations
    DispatchId,     \* ids drawn for sends
    NoSubject

ASSUME DispatchAssumption ==
    /\ Invitation \subseteq Subject /\ NoSubject \notin Subject
    /\ {"idle", "publish"} \cap DispatchId = {}

VARIABLES
    openInvitation, \* invitations neither accepted nor revoked
    outbox,         \* messages the stream has accepted, by id
    utsendelse,     \* the log: what each id sent
    publishing,     \* what each person's request has got to
    reported        \* what each person was told of their last send

varsDispatch == << openInvitation, outbox, utsendelse, publishing, reported >>

NotSending == [pc |-> "idle", subject |-> NoSubject]

InitDispatch ==
    /\ openInvitation = Invitation
    /\ outbox = [d \in DispatchId |-> NoSubject]
    /\ utsendelse = [d \in DispatchId |-> NoSubject]
    /\ publishing = [p \in Person |-> NotSending]
    /\ reported = [p \in Person |-> [subject |-> NoSubject, sent |-> FALSE]]

\* The document must exist, and an invitation must still be open.
HasPayload(s) == s \in Invitation => s \in openInvitation

Told(p, s, sent) == reported' = [reported EXCEPT ![p] = [subject |-> s, sent |-> sent]]

StartSend(p, s, right) ==
    /\ Allowed(p, right)
    /\ publishing[p] = NotSending
    /\ HasPayload(s)
    /\ publishing' = [publishing EXCEPT ![p] = [pc |-> "publish", subject |-> s]]
    /\ UNCHANGED << openInvitation, outbox, utsendelse, reported >>

SendDocument(p, s) == s \notin Invitation /\ StartSend(p, s, "InvoiceSend")
SendInvitation(p, s) == s \in Invitation /\ StartSend(p, s, "MemberAdmin")

\* Faulty: the answer of the stream is not waited for.
PublishUnacknowledged(p, d) ==
    /\ publishing[p].pc = "publish"
    /\ outbox[d] = NoSubject
    /\ outbox' \in {outbox, [outbox EXCEPT ![d] = publishing[p].subject]}
    /\ publishing' = [publishing EXCEPT ![p] = [@ EXCEPT !.pc = d]]
    /\ UNCHANGED << openInvitation, utsendelse, reported >>

\* A fresh id; the stream takes the message, or its answer does not come.
Publish(p, d) ==
    /\ publishing[p].pc = "publish"
    /\ outbox[d] = NoSubject
    /\ \/ /\ outbox' = [outbox EXCEPT ![d] = publishing[p].subject]
          /\ publishing' = [publishing EXCEPT ![p] = [@ EXCEPT !.pc = d]]
          /\ UNCHANGED reported
       \/ /\ outbox' \in {outbox, [outbox EXCEPT ![d] = publishing[p].subject]}
          /\ publishing' = [publishing EXCEPT ![p] = NotSending]
          /\ Told(p, publishing[p].subject, FALSE)
    /\ UNCHANGED << openInvitation, utsendelse >>

\* The row of the log; without it the request fails though the mail is out.
LogDispatch(p) ==
    LET d == publishing[p].pc IN
    /\ d \in DispatchId
    /\ \/ /\ utsendelse' = [utsendelse EXCEPT ![d] = publishing[p].subject]
          /\ Told(p, publishing[p].subject, TRUE)
       \/ /\ Told(p, publishing[p].subject, FALSE)
          /\ UNCHANGED utsendelse
    /\ publishing' = [publishing EXCEPT ![p] = NotSending]
    /\ UNCHANGED << openInvitation, outbox >>

AnswerInvitation(s) ==
    /\ s \in openInvitation
    /\ openInvitation' = openInvitation \ {s}
    /\ UNCHANGED << outbox, utsendelse, publishing, reported >>

NextDispatch ==
    \/ \E p \in Person, s \in Subject : SendDocument(p, s) \/ SendInvitation(p, s)
    \/ \E p \in Person, d \in DispatchId : Publish(p, d)
    \/ \E p \in Person : LogDispatch(p)
    \/ \E s \in Invitation : AnswerInvitation(s)

SpecDispatch == InitDispatch /\ [][NextDispatch]_varsDispatch

-----------------------------------------------------------------------------
TypeOKDispatch ==
    /\ openInvitation \subseteq Invitation
    /\ outbox \in [DispatchId -> Subject \cup {NoSubject}]
    /\ utsendelse \in [DispatchId -> Subject \cup {NoSubject}]
    /\ publishing \in [Person -> [pc : {"idle", "publish"} \cup DispatchId,
                                  subject : Subject \cup {NoSubject}]]
    /\ reported \in [Person -> [subject : Subject \cup {NoSubject}, sent : BOOLEAN]]

(***************************************************************************)
(* The log never claims a mail that did not go: a row of it has a message  *)
(* of its own on the stream, for the same subject, and whoever was told    *)
(* that a mail was sent finds it there.  The other way round does not      *)
(* hold: a failure between the two leaves a mail that no row accounts for. *)
(***************************************************************************)
LoggedIsSent ==
    /\ \A d \in DispatchId : utsendelse[d] # NoSubject => outbox[d] = utsendelse[d]
    /\ \A p \in Person : reported[p].sent =>
          \E d \in DispatchId : utsendelse[d] = reported[p].subject

=============================================================================
