------------------------------ MODULE Payments ------------------------------
(***************************************************************************)
(* Remittering: open supplier posts become a payment list (run), the list  *)
(* an approved pain.001 file, and the payment one voucher that closes the  *)
(* posts.  The posts meanwhile stay open to match_items and to other runs. *)
(***************************************************************************)
EXTENDS Reskontro

CONSTANTS
    NoSession,      \* nobody holds the row of a run
    Person,         \* people of the company
    NoPerson,
    Run,            \* payment runs
    MaxItems,       \* bound: lines of a run
    Amounts         \* amounts the lines of a request may ask for

ASSUME PersonAssumption == NoPerson \notin Person /\ NoSession \notin Session
ASSUME ItemAssumption == MaxItems \in Nat \ {0}

Whole == 0          \* the amount of a line that names none
ASSUME AmountAssumption == Amounts \subseteq Nat

VARIABLES
    run,            \* rows of payment_run
    run_lock,       \* the session that holds the row FOR UPDATE
    policy,         \* attestation policy in force
    paying,         \* the run each session is creating or settling
    contended       \* ghost: entries that two claims ever met on

payVars == << entry, match, match_seq, matching, run, run_lock, policy, paying, contended >>

Status == {"none", "utkast", "godkjent", "utbetalt", "annullert"}
Item == [entry : Nat, amount : Nat \ {0}]

\* voucher is the list of settlement vouchers, by the first of their entries;
\* four_eyes remembers the policy approve_run saw.
NoRun == [status |-> "none", items |-> << >>, creator |-> NoPerson, approver |-> NoPerson,
          four_eyes |-> FALSE, voucher |-> << >>]
NotPaying == [run |-> "none", items |-> << >>]

InitPayments ==
    /\ InitReskontro
    /\ run = [r \in Run |-> NoRun]
    /\ run_lock = [r \in Run |-> NoSession]
    /\ policy \in BOOLEAN
    /\ paying = [s \in Session |-> NotPaying]
    /\ contended = {}

Free(s) == matching[s] = NoMatching /\ paying[s] = NotPaying

\* payment_run_guard, the trigger on every update.
GuardAllows(old, new) ==
    \/ old = "utkast" /\ new \in {"godkjent", "annullert"}
    \/ old = "godkjent" /\ new = "utbetalt"

-----------------------------------------------------------------------------
(***************************************************************************)
(* create_run.                                                             *)
(***************************************************************************)

\* Faulty: offers the whole post, whatever was paid on it.
payable_in_full(e) == IF entry[e].amount < 0 THEN -entry[e].amount ELSE 0

\* What payable_items offers: credit remainders.
payable(e) == IF remaining(e) < 0 THEN -remaining(e) ELSE 0

\* A line without an amount takes the whole open remainder.
Amount(draft) == IF draft.amount = Whole THEN payable(draft.entry) ELSE draft.amount

\* The open remainders are read before the transaction, each line is checked
\* against them by itself, and lines may name the same post. The id of the run
\* is new: no two requests share it.
CheckRun(s, r, drafts) ==
    /\ Free(s)
    /\ run[r].status = "none"
    /\ \A t \in Session : paying[t].run # r
    /\ \A i \in DOMAIN drafts : Amount(drafts[i]) \in 1 .. payable(drafts[i].entry)
    /\ paying' = [paying EXCEPT ![s] = [run |-> r, items |->
                     [i \in DOMAIN drafts |-> [entry |-> drafts[i].entry,
                                               amount |-> Amount(drafts[i])]]]]
    /\ UNCHANGED << entry, match, match_seq, matching, run, run_lock, policy >>

CreateRun(s, p) ==
    LET w == paying[s] IN
    /\ w # NotPaying
    /\ run[w.run].status = "none"
    /\ run' = [run EXCEPT ![w.run] =
                 [NoRun EXCEPT !.status = "utkast", !.items = w.items, !.creator = p]]
    /\ paying' = [paying EXCEPT ![s] = NotPaying]
    /\ UNCHANGED << entry, match, match_seq, matching, run_lock, policy >>

-----------------------------------------------------------------------------
\* Faulty: the approver is never compared with the creator.
ApproveAnyone(r, p) ==
    /\ run_lock[r] = NoSession
    /\ run[r].status = "utkast"
    /\ run' = [run EXCEPT ![r].status = "godkjent", ![r].approver = p, ![r].four_eyes = policy]
    /\ UNCHANGED << entry, match, match_seq, matching, run_lock, policy, paying >>

\* approve_run: the row is locked before anything is read, so that reading,
\* comparing and updating it are one step.
ApproveRun(r, p) ==
    /\ run_lock[r] = NoSession
    /\ run[r].status = "utkast"
    /\ policy => run[r].creator # p
    /\ GuardAllows(run[r].status, "godkjent")
    /\ run' = [run EXCEPT ![r].status = "godkjent", ![r].approver = p, ![r].four_eyes = policy]
    /\ UNCHANGED << entry, match, match_seq, matching, run_lock, policy, paying >>

\* cancel_run: one conditional update.
CancelRun(r) ==
    /\ run_lock[r] = NoSession
    /\ run[r].status = "utkast"
    /\ GuardAllows(run[r].status, "annullert")
    /\ run' = [run EXCEPT ![r].status = "annullert"]
    /\ UNCHANGED << entry, match, match_seq, matching, run_lock, policy, paying >>

-----------------------------------------------------------------------------
(***************************************************************************)
(* settle_run.                                                             *)
(***************************************************************************)
LockRun(s, r) ==
    /\ Free(s)
    /\ run_lock[r] = NoSession
    /\ run[r].status = "godkjent"
    /\ run_lock' = [run_lock EXCEPT ![r] = s]
    /\ paying' = [paying EXCEPT ![s] = [run |-> r, items |-> run[r].items]]
    /\ UNCHANGED << entry, match, match_seq, matching, run, policy >>

\* One debit per line on the account of the post it pays.
Debits(items) ==
    [i \in DOMAIN items |-> [konto |-> entry[items[i].entry].konto, amount |-> items[i].amount]]

\* Faulty: the amount carries the sign of the post.
SignedMatches(items) ==
    {[id |-> match_seq + i, a |-> Len(entry) + i, b |-> items[i].entry,
      amount |-> -items[i].amount] : i \in DOMAIN items}

\* One match row per line: the debit against the post, whatever is open there.
SettlementMatches(items) ==
    {[id |-> match_seq + i, a |-> Len(entry) + i, b |-> items[i].entry,
      amount |-> items[i].amount] : i \in DOMAIN items}

\* Faulty: the run stays approved.
SettleKeepsStatus(s) ==
    LET r == paying[s].run
        items == paying[s].items
    IN  /\ paying[s] # NotPaying
        /\ run_lock[r] = s
        /\ match_seq + Len(items) <= MaxMatch
        /\ entry' = entry \o Debits(items)
        /\ match' = match \cup SettlementMatches(items)
        /\ match_seq' = match_seq + Len(items)
        /\ run' = [run EXCEPT ![r].voucher = Append(@, Len(entry) + 1)]
        /\ run_lock' = [run_lock EXCEPT ![r] = NoSession]
        /\ paying' = [paying EXCEPT ![s] = NotPaying]
        /\ UNCHANGED << matching, policy >>

\* Voucher, matches and status become visible together.
SettleRun(s) ==
    LET r == paying[s].run
        items == paying[s].items
    IN  /\ paying[s] # NotPaying
        /\ run_lock[r] = s
        /\ match_seq + Len(items) <= MaxMatch
        /\ GuardAllows(run[r].status, "utbetalt")
        /\ entry' = entry \o Debits(items)
        /\ match' = match \cup SettlementMatches(items)
        /\ match_seq' = match_seq + Len(items)
        /\ run' = [run EXCEPT ![r].status = "utbetalt",
                              ![r].voucher = Append(@, Len(entry) + 1)]
        /\ run_lock' = [run_lock EXCEPT ![r] = NoSession]
        /\ paying' = [paying EXCEPT ![s] = NotPaying]
        /\ UNCHANGED << matching, policy >>

\* Any error or a dropped connection: the transaction leaves nothing.
AbandonPayment(s) ==
    /\ paying[s] # NotPaying
    /\ paying' = [paying EXCEPT ![s] = NotPaying]
    /\ run_lock' = [r \in Run |-> IF run_lock[r] = s THEN NoSession ELSE run_lock[r]]
    /\ UNCHANGED << entry, match, match_seq, matching, run, policy >>

\* set_policy: the newest row governs.
SetPolicy ==
    /\ policy' = ~policy
    /\ UNCHANGED << entry, match, match_seq, matching, run, run_lock, paying >>

-----------------------------------------------------------------------------
(***************************************************************************)
(* Who counts on the remainder of e: the lines of live runs and of runs    *)
(* being created, and the matches read but not inserted.                   *)
(***************************************************************************)
LinesOn(items, e) == Cardinality({i \in DOMAIN items : items[i].entry = e})
Live(r) == run[r].status \in {"utkast", "godkjent"}
Creating(s) == paying[s] # NotPaying /\ run[paying[s].run].status = "none"
Claims(e) ==
    MapThenSumSet(LAMBDA r : LinesOn(run[r].items, e), {r \in Run : Live(r)})
    + MapThenSumSet(LAMBDA s : LinesOn(paying[s].items, e), {s \in Session : Creating(s)})
    + Cardinality({s \in Session : matching[s] # NoMatching /\ e \in {matching[s].a, matching[s].b}})

Request == UNION {[1 .. n -> [entry : DOMAIN Opening, amount : Amounts]] : n \in 1 .. MaxItems}

NextPayments ==
    /\ \/ \E s \in Session :
            \/ \E r \in Run, drafts \in Request : CheckRun(s, r, drafts)
            \/ \E p \in Person : CreateRun(s, p)
            \/ \E r \in Run : LockRun(s, r)
            \/ SettleRun(s) \/ AbandonPayment(s)
       \/ \E r \in Run : (\E p \in Person : ApproveRun(r, p)) \/ CancelRun(r)
       \/ SetPolicy
       \/ /\ NextReskontro
          /\ \A s \in Session : matching'[s] # matching[s] => paying[s] = NotPaying
          /\ UNCHANGED << run, run_lock, policy, paying >>
    /\ contended' = contended \cup {e \in DOMAIN entry' : Claims(e)' > 1}

SpecPayments == InitPayments /\ [][NextPayments]_payVars

-----------------------------------------------------------------------------
(***************************************************************************)
(* Properties.                                                             *)
(***************************************************************************)
TypeOKPayments ==
    /\ TypeOKReskontro
    /\ run \in [Run -> [status : Status, items : Seq(Item), creator : Person \cup {NoPerson},
                        approver : Person \cup {NoPerson}, four_eyes : BOOLEAN,
                        voucher : Seq(Nat)]]
    /\ run_lock \in [Run -> Session \cup {NoSession}]
    /\ policy \in BOOLEAN
    /\ contended \subseteq DOMAIN entry

\* Money leaves once: a run has one settlement voucher when it is paid and none
\* before or when it is cancelled, however often and by whomever it is settled,
\* approved or cancelled at the same time (payments.rs:321-432).
PaidOnce == \A r \in Run : Len(run[r].voucher) = IF run[r].status = "utbetalt" THEN 1 ELSE 0

\* Four eyes on money out: what was approved under the policy has passed two
\* people, also when the policy is switched meanwhile (payments.rs:225-239).
FourEyes == \A r \in Run : run[r].four_eyes => run[r].approver \notin {NoPerson, run[r].creator}

\* A post is never settled beyond its amount as long as no two claims on its
\* remainder were live together: races between requests, and runs or lines that
\* share a post, are all that can overpay (subledger.rs:181-252, payments.rs:125).
OverpaidOnlyIfContended == \A e \in DOMAIN entry : Overmatched(e) => e \in contended

\* payments.rs:323 "the open posts close exactly when the payment is booked": no
\* settlement takes a post past zero.
PaymentClosesExactly ==
    [][\A r \in Run : run[r].status # "utbetalt" /\ run'[r].status = "utbetalt" =>
         \A i \in DOMAIN run[r].items : ~Overmatched(run[r].items[i].entry)']_payVars

=============================================================================
