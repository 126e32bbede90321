--------------------------- MODULE PaymentsProofs ---------------------------
(***************************************************************************)
(* Proofs about open posts (modules Payments and CurrencyPosts), for any   *)
(* number of people, requests, runs, lines, posts and match rows.  The     *)
(* first part is about the rows of the runs and holds whatever the posts   *)
(* are; the second is about what is open on the posts, and who counts on   *)
(* it; the third is about posts in another currency and what rounding does *)
(* to them.                                                                *)
(***************************************************************************)
EXTENDS Payments, CurrencyPosts, FiniteSums

\* A row of payment_run has its columns; what its lines are does not matter.
Column == {"status", "items", "creator", "approver", "four_eyes", "voucher"}
Row(R) == R = [c \in Column |-> R[c]]

Shape ==
    /\ run = [r \in Run |-> run[r]]
    /\ \A r \in Run : Row(run[r])
    /\ paying = [s \in Session |-> paying[s]]
    /\ \A s \in Session : paying[s] = NotPaying \/ paying[s].run \in Run

\* A run that is paid has one settlement voucher, and no other run has any.
Vouchers ==
    \A r \in Run : IF run[r].status = "utbetalt"
                   THEN \E e : run[r].voucher = << e >>
                   ELSE run[r].voucher = << >>

PaymentsInv == Shape /\ Vouchers /\ FourEyes

\* No run yet and nobody at work.
LEMMA InitPaymentsInv == InitPayments => PaymentsInv
<1> SUFFICES ASSUME InitPayments PROVE PaymentsInv
  OBVIOUS
<1>1. run = [r \in Run |-> NoRun] /\ paying = [s \in Session |-> NotPaying]
  BY DEF InitPayments
<1>2. Row(NoRun) /\ NoRun.status = "none" /\ NoRun.voucher = << >> /\ NoRun.four_eyes = FALSE
  BY DEF Row, Column, NoRun
<1> QED
  BY <1>1, <1>2 DEF PaymentsInv, Shape, Vouchers, FourEyes

\* The row of a run that is paid with voucher v, and what that leaves of its columns.
Settled(r, v) == [r EXCEPT !.status = "utbetalt", !.voucher = v]

LEMMA RowSettled ==
  ASSUME NEW r, Row(r), NEW v
  PROVE  /\ Row(Settled(r, v)) /\ Settled(r, v).status = "utbetalt" /\ Settled(r, v).voucher = v
         /\ Settled(r, v).items = r.items /\ Settled(r, v).creator = r.creator
         /\ Settled(r, v).approver = r.approver /\ Settled(r, v).four_eyes = r.four_eyes
BY DEF Row, Column, Settled

\* A step that gives one run a new row.
LEMMA OneRow ==
  ASSUME PaymentsInv, NEW q \in Run, NEW R, Row(R),
         run' = [run EXCEPT ![q] = R],
         IF R.status = "utbetalt" THEN \E e : R.voucher = << e >> ELSE R.voucher = << >>,
         R.four_eyes => R.approver \notin {NoPerson, R.creator}
  PROVE  /\ run' = [r \in Run |-> run'[r]] /\ \A r \in Run : Row(run'[r])
         /\ Vouchers'
         /\ FourEyes'
<1>1. /\ run' = [r \in Run |-> run'[r]]
      /\ run'[q] = R
      /\ \A r \in Run : r # q => run'[r] = run[r]
  BY DEF PaymentsInv, Shape
<1>2. \A r \in Run : Row(run'[r])
  BY <1>1 DEF PaymentsInv, Shape
<1>3. Vouchers'
  BY <1>1 DEF PaymentsInv, Vouchers
<1>4. FourEyes'
  BY <1>1 DEF PaymentsInv, FourEyes
<1> QED
  BY <1>1, <1>2, <1>3, <1>4

\* A step that gives one session something else to do.
LEMMA OneSession ==
  ASSUME Shape, NEW s \in Session, NEW P, P = NotPaying \/ P.run \in Run,
         paying' = [paying EXCEPT ![s] = P]
  PROVE  /\ paying' = [t \in Session |-> paying'[t]]
         /\ \A t \in Session : paying'[t] = NotPaying \/ paying'[t].run \in Run
  BY DEF Shape

\* Every step keeps the invariant: the trigger and the row lock leave a run one way
\* to be paid.
LEMMA NextPaymentsInv == PaymentsInv /\ [NextPayments]_payVars => PaymentsInv'
<1> SUFFICES ASSUME PaymentsInv, [NextPayments]_payVars PROVE PaymentsInv'
  OBVIOUS
<1>1. ASSUME UNCHANGED run,
             /\ paying' = [s \in Session |-> paying'[s]]
             /\ \A s \in Session : paying'[s] = NotPaying \/ paying'[s].run \in Run
      PROVE  PaymentsInv'
  BY <1>1 DEF PaymentsInv, Shape, Vouchers, FourEyes
<1>2. ASSUME UNCHANGED << run, paying >> PROVE PaymentsInv'
  BY <1>2 DEF PaymentsInv, Shape, Vouchers, FourEyes
<1>3. CASE UNCHANGED payVars
  BY <1>2, <1>3 DEF payVars
<1>4. ASSUME NEW s \in Session, NEW r \in Run, NEW drafts, CheckRun(s, r, drafts)
      PROVE  PaymentsInv'
  <2> DEFINE P == [run |-> r, items |-> [i \in DOMAIN drafts |->
                     [entry |-> drafts[i].entry, amount |-> Amount(drafts[i])]]]
  <2>1. paying' = [paying EXCEPT ![s] = P] /\ UNCHANGED run /\ P.run \in Run
    BY <1>4 DEF CheckRun
  <2> HIDE DEF P
  <2> QED
    BY <1>1, <2>1, OneSession DEF PaymentsInv
<1>5. ASSUME NEW s \in Session, NEW p \in Person, CreateRun(s, p) PROVE PaymentsInv'
  <2> DEFINE q == paying[s].run
             R == [NoRun EXCEPT !.status = "utkast", !.items = paying[s].items, !.creator = p]
  <2>1. Row(R) /\ R.status = "utkast" /\ R.voucher = << >> /\ R.four_eyes = FALSE
    BY DEF Row, Column, NoRun
  <2>2. run' = [run EXCEPT ![q] = R] /\ paying' = [paying EXCEPT ![s] = NotPaying] /\ q \in Run
    BY <1>5 DEF CreateRun, PaymentsInv, Shape
  <2> HIDE DEF R, q
  <2> QED
    BY <2>1, <2>2, OneRow, OneSession DEF PaymentsInv, Shape
<1>6. ASSUME NEW r \in Run, NEW p \in Person, ApproveRun(r, p) PROVE PaymentsInv'
  <2> DEFINE R == [run[r] EXCEPT !.status = "godkjent", !.approver = p, !.four_eyes = policy]
  <2>1. /\ Row(R) /\ R.status = "godkjent" /\ R.approver = p /\ R.four_eyes = policy
        /\ R.creator = run[r].creator /\ R.voucher = run[r].voucher
    <3>1. Row(run[r])
      BY DEF PaymentsInv, Shape
    <3> QED
      BY <3>1 DEF Row, Column
  <2>2. run' = [run EXCEPT ![r] = R] /\ UNCHANGED paying
    BY <1>6 DEF ApproveRun
  <2>3. R.voucher = << >>
    BY <1>6, <2>1 DEF ApproveRun, PaymentsInv, Vouchers
  <2>4. R.four_eyes => R.approver \notin {NoPerson, R.creator}
    <3>1. policy => run[r].creator # p
      BY <1>6 DEF ApproveRun
    <3>2. p # NoPerson
      BY PersonAssumption
    <3> HIDE DEF R
    <3>3. R.four_eyes => policy
      BY <2>1, Zenon
    <3> QED
      BY <2>1, <3>1, <3>2, <3>3
  <2> HIDE DEF R
  <2> QED
    BY <2>1, <2>2, <2>3, <2>4, OneRow DEF PaymentsInv, Shape
<1>7. ASSUME NEW r \in Run, CancelRun(r) PROVE PaymentsInv'
  <2> DEFINE R == [run[r] EXCEPT !.status = "annullert"]
  <2>1. /\ Row(R) /\ R.status = "annullert" /\ R.approver = run[r].approver
        /\ R.four_eyes = run[r].four_eyes /\ R.creator = run[r].creator
        /\ R.voucher = run[r].voucher
    BY DEF PaymentsInv, Shape, Row, Column
  <2>2. run' = [run EXCEPT ![r] = R] /\ UNCHANGED paying
    BY <1>7 DEF CancelRun
  <2>3. R.voucher = << >>
    BY <1>7, <2>1 DEF CancelRun, PaymentsInv, Vouchers
  <2>4. R.four_eyes => R.approver \notin {NoPerson, R.creator}
    BY <2>1 DEF PaymentsInv, FourEyes
  <2> HIDE DEF R
  <2> QED
    BY <2>1, <2>2, <2>3, <2>4, OneRow DEF PaymentsInv, Shape
<1>8. ASSUME NEW s \in Session, NEW r \in Run, LockRun(s, r) PROVE PaymentsInv'
  <2> DEFINE P == [run |-> r, items |-> run[r].items]
  <2>1. paying' = [paying EXCEPT ![s] = P] /\ UNCHANGED run /\ P.run \in Run
    BY <1>8 DEF LockRun
  <2> HIDE DEF P
  <2> QED
    BY <1>1, <2>1, OneSession DEF PaymentsInv
<1>9. ASSUME NEW s \in Session, SettleRun(s) PROVE PaymentsInv'
  <2> DEFINE q == paying[s].run
             R == [run[q] EXCEPT !.status = "utbetalt", !.voucher = Append(@, Len(entry) + 1)]
  <2>1. q \in Run /\ run[q].status = "godkjent"
    BY <1>9 DEF SettleRun, GuardAllows, PaymentsInv, Shape
  <2>2. /\ Row(R) /\ R.status = "utbetalt" /\ R.approver = run[q].approver
        /\ R.four_eyes = run[q].four_eyes /\ R.creator = run[q].creator
        /\ R.voucher = Append(run[q].voucher, Len(entry) + 1)
    <3>1. Row(run[q])
      BY <2>1 DEF PaymentsInv, Shape
    <3> DEFINE v == Append(run[q].voucher, Len(entry) + 1)
    <3>2. R = Settled(run[q], v)
      BY DEF Settled
    <3> HIDE DEF R, q, v
    <3>3. /\ Row(R) /\ R.status = "utbetalt" /\ R.voucher = v
          /\ R.items = run[q].items /\ R.creator = run[q].creator
          /\ R.approver = run[q].approver /\ R.four_eyes = run[q].four_eyes
      BY <3>1, <3>2, RowSettled
    <3> QED
      BY <3>3 DEF v
  <2>3. run[q].voucher = << >>
    BY <2>1 DEF PaymentsInv, Vouchers
  <2>4. \E e : R.voucher = << e >>
    <3>1. R.voucher = Append(<< >>, Len(entry) + 1)
      BY <2>2, <2>3
    <3>2. Append(<< >>, Len(entry) + 1) = << Len(entry) + 1 >>
      BY SMT
    <3> QED
      BY <3>1, <3>2, Zenon
  <2>5. R.four_eyes => R.approver \notin {NoPerson, R.creator}
    BY <2>1, <2>2 DEF PaymentsInv, FourEyes
  <2>6. run' = [run EXCEPT ![q] = R] /\ paying' = [paying EXCEPT ![s] = NotPaying]
    BY <1>9 DEF SettleRun
  <2> HIDE DEF R, q
  <2> QED
    BY <2>1, <2>2, <2>4, <2>5, <2>6, OneRow, OneSession DEF PaymentsInv, Shape
<1>10. ASSUME NEW s \in Session, AbandonPayment(s) PROVE PaymentsInv'
  BY <1>1, <1>10, OneSession DEF AbandonPayment, PaymentsInv
<1>11. CASE SetPolicy
  BY <1>2, <1>11 DEF SetPolicy
<1> QED
  BY <1>2, <1>3, <1>4, <1>5, <1>6, <1>7, <1>8, <1>9, <1>10, <1>11 DEF NextPayments

\* A run is paid by one voucher and only when its status says so, whoever settles,
\* cancels or approves it at the same time (settle_run, payment_run_guard).
THEOREM PaidAtMostOnce == SpecPayments => []PaidOnce
<1>1. PaymentsInv => PaidOnce
  <2> SUFFICES ASSUME PaymentsInv, NEW r \in Run
               PROVE  Len(run[r].voucher) = IF run[r].status = "utbetalt" THEN 1 ELSE 0
    BY DEF PaidOnce
  <2>1. ASSUME NEW e PROVE Len(<< e >>) = 1
    OBVIOUS
  <2>2. Len(<< >>) = 0
    OBVIOUS
  <2> QED
    BY <2>1, <2>2 DEF PaymentsInv, Vouchers
<1> QED
  BY <1>1, InitPaymentsInv, NextPaymentsInv, PTL DEF SpecPayments

\* What the policy made two people decide was decided by two people, also when it
\* is switched while runs wait (approve_run).
THEOREM TwoPeopleApprove == SpecPayments => []FourEyes
<1>1. PaymentsInv => FourEyes
  BY DEF PaymentsInv
<1> QED
  BY <1>1, InitPaymentsInv, NextPaymentsInv, PTL DEF SpecPayments

-----------------------------------------------------------------------------
(***************************************************************************)
(* The remainders.  What is matched against a post is the difference of    *)
(* two sums over the match rows.                                           *)
(***************************************************************************)

\* What a row matches against e, by the side it has e on.
OnDebit(e) == [m \in Match |-> IF m.a = e THEN m.amount ELSE 0]
OnCredit(e) == [m \in Match |-> IF m.b = e THEN m.amount ELSE 0]

\* The sum of module Reskontro over the debit sides is one of module FiniteSums.
LEMMA SumOnDebit ==
  ASSUME NEW rows, rows \subseteq Match, IsFiniteSet(rows), NEW e
  PROVE  MapThenSumSet(LAMBDA m : IF m.a = e THEN m.amount ELSE 0, rows) = SumOver(OnDebit(e), rows)
<1> DEFINE sum(f) == f = [s \in SUBSET rows |-> IF s = {} THEN 0 ELSE
                           (IF Pick(s).a = e THEN Pick(s).amount ELSE 0) + f[s \ {Pick(s)}]]
<1>1. ASSUME NEW s \in SUBSET rows, s # {}
      PROVE  OnDebit(e)[Pick(s)] = IF Pick(s).a = e THEN Pick(s).amount ELSE 0
  BY <1>1, PickIn DEF OnDebit
<1>2. ASSUME NEW f PROVE sum(f) <=> Sums(f, OnDebit(e), rows)
  BY <1>1 DEF Sums
<1>3. MapThenSumSet(LAMBDA m : IF m.a = e THEN m.amount ELSE 0, rows) = (CHOOSE f : sum(f))[rows]
  BY DEF MapThenSumSet, MapThenFoldSet, Pick
<1>4. sum(CHOOSE f : sum(f))
  BY <1>2, SumsExist
<1> QED
  BY <1>2, <1>3, <1>4, SumsGiveTotal
\* Likewise over the credit sides.
LEMMA SumOnCredit ==
  ASSUME NEW rows, rows \subseteq Match, IsFiniteSet(rows), NEW e
  PROVE  MapThenSumSet(LAMBDA m : IF m.b = e THEN m.amount ELSE 0, rows) = SumOver(OnCredit(e), rows)
<1> DEFINE sum(f) == f = [s \in SUBSET rows |-> IF s = {} THEN 0 ELSE
                           (IF Pick(s).b = e THEN Pick(s).amount ELSE 0) + f[s \ {Pick(s)}]]
<1>1. ASSUME NEW s \in SUBSET rows, s # {}
      PROVE  OnCredit(e)[Pick(s)] = IF Pick(s).b = e THEN Pick(s).amount ELSE 0
  BY <1>1, PickIn DEF OnCredit
<1>2. ASSUME NEW f PROVE sum(f) <=> Sums(f, OnCredit(e), rows)
  BY <1>1 DEF Sums
<1>3. MapThenSumSet(LAMBDA m : IF m.b = e THEN m.amount ELSE 0, rows) = (CHOOSE f : sum(f))[rows]
  BY DEF MapThenSumSet, MapThenFoldSet, Pick
<1>4. sum(CHOOSE f : sum(f))
  BY <1>2, SumsExist
<1> QED
  BY <1>2, <1>3, <1>4, SumsGiveTotal

\* What is matched against a post, in totals.
LEMMA MatchedIsTotal ==
  ASSUME NEW rows, rows \subseteq Match, IsFiniteSet(rows), NEW e
  PROVE  matched(rows, e) = SumOver(OnDebit(e), rows) - SumOver(OnCredit(e), rows)
  BY SumOnDebit, SumOnCredit DEF matched

\* A row counts with its amount on the post it names, and with nothing elsewhere.
LEMMA OnSides ==
  ASSUME NEW e
  PROVE  \A m \in Match : /\ OnDebit(e)[m] \in Nat /\ OnCredit(e)[m] \in Nat
                          /\ m.a = e => OnDebit(e)[m] = m.amount
                          /\ m.a # e => OnDebit(e)[m] = 0
                          /\ m.b = e => OnCredit(e)[m] = m.amount
                          /\ m.b # e => OnCredit(e)[m] = 0
<1> SUFFICES ASSUME NEW m \in Match
             PROVE  /\ OnDebit(e)[m] \in Nat /\ OnCredit(e)[m] \in Nat
                    /\ m.a = e => OnDebit(e)[m] = m.amount
                    /\ m.a # e => OnDebit(e)[m] = 0
                    /\ m.b = e => OnCredit(e)[m] = m.amount
                    /\ m.b # e => OnCredit(e)[m] = 0
  OBVIOUS
<1>1. m.amount \in Nat
  BY DEF Match
<1>2. /\ OnDebit(e)[m] = IF m.a = e THEN m.amount ELSE 0
      /\ OnCredit(e)[m] = IF m.b = e THEN m.amount ELSE 0
  BY DEF OnDebit, OnCredit
<1> QED
  BY <1>1, <1>2

\* Both sides, and their difference, are numbers.
LEMMA SidesAreNumbers ==
  ASSUME NEW rows, rows \subseteq Match, IsFiniteSet(rows), NEW e
  PROVE  /\ Numbers(OnDebit(e), rows) /\ Numbers(OnCredit(e), rows)
         /\ SumOver(OnDebit(e), rows) \in Nat /\ SumOver(OnCredit(e), rows) \in Nat
         /\ matched(rows, e) \in Int
<1>1. (\A m \in rows : OnDebit(e)[m] \in Nat) /\ (\A m \in rows : OnCredit(e)[m] \in Nat)
  BY OnSides
<1>2. SumOver(OnDebit(e), rows) \in Nat /\ SumOver(OnCredit(e), rows) \in Nat
  BY <1>1, TotalHolds
<1>3. matched(rows, e) \in Int
  BY <1>2, MatchedIsTotal
<1> QED
  BY <1>1, <1>2, <1>3 DEF Numbers

\* What of the rows is on one side only.
LEMMA MatchedOneSided ==
  ASSUME NEW rows, rows \subseteq Match, IsFiniteSet(rows), NEW e
  PROVE  /\ (\A m \in rows : m.a # e) => matched(rows, e) <= 0
         /\ (\A m \in rows : m.b # e) => matched(rows, e) >= 0
<1>1. ASSUME \A m \in rows : m.a # e PROVE matched(rows, e) <= 0
  <2>1. SumOver(OnDebit(e), rows) = 0
    <3>1. \A m \in rows : OnDebit(e)[m] = 0
      BY <1>1, OnSides
    <3> QED
      BY <3>1, TotalOfNothing
  <2> QED
    BY <2>1, SidesAreNumbers, MatchedIsTotal
<1>2. ASSUME \A m \in rows : m.b # e PROVE matched(rows, e) >= 0
  <2>1. SumOver(OnCredit(e), rows) = 0
    <3>1. \A m \in rows : OnCredit(e)[m] = 0
      BY <1>2, OnSides
    <3> QED
      BY <3>1, TotalOfNothing
  <2> QED
    BY <2>1, SidesAreNumbers, MatchedIsTotal
<1> QED
  BY <1>1, <1>2

\* Rows that are added are matched in addition.
LEMMA MatchedApart ==
  ASSUME NEW rows, rows \subseteq Match, IsFiniteSet(rows),
         NEW more, more \subseteq Match, IsFiniteSet(more), rows \cap more = {}, NEW e
  PROVE  matched(rows \cup more, e) = matched(rows, e) + matched(more, e)
<1>1. rows \cup more \subseteq Match /\ IsFiniteSet(rows \cup more)
  BY FS_Union
<1>2. /\ Numbers(OnDebit(e), rows \cup more)
      /\ Numbers(OnCredit(e), rows \cup more)
  BY <1>1, SidesAreNumbers
<1>3. /\ SumOver(OnDebit(e), rows \cup more) = SumOver(OnDebit(e), rows) + SumOver(OnDebit(e), more)
      /\ SumOver(OnCredit(e), rows \cup more) = SumOver(OnCredit(e), rows) + SumOver(OnCredit(e), more)
  BY <1>2, TotalUnion
<1>4. /\ SumOver(OnDebit(e), rows) \in Nat /\ SumOver(OnCredit(e), rows) \in Nat
      /\ SumOver(OnDebit(e), more) \in Nat /\ SumOver(OnCredit(e), more) \in Nat
  BY SidesAreNumbers
<1>5. /\ matched(rows \cup more, e) = SumOver(OnDebit(e), rows \cup more) - SumOver(OnCredit(e), rows \cup more)
      /\ matched(rows, e) = SumOver(OnDebit(e), rows) - SumOver(OnCredit(e), rows)
      /\ matched(more, e) = SumOver(OnDebit(e), more) - SumOver(OnCredit(e), more)
  BY <1>1, MatchedIsTotal
<1> QED
  BY <1>3, <1>4, <1>5

\* Rows of which none, or one, is on a post.
LEMMA MatchedByNone ==
  ASSUME NEW rows, rows \subseteq Match, IsFiniteSet(rows), NEW e,
         \A m \in rows : m.a # e /\ m.b # e
  PROVE  matched(rows, e) = 0
<1>1. matched(rows, e) <= 0 /\ matched(rows, e) >= 0
  BY MatchedOneSided
<1> QED
  BY <1>1, SidesAreNumbers

\* Rows of which one is on a post.
LEMMA MatchedByOne ==
  ASSUME NEW rows, rows \subseteq Match, IsFiniteSet(rows), NEW e, NEW n \in rows,
         \A m \in rows : m # n => m.a # e /\ m.b # e
  PROVE  /\ n.a = e /\ n.b # e => matched(rows, e) = n.amount
         /\ n.b = e /\ n.a # e => matched(rows, e) = -n.amount
<1>1. SumOver(OnDebit(e), rows) = OnDebit(e)[n]
  <2>1. \A m \in rows : m # n => OnDebit(e)[m] = 0
    BY OnSides
  <2>2. OnDebit(e)[n] \in Int
    BY OnSides
  <2> QED
    BY <2>1, <2>2, TotalOfOne
<1>2. SumOver(OnCredit(e), rows) = OnCredit(e)[n]
  <2>1. \A m \in rows : m # n => OnCredit(e)[m] = 0
    BY OnSides
  <2>2. OnCredit(e)[n] \in Int
    BY OnSides
  <2> QED
    BY <2>1, <2>2, TotalOfOne
<1>3. n.amount \in Nat /\ n \in Match
  BY DEF Match
<1>4. matched(rows, e) = OnDebit(e)[n] - OnCredit(e)[n]
  BY <1>1, <1>2, MatchedIsTotal
<1> QED
  BY <1>3, <1>4, OnSides

-----------------------------------------------------------------------------
\* A line of a run, and a list of them; create_run refuses an empty one.
Posting == [entry : DOMAIN entry, amount : Nat \ {0}]
IsLines(q) == q \in Seq(Posting) /\ q # << >>

\* Entries and match rows: rows have numbers of their own and name entries that exist.
Posts ==
    /\ entry \in Seq(Entry) /\ Len(Opening) <= Len(entry)
    /\ match \subseteq Match /\ IsFiniteSet(match) /\ match_seq \in Nat
    /\ \A m \in match : m.id <= match_seq /\ m.a \in DOMAIN entry /\ m.b \in DOMAIN entry

\* What match_items is about to insert.
IsMatching(m) == m.a \in DOMAIN entry /\ m.b \in DOMAIN entry /\ m.amount \in Nat \ {0}

Matchings ==
    /\ matching = [s \in Session |-> matching[s]]
    /\ \A s \in Session : matching[s] # NoMatching => IsMatching(matching[s])

\* A row of payment_run; only a run that is not there has no lines.
RunRow(R) ==
    /\ Row(R)
    /\ R.status \in Status /\ R.four_eyes \in BOOLEAN /\ R.voucher \in Seq(Nat)
    /\ R.creator \in Person \cup {NoPerson} /\ R.approver \in Person \cup {NoPerson}
    /\ IF R.status = "none" THEN R.items = << >> ELSE IsLines(R.items)

Rows ==
    /\ run = [r \in Run |-> run[r]]
    /\ \A r \in Run : RunRow(run[r])

Payings ==
    /\ paying = [s \in Session |-> paying[s]]
    /\ \A s \in Session : paying[s] # NotPaying => paying[s].run \in Run /\ IsLines(paying[s].items)

\* Who holds the row of a run settles that run, and it is approved.
Holds ==
    /\ run_lock = [r \in Run |-> run_lock[r]]
    /\ policy \in BOOLEAN
    /\ \A r \in Run : run_lock[r] # NoSession =>
         /\ run_lock[r] \in Session
         /\ run[r].status = "godkjent"
         /\ paying[run_lock[r]] = [run |-> r, items |-> run[r].items]

\* Only so many have asked for anything yet.
FewAtWork ==
    /\ IsFiniteSet({r \in Run : run[r].status # "none"})
    /\ IsFiniteSet({s \in Session : paying[s] # NotPaying})
    /\ IsFiniteSet({s \in Session : matching[s] # NoMatching})

\* Who counts on the remainder of e, and with which line.
RunClaim(r, i, e) == Live(r) /\ i \in DOMAIN run[r].items /\ run[r].items[i].entry = e
DraftClaim(s, i, e) == Creating(s) /\ i \in DOMAIN paying[s].items /\ paying[s].items[i].entry = e
MatchClaim(s, e) == matching[s] # NoMatching /\ e \in {matching[s].a, matching[s].b}

\* At most one does.
Lone(e) ==
    /\ \A q, r \in Run : \A i, j \in Nat : RunClaim(q, i, e) /\ RunClaim(r, j, e) => q = r /\ i = j
    /\ \A s, t \in Session : \A i, j \in Nat : DraftClaim(s, i, e) /\ DraftClaim(t, j, e) => s = t /\ i = j
    /\ \A s, t \in Session : MatchClaim(s, e) /\ MatchClaim(t, e) => s = t
    /\ \A r \in Run, s \in Session : \A i, j \in Nat : RunClaim(r, i, e) => ~ DraftClaim(s, j, e)
    /\ \A r \in Run, s \in Session : \A i \in Nat : RunClaim(r, i, e) => ~ MatchClaim(s, e)
    /\ \A s, t \in Session : \A i \in Nat : DraftClaim(s, i, e) => ~ MatchClaim(t, e)

\* A line on a post counts one, and two lines count two.
LEMMA LinesCounted ==
  ASSUME NEW Q, NEW items \in Seq(Q), NEW e
  PROVE  /\ LinesOn(items, e) \in Nat
         /\ \A i \in DOMAIN items : items[i].entry = e => LinesOn(items, e) >= 1
         /\ \A i, j \in DOMAIN items : items[i].entry = e /\ items[j].entry = e /\ i # j => LinesOn(items, e) >= 2
<1> DEFINE on == {i \in DOMAIN items : items[i].entry = e}
<1>1. IsFiniteSet(on)
  <2>1. IsFiniteSet(1 .. Len(items))
    BY FS_Interval
  <2>2. DOMAIN items = 1 .. Len(items)
    OBVIOUS
  <2> QED
    BY <2>1, <2>2, FS_Subset
<1>2. LinesOn(items, e) = Cardinality(on)
  BY DEF LinesOn
<1> HIDE DEF on
<1>3. /\ Cardinality(on) \in Nat
      /\ \A x \in on : Cardinality(on) >= 1
      /\ \A x, y \in on : x # y => Cardinality(on) >= 2
  BY <1>1, Counts
<1> QED
  BY <1>2, <1>3 DEF on

\* How often the lines of a run, or of a run being created, name e.
RunLines(e) == [r \in Run |-> LinesOn(run[r].items, e)]
DraftLines(e) == [s \in Session |-> LinesOn(paying[s].items, e)]

\* The lines of runs, summed in Claims, are a SumOver.
LEMMA SumOfRunLines ==
  ASSUME NEW S, IsFiniteSet(S), S \subseteq Run, NEW e
  PROVE  MapThenSumSet(LAMBDA r : LinesOn(run[r].items, e), S) = SumOver(RunLines(e), S)
<1> DEFINE sum(f) == f = [s \in SUBSET S |-> IF s = {} THEN 0 ELSE
                           LinesOn(run[Pick(s)].items, e) + f[s \ {Pick(s)}]]
<1>1. ASSUME NEW s \in SUBSET S, s # {}
      PROVE  RunLines(e)[Pick(s)] = LinesOn(run[Pick(s)].items, e)
  BY <1>1, PickIn DEF RunLines
<1>2. ASSUME NEW f PROVE sum(f) <=> Sums(f, RunLines(e), S)
  BY <1>1 DEF Sums
<1>3. MapThenSumSet(LAMBDA r : LinesOn(run[r].items, e), S) = (CHOOSE f : sum(f))[S]
  BY DEF MapThenSumSet, MapThenFoldSet, Pick
<1>4. sum(CHOOSE f : sum(f))
  BY <1>2, SumsExist
<1> QED
  BY <1>2, <1>3, <1>4, SumsGiveTotal

\* Likewise the lines of runs being created.
LEMMA SumOfDraftLines ==
  ASSUME NEW S, IsFiniteSet(S), S \subseteq Session, NEW e
  PROVE  MapThenSumSet(LAMBDA s : LinesOn(paying[s].items, e), S) = SumOver(DraftLines(e), S)
<1> DEFINE sum(f) == f = [s \in SUBSET S |-> IF s = {} THEN 0 ELSE
                           LinesOn(paying[Pick(s)].items, e) + f[s \ {Pick(s)}]]
<1>1. ASSUME NEW s \in SUBSET S, s # {}
      PROVE  DraftLines(e)[Pick(s)] = LinesOn(paying[Pick(s)].items, e)
  BY <1>1, PickIn DEF DraftLines
<1>2. ASSUME NEW f PROVE sum(f) <=> Sums(f, DraftLines(e), S)
  BY <1>1 DEF Sums
<1>3. MapThenSumSet(LAMBDA s : LinesOn(paying[s].items, e), S) = (CHOOSE f : sum(f))[S]
  BY DEF MapThenSumSet, MapThenFoldSet, Pick
<1>4. sum(CHOOSE f : sum(f))
  BY <1>2, SumsExist
<1> QED
  BY <1>2, <1>3, <1>4, SumsGiveTotal

\* A post that Claims counts once at most is claimed once at most: two claims of any
\* kind, of one run or of two, make the sum two.
LEMMA Counted ==
  Rows /\ Payings /\ FewAtWork => \A e : Claims(e) > 1 \/ Lone(e)
<1> SUFFICES ASSUME Rows, Payings, FewAtWork, NEW e PROVE Claims(e) > 1 \/ Lone(e)
  OBVIOUS
<1> DEFINE runs == {r \in Run : Live(r)}
           drafts == {s \in Session : Creating(s)}
           matches == {s \in Session : matching[s] # NoMatching /\ e \in {matching[s].a, matching[s].b}}
           R == SumOver(RunLines(e), runs)
           D == SumOver(DraftLines(e), drafts)
           M == Cardinality(matches)
<1>1. IsFiniteSet(runs) /\ IsFiniteSet(drafts) /\ IsFiniteSet(matches)
  <2>1. runs \subseteq {r \in Run : run[r].status # "none"}
    BY DEF Live
  <2>2. drafts \subseteq {s \in Session : paying[s] # NotPaying}
    BY DEF Creating
  <2>3. matches \subseteq {s \in Session : matching[s] # NoMatching}
    OBVIOUS
  <2> HIDE DEF runs, drafts, matches
  <2> QED
    BY <2>1, <2>2, <2>3, FS_Subset DEF FewAtWork
<1>2. Claims(e) = R + D + M
  <2>1. runs \subseteq Run /\ drafts \subseteq Session
    OBVIOUS
  <2>2. MapThenSumSet(LAMBDA r : LinesOn(run[r].items, e), runs) = R
    <3> HIDE DEF runs
    <3> QED
      BY <1>1, <2>1, SumOfRunLines
  <2>3. MapThenSumSet(LAMBDA s : LinesOn(paying[s].items, e), drafts) = D
    <3> HIDE DEF drafts
    <3> QED
      BY <1>1, <2>1, SumOfDraftLines
  <2> QED
    BY <2>2, <2>3 DEF Claims
<1>3. \A r \in runs : /\ RunLines(e)[r] \in Nat
                      /\ \A i : RunClaim(r, i, e) => RunLines(e)[r] >= 1
                      /\ \A i, j : RunClaim(r, i, e) /\ RunClaim(r, j, e) /\ i # j => RunLines(e)[r] >= 2
  <2> SUFFICES ASSUME NEW r \in runs
               PROVE  /\ RunLines(e)[r] \in Nat
                      /\ \A i : RunClaim(r, i, e) => RunLines(e)[r] >= 1
                      /\ \A i, j : RunClaim(r, i, e) /\ RunClaim(r, j, e) /\ i # j => RunLines(e)[r] >= 2
    OBVIOUS
  <2>1. run[r].items \in Seq(Posting)
    BY DEF Rows, RunRow, IsLines, Live
  <2>2. RunLines(e)[r] = LinesOn(run[r].items, e)
    BY DEF RunLines
  <2> QED
    BY <2>1, <2>2, LinesCounted DEF RunClaim
<1>4. \A s \in drafts : /\ DraftLines(e)[s] \in Nat
                        /\ \A i : DraftClaim(s, i, e) => DraftLines(e)[s] >= 1
                        /\ \A i, j : DraftClaim(s, i, e) /\ DraftClaim(s, j, e) /\ i # j => DraftLines(e)[s] >= 2
  <2> SUFFICES ASSUME NEW s \in drafts
               PROVE  /\ DraftLines(e)[s] \in Nat
                      /\ \A i : DraftClaim(s, i, e) => DraftLines(e)[s] >= 1
                      /\ \A i, j : DraftClaim(s, i, e) /\ DraftClaim(s, j, e) /\ i # j => DraftLines(e)[s] >= 2
    OBVIOUS
  <2>1. paying[s].items \in Seq(Posting)
    BY DEF Payings, IsLines, Creating
  <2>2. DraftLines(e)[s] = LinesOn(paying[s].items, e)
    BY DEF DraftLines
  <2> QED
    BY <2>1, <2>2, LinesCounted DEF DraftClaim
<1>5. /\ R \in Nat
      /\ \A r \in runs : RunLines(e)[r] <= R
      /\ \A q, r \in runs : q # r => RunLines(e)[q] + RunLines(e)[r] <= R
  <2> HIDE DEF runs
  <2> QED
    BY <1>1, <1>3, TotalHolds
<1>6. /\ D \in Nat
      /\ \A s \in drafts : DraftLines(e)[s] <= D
      /\ \A s, t \in drafts : s # t => DraftLines(e)[s] + DraftLines(e)[t] <= D
  <2> HIDE DEF drafts
  <2> QED
    BY <1>1, <1>4, TotalHolds
<1>7. /\ M \in Nat
      /\ \A s \in matches : M >= 1
      /\ \A s, t \in matches : s # t => M >= 2
  <2> HIDE DEF matches
  <2> QED
    BY <1>1, Counts
<1>8. /\ \A r \in Run, i \in Nat : RunClaim(r, i, e) => r \in runs
      /\ \A s \in Session, i \in Nat : DraftClaim(s, i, e) => s \in drafts
      /\ \A s \in Session : MatchClaim(s, e) <=> s \in matches
  BY DEF RunClaim, DraftClaim, MatchClaim
<1> HIDE DEF runs, drafts, matches, R, D, M
<1>9. ASSUME ~ (R + D + M > 1) PROVE Lone(e)
  <2>1. \A q, r \in Run : \A i, j \in Nat : RunClaim(q, i, e) /\ RunClaim(r, j, e) => q = r /\ i = j
    BY <1>3, <1>5, <1>6, <1>7, <1>8, <1>9
  <2>2. \A s, t \in Session : \A i, j \in Nat : DraftClaim(s, i, e) /\ DraftClaim(t, j, e) => s = t /\ i = j
    BY <1>4, <1>5, <1>6, <1>7, <1>8, <1>9
  <2>3. \A s, t \in Session : MatchClaim(s, e) /\ MatchClaim(t, e) => s = t
    BY <1>5, <1>6, <1>7, <1>8, <1>9
  <2>4. \A r \in Run, i \in Nat : RunClaim(r, i, e) => R >= 1
    BY <1>3, <1>5, <1>8
  <2>5. \A s \in Session, i \in Nat : DraftClaim(s, i, e) => D >= 1
    BY <1>4, <1>6, <1>8
  <2>6. \A s \in Session : MatchClaim(s, e) => M >= 1
    BY <1>7, <1>8
  <2> QED
    BY <1>5, <1>6, <1>7, <1>9, <2>1, <2>2, <2>3, <2>4, <2>5, <2>6 DEF Lone
<1> QED
  BY <1>2, <1>9

-----------------------------------------------------------------------------
\* The shape of everything but the claims.
Typed == Posts /\ Matchings /\ Rows /\ Payings /\ Holds /\ FewAtWork

\* Nothing is there but the opening entries.
LEMMA InitTyped == InitPayments => Typed
<1> SUFFICES ASSUME InitPayments PROVE Typed
  OBVIOUS
<1>0. /\ entry = Opening /\ match = {} /\ match_seq = 0
      /\ matching = [s \in Session |-> NoMatching] /\ run = [r \in Run |-> NoRun]
      /\ run_lock = [r \in Run |-> NoSession] /\ policy \in BOOLEAN
      /\ paying = [s \in Session |-> NotPaying]
  BY DEF InitPayments, InitReskontro
<1>1. Posts
  BY <1>0, FS_EmptySet, OpeningAssumption DEF Posts
<1>2. Matchings /\ Payings /\ Holds
  BY <1>0 DEF Matchings, Payings, Holds
<1>3. RunRow(NoRun)
  BY DEF RunRow, Row, Column, NoRun, Status
<1>4. Rows
  BY <1>0, <1>3 DEF Rows
<1>5. FewAtWork
  <2>1. /\ {r \in Run : run[r].status # "none"} = {}
        /\ {s \in Session : paying[s] # NotPaying} = {}
        /\ {s \in Session : matching[s] # NoMatching} = {}
    BY <1>0 DEF NoRun
  <2> QED
    BY <2>1, FS_EmptySet DEF FewAtWork
<1> QED
  BY <1>1, <1>2, <1>4, <1>5 DEF Typed

\* What is open on a post is a number, and the post is not empty.
LEMMA RemainingIsNumber == ASSUME Posts, NEW e \in DOMAIN entry PROVE remaining(e) \in Int /\ entry[e].amount \in Int \ {0}
<1>1. entry[e] \in Entry
  <2>1. entry \in Seq(Entry) /\ e \in 1 .. Len(entry)
    BY DEF Posts
  <2> QED
    BY <2>1
<1>2. matched(match, e) \in Int
  BY SidesAreNumbers DEF Posts
<1> QED
  BY <1>1, <1>2 DEF remaining, Entry

\* The posts stay as they are.
LEMMA PostsStay == ASSUME Posts, UNCHANGED << entry, match, match_seq >>
                   PROVE  Posts' /\ DOMAIN entry' = DOMAIN entry /\ Posting' = Posting
  BY DEF Posts, Posting

\* What a line, a match or a row may be depends on the entries only.
LEMMA LinesStay ==
  ASSUME UNCHANGED entry
  PROVE  /\ \A q : IsLines(q)' <=> IsLines(q)
         /\ \A m : IsMatching(m)' <=> IsMatching(m)
         /\ \A R : RunRow(R)' <=> RunRow(R)
  BY DEF IsLines, IsMatching, RunRow, Posting

\* A request for payment, or for the settlement of a run, is put to work.
LEMMA PayingChanges ==
  ASSUME Typed, UNCHANGED << entry, match, match_seq, matching, run, policy >>,
         NEW s \in Session, NEW P, P = NotPaying \/ (P.run \in Run /\ IsLines(P.items)),
         paying' = [paying EXCEPT ![s] = P],
         Holds'
  PROVE  Typed'
<1>1. Posts'
  BY PostsStay DEF Typed
<1>2. Matchings'
  BY LinesStay DEF Typed, Matchings
<1>3. Rows'
  BY LinesStay DEF Typed, Rows
<1>4. Payings'
  BY LinesStay DEF Typed, Payings
<1>5. FewAtWork'
  <2>1. {t \in Session : paying'[t] # NotPaying} \subseteq {t \in Session : paying[t] # NotPaying} \cup {s}
    BY DEF Typed, Payings
  <2>2. IsFiniteSet({t \in Session : paying'[t] # NotPaying})
    BY <2>1, OneMore DEF Typed, FewAtWork
  <2> QED
    BY <2>2 DEF Typed, FewAtWork
<1> QED
  BY <1>1, <1>2, <1>3, <1>4, <1>5 DEF Typed

\* A run gets a new row that is in order.
LEMMA RunChanges ==
  ASSUME Typed, UNCHANGED << entry, match, match_seq, matching, policy, run_lock >>,
         NEW q \in Run, NEW R, RunRow(R), run' = [run EXCEPT ![q] = R],
         Payings', {s \in Session : paying'[s] # NotPaying} \subseteq {s \in Session : paying[s] # NotPaying},
         Holds'
  PROVE  Typed'
<1>1. Posts'
  BY PostsStay DEF Typed
<1>2. Matchings'
  BY LinesStay DEF Typed, Matchings
<1>3. Rows'
  BY LinesStay DEF Typed, Rows
<1>5. FewAtWork'
  <2>1. {r \in Run : run'[r].status # "none"} \subseteq {r \in Run : run[r].status # "none"} \cup {q}
    BY DEF Typed, Rows
  <2>2. IsFiniteSet({r \in Run : run'[r].status # "none"})
    BY <2>1, OneMore DEF Typed, FewAtWork
  <2>3. IsFiniteSet({s \in Session : paying'[s] # NotPaying})
    BY FS_Subset DEF Typed, FewAtWork
  <2> QED
    BY <2>2, <2>3 DEF Typed, FewAtWork
<1> QED
  BY <1>1, <1>2, <1>3, <1>5 DEF Typed

\* A match is read, inserted or dropped.
LEMMA MatchingChanges ==
  ASSUME Typed, UNCHANGED << entry, run, run_lock, policy, paying >>, Posts',
         NEW s \in Session, NEW m, m = NoMatching \/ IsMatching(m),
         matching' = [matching EXCEPT ![s] = m]
  PROVE  Typed'
<1>2. Matchings'
  BY LinesStay DEF Typed, Matchings
<1>3. Rows'
  BY LinesStay DEF Typed, Rows
<1>4. Payings' /\ Holds'
  BY LinesStay DEF Typed, Payings, Holds
<1>5. FewAtWork'
  <2>1. {t \in Session : matching'[t] # NoMatching} \subseteq {t \in Session : matching[t] # NoMatching} \cup {s}
    BY DEF Typed, Matchings
  <2>2. IsFiniteSet({t \in Session : matching'[t] # NoMatching})
    BY <2>1, OneMore DEF Typed, FewAtWork
  <2> QED
    BY <2>2 DEF Typed, FewAtWork
<1> QED
  BY <1>2, <1>3, <1>4, <1>5 DEF Typed

\* Who holds a run is at work on it.
LEMMA HolderIsPaying ==
  ASSUME Typed
  PROVE  \A q \in Run : run_lock[q] # NoSession => paying[run_lock[q]] # NotPaying
<1> SUFFICES ASSUME NEW q \in Run, run_lock[q] # NoSession, paying[run_lock[q]] = NotPaying PROVE FALSE
  OBVIOUS
<1>1. NotPaying = [run |-> q, items |-> run[q].items] /\ run[q].status = "godkjent"
  BY DEF Typed, Holds
<1>2. NotPaying.items = run[q].items
  BY <1>1
<1>3. run[q].items # << >>
  BY <1>1 DEF Typed, Rows, RunRow, IsLines
<1> QED
  BY <1>2, <1>3 DEF NotPaying

\* create_run up to its insert: every line is a positive amount on a post that exists.
LEMMA CheckRunTyped ==
  ASSUME Typed, NEW s \in Session, NEW r \in Run, NEW drafts \in Request, CheckRun(s, r, drafts)
  PROVE  Typed'
<1> DEFINE items == [i \in DOMAIN drafts |-> [entry |-> drafts[i].entry, amount |-> Amount(drafts[i])]]
           P == [run |-> r, items |-> items]
<1>1. PICK n \in 1 .. MaxItems : drafts \in [1 .. n -> [entry : DOMAIN Opening, amount : Amounts]]
  BY DEF Request
<1>2. n \in Nat \ {0} /\ DOMAIN drafts = 1 .. n
  BY <1>1, ItemAssumption
<1>3. \A i \in 1 .. n : drafts[i].entry \in DOMAIN entry
  BY <1>1, OpeningAssumption DEF Typed, Posts
<1>4. \A i \in 1 .. n : Amount(drafts[i]) \in Nat \ {0}
  <2>1. ASSUME NEW i \in 1 .. n PROVE Amount(drafts[i]) \in Nat \ {0}
    <3>1. Amount(drafts[i]) \in 1 .. payable(drafts[i].entry)
      BY <1>2 DEF CheckRun
    <3>2. payable(drafts[i].entry) \in Int
      BY <1>3, RemainingIsNumber DEF payable, Typed
    <3> QED
      BY <3>1, <3>2
  <2> QED
    BY <2>1
<1>5. IsLines(items)
  <2>1. items \in [1 .. n -> Posting]
    BY <1>2, <1>3, <1>4 DEF Posting
  <2>2. items \in Seq(Posting) /\ Len(items) = n
    BY <1>2, <2>1
  <2> QED
    BY <1>2, <2>2 DEF IsLines
<1>6. paying' = [paying EXCEPT ![s] = P] /\ P.run \in Run /\ P.items = items
  BY DEF CheckRun
<1>7. UNCHANGED << entry, match, match_seq, matching, run, run_lock, policy >> /\ paying[s] = NotPaying
  BY DEF CheckRun, Free
<1>8. Holds'
  <2>1. \A q \in Run : run_lock[q] # NoSession => paying[run_lock[q]] # NotPaying
    BY HolderIsPaying
  <2> HIDE DEF P
  <2> QED
    BY <1>6, <1>7, <2>1 DEF Typed, Holds, Payings
<1> HIDE DEF items, P
<1> QED
  BY <1>5, <1>6, <1>7, <1>8, PayingChanges

\* The insert of the run.
LEMMA CreateRunTyped ==
  ASSUME Typed, NEW s \in Session, NEW p \in Person, CreateRun(s, p)
  PROVE  Typed'
<1> DEFINE q == paying[s].run
           R == [NoRun EXCEPT !.status = "utkast", !.items = paying[s].items, !.creator = p]
<1>1. /\ UNCHANGED << entry, match, match_seq, matching, run_lock, policy >>
      /\ run' = [run EXCEPT ![q] = R] /\ paying' = [paying EXCEPT ![s] = NotPaying]
      /\ run[q].status = "none"
      /\ q \in Run /\ IsLines(paying[s].items)
  BY DEF CreateRun, Typed, Payings
<1>2. RunRow(R)
  <2>1. /\ Row(R) /\ R.status = "utkast" /\ R.four_eyes = FALSE /\ R.voucher = << >>
        /\ R.creator = p /\ R.approver = NoPerson /\ R.items = paying[s].items
    BY DEF Row, Column, NoRun
  <2> HIDE DEF R
  <2>2. << >> \in Seq(Nat)
    OBVIOUS
  <2>3. R.voucher \in Seq(Nat) /\ R.four_eyes \in BOOLEAN
    BY <2>1, <2>2, Zenon
  <2>4. IsLines(R.items)
    BY <1>1, <2>1, Zenon
  <2> QED
    BY <2>1, <2>3, <2>4 DEF RunRow, Status
<1>3. Payings'
  BY <1>1, LinesStay DEF Typed, Payings
<1>4. Holds'
  <2>1. ASSUME NEW r \in Run, run_lock[r] # NoSession PROVE r # q /\ run_lock[r] # s
    <3>1. run[r].status = "godkjent" /\ paying[run_lock[r]] = [run |-> r, items |-> run[r].items]
      BY <2>1 DEF Typed, Holds
    <3>2. r # q
      BY <1>1, <3>1
    <3>3. paying[run_lock[r]].run = r
      BY <3>1
    <3> QED
      BY <3>2, <3>3
  <2> HIDE DEF R, q
  <2> QED
    BY <1>1, <2>1 DEF Typed, Holds, Payings, Rows
<1>5. {t \in Session : paying'[t] # NotPaying} \subseteq {t \in Session : paying[t] # NotPaying}
  BY <1>1 DEF Typed, Payings
<1> HIDE DEF R, q
<1> QED
  BY <1>1, <1>2, <1>3, <1>4, <1>5, RunChanges

\* A run that nobody holds gets another status.
LEMMA StatusTyped ==
  ASSUME Typed, NEW q \in Run, NEW R, RunRow(R), run[q].status = "utkast",
         UNCHANGED << entry, match, match_seq, matching, run_lock, policy, paying >>,
         run' = [run EXCEPT ![q] = R]
  PROVE  Typed'
<1>1. Payings'
  BY LinesStay DEF Typed, Payings
<1>2. Holds'
  <2>1. \A r \in Run : run_lock[r] # NoSession => r # q
    BY DEF Typed, Holds
  <2> QED
    BY <2>1 DEF Typed, Holds, Rows
<1> QED
  BY <1>1, <1>2, RunChanges

\* Approval.
LEMMA ApproveRunTyped ==
  ASSUME Typed, NEW r \in Run, NEW p \in Person, ApproveRun(r, p)
  PROVE  Typed'
<1> DEFINE R == [run[r] EXCEPT !.status = "godkjent", !.approver = p, !.four_eyes = policy]
<1>1. RunRow(R)
  <2>1. RunRow(run[r]) /\ policy \in BOOLEAN /\ run[r].status = "utkast"
    BY DEF Typed, Rows, Holds, ApproveRun
  <2> QED
    BY <2>1 DEF RunRow, Row, Column, Status
<1>2. /\ run' = [run EXCEPT ![r] = R] /\ run[r].status = "utkast"
      /\ UNCHANGED << entry, match, match_seq, matching, run_lock, policy, paying >>
  BY DEF ApproveRun
<1> HIDE DEF R
<1> QED
  BY <1>1, <1>2, StatusTyped

\* Cancellation.
LEMMA CancelRunTyped ==
  ASSUME Typed, NEW r \in Run, CancelRun(r)
  PROVE  Typed'
<1> DEFINE R == [run[r] EXCEPT !.status = "annullert"]
<1>1. RunRow(R)
  <2>1. RunRow(run[r]) /\ run[r].status = "utkast"
    BY DEF Typed, Rows, CancelRun
  <2> QED
    BY <2>1 DEF RunRow, Row, Column, Status
<1>2. /\ run' = [run EXCEPT ![r] = R] /\ run[r].status = "utkast"
      /\ UNCHANGED << entry, match, match_seq, matching, run_lock, policy, paying >>
  BY DEF CancelRun
<1> HIDE DEF R
<1> QED
  BY <1>1, <1>2, StatusTyped

\* settle_run takes the row of the run.
LEMMA LockRunTyped ==
  ASSUME Typed, NEW s \in Session, NEW r \in Run, LockRun(s, r)
  PROVE  Typed'
<1> DEFINE P == [run |-> r, items |-> run[r].items]
<1>1. /\ UNCHANGED << entry, match, match_seq, matching, run, policy >>
      /\ paying' = [paying EXCEPT ![s] = P] /\ paying[s] = NotPaying
      /\ run_lock' = [run_lock EXCEPT ![r] = s] /\ run_lock[r] = NoSession
      /\ run[r].status = "godkjent"
      /\ P.run \in Run /\ P.items = run[r].items
  BY DEF LockRun, Free
<1>2. IsLines(P.items)
  BY <1>1 DEF Typed, Rows, RunRow
<1>3. Holds'
  <2>1. \A q \in Run : run_lock[q] # NoSession => paying[run_lock[q]] # NotPaying
    BY HolderIsPaying
  <2> QED
    BY <1>1, <2>1 DEF Typed, Holds, Payings
<1> HIDE DEF P
<1> QED
  BY <1>1, <1>2, <1>3, PayingChanges

\* The transaction is gone, and its row lock with it.
LEMMA AbandonPaymentTyped ==
  ASSUME Typed, NEW s \in Session, AbandonPayment(s)
  PROVE  Typed'
<1>1. /\ UNCHANGED << entry, match, match_seq, matching, run, policy >>
      /\ paying' = [paying EXCEPT ![s] = NotPaying]
      /\ run_lock' = [r \in Run |-> IF run_lock[r] = s THEN NoSession ELSE run_lock[r]]
  BY DEF AbandonPayment
<1>2. Holds'
  BY <1>1 DEF Typed, Holds, Payings
<1> QED
  BY <1>1, <1>2, PayingChanges

\* The policy is switched.
LEMMA SetPolicyTyped == ASSUME Typed, SetPolicy PROVE Typed'
<1>1. Posts' /\ Matchings' /\ Rows' /\ Payings'
  BY PostsStay, LinesStay DEF SetPolicy, Typed, Matchings, Rows, Payings
<1>2. Holds' /\ FewAtWork'
  BY DEF SetPolicy, Typed, Holds, FewAtWork
<1> QED
  BY <1>1, <1>2 DEF Typed

\* Manual matching beside it.
LEMMA ReskontroTyped ==
  ASSUME Typed, NextReskontro, UNCHANGED << run, run_lock, policy, paying >>
  PROVE  Typed'
<1>1. ASSUME NEW s \in Session, NEW a \in DOMAIN entry, NEW b \in DOMAIN entry,
             NEW amount \in 1 .. entry[a].amount, CheckMatch(s, a, b, amount)
      PROVE  Typed'
  <2> DEFINE m == [a |-> a, b |-> b, amount |-> amount]
  <2>1. amount \in Nat \ {0}
    BY RemainingIsNumber DEF Typed
  <2>2. IsMatching(m)
    BY <2>1 DEF IsMatching
  <2>3. matching' = [matching EXCEPT ![s] = m] /\ UNCHANGED << entry, match, match_seq >>
    BY <1>1 DEF CheckMatch
  <2>4. Posts'
    BY <2>3, PostsStay DEF Typed
  <2> HIDE DEF m
  <2> QED
    BY <2>2, <2>3, <2>4, MatchingChanges
<1>2. ASSUME NEW s \in Session, InsertMatch(s) PROVE Typed'
  <2> DEFINE m == matching[s]
             n == [id |-> match_seq + 1, a |-> m.a, b |-> m.b, amount |-> m.amount]
  <2>1. /\ match' = match \cup {n} /\ match_seq' = match_seq + 1 /\ UNCHANGED entry
        /\ matching' = [matching EXCEPT ![s] = NoMatching] /\ IsMatching(m)
    BY <1>2 DEF InsertMatch, Typed, Matchings
  <2>2. /\ n \in Match /\ n.id <= match_seq + 1
        /\ n.a \in DOMAIN entry /\ n.b \in DOMAIN entry
    BY <2>1 DEF Match, IsMatching, Typed, Posts
  <2>3. IsFiniteSet(match')
    BY <2>1, FS_AddElement DEF Typed, Posts
  <2> HIDE DEF n, m
  <2>4. Posts'
    <3>1. \A o \in match' : o.id <= match_seq' /\ o.a \in DOMAIN entry' /\ o.b \in DOMAIN entry'
      <4> SUFFICES ASSUME NEW o \in match'
                   PROVE  o.id <= match_seq' /\ o.a \in DOMAIN entry' /\ o.b \in DOMAIN entry'
        OBVIOUS
      <4>1. CASE o = n
        BY <2>1, <2>2, <4>1
      <4>2. CASE o \in match
        <5>1. o.id \in Nat /\ o.id <= match_seq /\ match_seq \in Nat
          BY <4>2 DEF Typed, Posts, Match
        <5> QED
          BY <2>1, <4>2, <5>1 DEF Typed, Posts
      <4> QED
        BY <2>1, <4>1, <4>2
    <3> QED
      BY <2>1, <2>2, <2>3, <3>1 DEF Typed, Posts
  <2> QED
    BY <2>1, <2>4, MatchingChanges
<1>3. ASSUME NEW s \in Session, AbandonMatch(s) PROVE Typed'
  <2>1. Posts'
    BY <1>3, PostsStay DEF AbandonMatch, Typed
  <2> QED
    BY <1>3, <2>1, MatchingChanges DEF AbandonMatch
<1>4. ASSUME NEW m \in match, Unmatch(m) PROVE Typed'
  <2>1. match' \subseteq match /\ UNCHANGED << entry, match_seq, matching >>
    BY <1>4 DEF Unmatch
  <2>2. Posts'
    BY <2>1, FS_Subset DEF Typed, Posts
  <2>3. Matchings' /\ Rows' /\ Payings'
    BY <2>1, LinesStay DEF Typed, Matchings, Rows, Payings
  <2>4. Holds' /\ FewAtWork'
    BY <2>1 DEF Typed, Holds, FewAtWork
  <2> QED
    BY <2>2, <2>3, <2>4 DEF Typed
<1> QED
  BY <1>1, <1>2, <1>3, <1>4 DEF NextReskontro

-----------------------------------------------------------------------------
\* The lines of a request, one by one.
LEMMA LinesOf ==
  ASSUME NEW items, IsLines(items)
  PROVE  /\ items \in Seq(Posting) /\ Len(items) \in Nat /\ DOMAIN items = 1 .. Len(items)
         /\ \A i \in 1 .. Len(items) : /\ items[i].entry \in DOMAIN entry
                                       /\ items[i].amount \in Nat \ {0}
<1>1. items \in Seq(Posting) /\ DOMAIN items = 1 .. Len(items) /\ Len(items) \in Nat
  BY DEF IsLines
<1>2. ASSUME NEW i \in 1 .. Len(items) PROVE items[i] \in Posting
  BY <1>1
<1> QED
  BY <1>1, <1>2 DEF Posting

\* One sequence after the other.
LEMMA Joined ==
  ASSUME NEW S, NEW p \in Seq(S), NEW q \in Seq(S)
  PROVE  p \o q \in Seq(S) /\ Len(p \o q) = Len(p) + Len(q)
  OBVIOUS

\* The voucher of a settlement: its entries come after those there are.
LEMMA VoucherAdds ==
  ASSUME Posts, NEW items, IsLines(items), entry' = entry \o Debits(items)
  PROVE  /\ entry' \in Seq(Entry) /\ Len(entry') = Len(entry) + Len(items) /\ Len(entry) \in Nat
         /\ DOMAIN entry' = 1 .. (Len(entry) + Len(items)) /\ DOMAIN entry = 1 .. Len(entry)
         /\ \A e \in DOMAIN entry : entry'[e] = entry[e]
         /\ \A i \in 1 .. Len(items) : entry'[Len(entry) + i].amount = items[i].amount
<1> DEFINE n == Len(items)
<1>1. /\ n \in Nat /\ DOMAIN items = 1 .. n
      /\ \A i \in 1 .. n : items[i].entry \in DOMAIN entry /\ items[i].amount \in Nat \ {0}
  BY LinesOf
<1>2. entry \in Seq(Entry) /\ Len(entry) \in Nat /\ DOMAIN entry = 1 .. Len(entry)
  BY DEF Posts
<1>3. \A e \in DOMAIN entry : entry[e] \in Entry
  BY <1>2
<1>4. ASSUME NEW i \in 1 .. n
      PROVE  Debits(items)[i] \in Entry /\ Debits(items)[i].amount = items[i].amount
  <2>1. Debits(items)[i] = [konto |-> entry[items[i].entry].konto, amount |-> items[i].amount]
    BY <1>1 DEF Debits
  <2>2. entry[items[i].entry].konto \in Konto
    BY <1>1, <1>3 DEF Entry
  <2>3. items[i].amount \in Int \ {0}
    BY <1>1
  <2> QED
    BY <2>1, <2>2, <2>3 DEF Entry
<1>5. Debits(items) = [i \in 1 .. n |-> Debits(items)[i]]
  BY <1>1 DEF Debits
<1>6. Debits(items) \in Seq(Entry) /\ Len(Debits(items)) = n
  BY <1>1, <1>4, <1>5
<1> HIDE DEF n
<1>7. entry' \in Seq(Entry) /\ Len(entry') = Len(entry) + n
  <2> DEFINE d == Debits(items)
  <2>1. entry' = entry \o d /\ d \in Seq(Entry) /\ Len(d) = n
    BY <1>6
  <2> HIDE DEF d
  <2> QED
    BY <1>2, <2>1, Joined
<1>8. \A e \in DOMAIN entry : entry'[e] = entry[e]
  BY <1>2, <1>6
<1>9. ASSUME NEW i \in 1 .. n PROVE entry'[Len(entry) + i] = Debits(items)[i]
  BY <1>1, <1>2, <1>6
<1>10. DOMAIN entry' = 1 .. (Len(entry) + n)
  BY <1>7
<1> QED
  BY <1>2, <1>4, <1>7, <1>8, <1>9, <1>10 DEF n

SettlementRow(items, i) ==
    [id |-> match_seq + i, a |-> Len(entry) + i, b |-> items[i].entry, amount |-> items[i].amount]

\* Its match rows are new, one for each line.
LEMMA RowsAdd ==
  ASSUME Posts, NEW items, IsLines(items)
  PROVE  /\ SettlementMatches(items) \subseteq Match /\ IsFiniteSet(SettlementMatches(items))
         /\ match \cap SettlementMatches(items) = {}
         /\ \A m \in SettlementMatches(items) : \E i \in 1 .. Len(items) : m = SettlementRow(items, i)
         /\ \A i \in 1 .. Len(items) : SettlementRow(items, i) \in SettlementMatches(items)
<1> DEFINE n == Len(items)
           row(i) == SettlementRow(items, i)
           rows == SettlementMatches(items)
<1>1. /\ n \in Nat /\ DOMAIN items = 1 .. n
      /\ \A i \in 1 .. n : items[i].entry \in DOMAIN entry /\ items[i].amount \in Nat \ {0}
  BY LinesOf
<1>2. Len(entry) \in Nat /\ DOMAIN entry = 1 .. Len(entry) /\ match_seq \in Nat
  BY DEF Posts
<1>3. rows = {row(i) : i \in 1 .. n}
  BY <1>1 DEF SettlementMatches, SettlementRow
<1>4. IsFiniteSet(rows)
  <2> DEFINE f == [i \in 1 .. n |-> row(i)]
  <2>1. \A m \in rows : \E i \in 1 .. n : m = f[i]
    BY <1>3
  <2> HIDE DEF f, n, rows
  <2>2. n \in Int
    BY <1>1
  <2>3. IsFiniteSet(1 .. n)
    BY <2>2, FS_Interval
  <2> QED
    BY <2>1, <2>3, FiniteImage
<1>5. ASSUME NEW i \in 1 .. n PROVE row(i) \in Match /\ row(i) \notin match
  <2>1. row(i) \in Match
    <3>1. match_seq + i \in Nat /\ Len(entry) + i \in Nat /\ items[i].entry \in Nat
      BY <1>1, <1>2
    <3> QED
      BY <1>1, <3>1 DEF Match, SettlementRow
  <2>2. row(i).id = match_seq + i
    BY DEF SettlementRow
  <2> HIDE DEF row
  <2>3. row(i) \notin match
    BY <1>1, <1>2, <2>2 DEF Posts
  <2> QED
    BY <2>1, <2>3
<1> QED
  BY <1>3, <1>4, <1>5

\* With more entries, what was in order stays so.
LEMMA LinesKept ==
  ASSUME DOMAIN entry \subseteq DOMAIN entry'
  PROVE  /\ \A q : IsLines(q) => IsLines(q)'
         /\ \A m : IsMatching(m) => IsMatching(m)'
         /\ \A R : RunRow(R) => RunRow(R)'
<1>1. Posting \subseteq Posting'
  BY DEF Posting
<1>2. \A q : IsLines(q) => IsLines(q)'
  <2> SUFFICES ASSUME NEW q, IsLines(q) PROVE IsLines(q)'
    OBVIOUS
  <2>1. q \in Seq(Posting) /\ q # << >>
    BY DEF IsLines
  <2>2. q \in Seq(Posting')
    <3>1. q \in [1 .. Len(q) -> Posting'] /\ Len(q) \in Nat
      BY <1>1, <2>1
    <3> QED
      BY <3>1
  <2> QED
    BY <2>1, <2>2 DEF IsLines
<1>3. \A m : IsMatching(m) => IsMatching(m)'
  BY DEF IsMatching
<1>4. \A R : RunRow(R) => RunRow(R)'
  <2> SUFFICES ASSUME NEW R, RunRow(R) PROVE RunRow(R)'
    OBVIOUS
  <2> QED
    BY <1>2 DEF RunRow
<1> QED
  BY <1>2, <1>3, <1>4

\* What settle_run does, with the lines of the run that is locked.
LEMMA SettleSteps ==
  ASSUME Typed, NEW s \in Session, SettleRun(s)
  PROVE  /\ paying[s].run \in Run /\ run[paying[s].run].status = "godkjent"
         /\ paying[s].items = run[paying[s].run].items /\ IsLines(paying[s].items)
         /\ entry' = entry \o Debits(paying[s].items)
         /\ match' = match \cup SettlementMatches(paying[s].items)
         /\ match_seq' = match_seq + Len(paying[s].items)
         /\ run' = [run EXCEPT ![paying[s].run] =
                      [run[paying[s].run] EXCEPT !.status = "utbetalt", !.voucher = Append(@, Len(entry) + 1)]]
         /\ run_lock' = [run_lock EXCEPT ![paying[s].run] = NoSession]
         /\ paying' = [paying EXCEPT ![s] = NotPaying]
         /\ run_lock[paying[s].run] = s
         /\ UNCHANGED << matching, policy >>
<1>1. /\ entry' = entry \o Debits(paying[s].items)
      /\ match' = match \cup SettlementMatches(paying[s].items)
      /\ match_seq' = match_seq + Len(paying[s].items)
      /\ run_lock' = [run_lock EXCEPT ![paying[s].run] = NoSession]
      /\ paying' = [paying EXCEPT ![s] = NotPaying]
      /\ run_lock[paying[s].run] = s
      /\ UNCHANGED << matching, policy >>
      /\ paying[s] # NotPaying
  BY DEF SettleRun
<1>2. run' = [run EXCEPT ![paying[s].run] =
                      [run[paying[s].run] EXCEPT !.status = "utbetalt", !.voucher = Append(@, Len(entry) + 1)]]
  BY DEF SettleRun
<1>3. paying[s].run \in Run /\ IsLines(paying[s].items)
  BY <1>1 DEF Typed, Payings
<1>4. run_lock[paying[s].run] # NoSession
  BY <1>1, PersonAssumption
<1>5. /\ run[paying[s].run].status = "godkjent"
      /\ paying[s] = [run |-> paying[s].run, items |-> run[paying[s].run].items]
  BY <1>1, <1>3, <1>4 DEF Typed, Holds
<1>6. paying[s].items = run[paying[s].run].items
  BY <1>5
<1> QED
  BY <1>1, <1>2, <1>3, <1>5, <1>6

\* Settlement.
LEMMA SettleRunTyped ==
  ASSUME Typed, NEW s \in Session, SettleRun(s)
  PROVE  Typed'
<1> DEFINE q == paying[s].run
           items == paying[s].items
           R == [run[q] EXCEPT !.status = "utbetalt", !.voucher = Append(@, Len(entry) + 1)]
<1>1. /\ q \in Run /\ run[q].status = "godkjent" /\ IsLines(items)
      /\ entry' = entry \o Debits(items) /\ match' = match \cup SettlementMatches(items)
      /\ match_seq' = match_seq + Len(items)
      /\ run' = [run EXCEPT ![q] = R] /\ run_lock' = [run_lock EXCEPT ![q] = NoSession]
      /\ paying' = [paying EXCEPT ![s] = NotPaying] /\ run_lock[q] = s
      /\ UNCHANGED << matching, policy >>
  BY SettleSteps
<1>2. /\ entry' \in Seq(Entry) /\ Len(entry') = Len(entry) + Len(items) /\ Len(entry) \in Nat
      /\ DOMAIN entry' = 1 .. (Len(entry) + Len(items)) /\ DOMAIN entry = 1 .. Len(entry)
  BY <1>1, VoucherAdds DEF Typed
<1>3. /\ Len(items) \in Nat
      /\ \A i \in 1 .. Len(items) : items[i].entry \in DOMAIN entry
  BY <1>1, LinesOf
<1>4. DOMAIN entry \subseteq DOMAIN entry'
  BY <1>2, <1>3
<1>5. RunRow(R)
  <2>1. RunRow(run[q])
    BY <1>1 DEF Typed, Rows
  <2>2. Len(entry) + 1 \in Nat
    BY <1>2
  <2>3. Append(run[q].voucher, Len(entry) + 1) \in Seq(Nat)
    BY <2>1, <2>2 DEF RunRow
  <2>4. /\ Row(R) /\ R.status = "utbetalt" /\ R.voucher = Append(run[q].voucher, Len(entry) + 1)
        /\ R.four_eyes = run[q].four_eyes /\ R.creator = run[q].creator
        /\ R.approver = run[q].approver /\ R.items = run[q].items
    <3>1. Row(run[q])
      BY <2>1 DEF RunRow
    <3> DEFINE v == Append(run[q].voucher, Len(entry) + 1)
    <3>2. R = Settled(run[q], v)
      BY DEF Settled
    <3> HIDE DEF R, q, v
    <3>3. /\ Row(R) /\ R.status = "utbetalt" /\ R.voucher = v
          /\ R.items = run[q].items /\ R.creator = run[q].creator
          /\ R.approver = run[q].approver /\ R.four_eyes = run[q].four_eyes
      BY <3>1, <3>2, RowSettled
    <3> QED
      BY <3>3 DEF v
  <2>5. IsLines(run[q].items)
    BY <1>1, <2>1 DEF RunRow
  <2> HIDE DEF R, q
  <2> QED
    BY <2>1, <2>3, <2>4, <2>5 DEF RunRow, Status
<1> HIDE DEF R, q, items
<1>6. Posts'
  <2>1. /\ SettlementMatches(items) \subseteq Match /\ IsFiniteSet(SettlementMatches(items))
        /\ \A m \in SettlementMatches(items) : \E i \in 1 .. Len(items) : m = SettlementRow(items, i)
    BY <1>1, RowsAdd DEF Typed
  <2>2. IsFiniteSet(match') /\ match' \subseteq Match
    BY <1>1, <2>1, FS_Union DEF Typed, Posts
  <2>3. match_seq \in Nat /\ match_seq' \in Nat /\ Len(Opening) <= Len(entry') /\ Len(Opening) \in Nat
    BY <1>1, <1>2, <1>3, OpeningAssumption DEF Typed, Posts
  <2>4. ASSUME NEW m \in SettlementMatches(items)
        PROVE  m.id <= match_seq' /\ m.a \in DOMAIN entry' /\ m.b \in DOMAIN entry'
    <3>1. PICK i \in 1 .. Len(items) : m = SettlementRow(items, i)
      BY <2>1
    <3>2. m.id = match_seq + i /\ m.a = Len(entry) + i /\ m.b = items[i].entry
      BY <3>1 DEF SettlementRow
    <3> QED
      BY <1>1, <1>2, <1>3, <1>4, <2>3, <3>2
  <2>5. ASSUME NEW m \in match
        PROVE  m.id <= match_seq' /\ m.a \in DOMAIN entry' /\ m.b \in DOMAIN entry'
    <3>1. m.id \in Nat /\ m.id <= match_seq /\ m.a \in DOMAIN entry /\ m.b \in DOMAIN entry
      BY DEF Typed, Posts, Match
    <3> QED
      BY <1>1, <1>3, <1>4, <2>3, <3>1
  <2> QED
    BY <1>1, <1>2, <2>2, <2>3, <2>4, <2>5 DEF Posts
<1>7. Matchings'
  BY <1>1, <1>4, LinesKept DEF Typed, Matchings
<1>8. Rows'
  BY <1>1, <1>4, <1>5, LinesKept DEF Typed, Rows
<1>9. Payings'
  BY <1>1, <1>4, LinesKept DEF Typed, Payings
<1>10. Holds'
  <2>1. ASSUME NEW r \in Run, r # q, run_lock[r] # NoSession PROVE run_lock[r] # s
    <3>1. /\ paying[run_lock[r]] = [run |-> r, items |-> run[r].items]
          /\ paying[run_lock[q]] = [run |-> q, items |-> run[q].items]
      BY <1>1, <2>1, PersonAssumption DEF Typed, Holds
    <3>2. paying[run_lock[r]].run = r /\ paying[run_lock[q]].run = q
      BY <3>1
    <3> QED
      BY <1>1, <2>1, <3>2
  <2> QED
    BY <1>1, <2>1 DEF Typed, Holds, Rows, Payings
<1>11. FewAtWork'
  <2>1. {r \in Run : run'[r].status # "none"} \subseteq {r \in Run : run[r].status # "none"} \cup {q}
    BY <1>1 DEF Typed, Rows
  <2>2. IsFiniteSet({r \in Run : run'[r].status # "none"})
    BY <2>1, OneMore DEF Typed, FewAtWork
  <2>3. {t \in Session : paying'[t] # NotPaying} \subseteq {t \in Session : paying[t] # NotPaying}
    BY <1>1 DEF Typed, Payings
  <2>4. IsFiniteSet({t \in Session : paying'[t] # NotPaying})
    BY <2>3, FS_Subset DEF Typed, FewAtWork
  <2> QED
    BY <1>1, <2>2, <2>4 DEF Typed, FewAtWork
<1> QED
  BY <1>6, <1>7, <1>8, <1>9, <1>10, <1>11 DEF Typed

\* Every step keeps the shape of things.
LEMMA StepTyped == ASSUME Typed, [NextPayments]_payVars PROVE Typed'
<1>1. CASE UNCHANGED payVars
  <2>1. Posts' /\ Matchings' /\ Rows' /\ Payings'
    BY <1>1, PostsStay, LinesStay DEF payVars, Typed, Matchings, Rows, Payings
  <2>2. Holds' /\ FewAtWork'
    BY <1>1 DEF payVars, Typed, Holds, FewAtWork
  <2> QED
    BY <2>1, <2>2 DEF Typed
<1> QED
  BY <1>1, CheckRunTyped, CreateRunTyped, ApproveRunTyped, CancelRunTyped, LockRunTyped, SettleRunTyped,
     AbandonPaymentTyped, SetPolicyTyped, ReskontroTyped DEF NextPayments

-----------------------------------------------------------------------------
\* x is within what is open on a credit post, or on a debit post.
CreditFits(e, x) == entry[e].amount < 0 /\ x <= -remaining(e)
DebitFits(e, x) == entry[e].amount > 0 /\ x <= remaining(e)

\* A debit post is on the debit side of its matches, a credit post on the other.
OneSided(e) == \A m \in match : (m.a = e => entry[e].amount > 0) /\ (m.b = e => entry[e].amount < 0)

\* Whoever counts on e can have what he counts on.
ClaimsFit(e) ==
    /\ \A r \in Run, i \in Nat : RunClaim(r, i, e) => CreditFits(e, run[r].items[i].amount)
    /\ \A s \in Session, i \in Nat : DraftClaim(s, i, e) => CreditFits(e, paying[s].items[i].amount)
    /\ \A s \in Session : matching[s] # NoMatching =>
         /\ matching[s].a = e => DebitFits(e, matching[s].amount)
         /\ matching[s].b = e => CreditFits(e, matching[s].amount)

Fits(e) == ~ Overmatched(e) /\ OneSided(e) /\ ClaimsFit(e)

Uncontended == \A e \in DOMAIN entry \ contended : Lone(e) /\ Fits(e)

\* Nothing changes about what is open if neither entries nor matches change.
LEMMA StillFits ==
  ASSUME UNCHANGED << entry, match >>, NEW e, Fits(e)
  PROVE  /\ ~ Overmatched(e)' /\ OneSided(e)'
         /\ \A x : CreditFits(e, x)' <=> CreditFits(e, x)
         /\ \A x : DebitFits(e, x)' <=> DebitFits(e, x)
  BY DEF Fits, Overmatched, OneSided, CreditFits, DebitFits, remaining

\* What payable_items offers on a post in order is open on its credit side.
LEMMA PayableFits ==
  ASSUME Posts, NEW e \in DOMAIN entry, ~ Overmatched(e), NEW x \in 1 .. payable(e)
  PROVE  CreditFits(e, x)
<1>1. remaining(e) \in Int /\ entry[e].amount \in Int \ {0}
  BY RemainingIsNumber
<1>2. remaining(e) < 0 /\ x \in Int /\ x <= -remaining(e)
  BY <1>1 DEF payable
<1>3. ~ (entry[e].amount > 0)
  BY <1>1, <1>2 DEF Overmatched
<1> QED
  BY <1>1, <1>2, <1>3 DEF CreditFits

\* The lines a request asks for are open when it is checked.
LEMMA CheckRunFits ==
  ASSUME Typed, NEW s \in Session, NEW r \in Run, NEW drafts, CheckRun(s, r, drafts),
         NEW e \in DOMAIN entry, Fits(e)
  PROVE  Fits(e)'
<1> DEFINE items == [i \in DOMAIN drafts |-> [entry |-> drafts[i].entry, amount |-> Amount(drafts[i])]]
           P == [run |-> r, items |-> items]
<1>1. /\ UNCHANGED << entry, match, matching, run >>
      /\ paying' = [paying EXCEPT ![s] = P]
  BY DEF CheckRun
<1>2. /\ ~ Overmatched(e)' /\ OneSided(e)'
      /\ \A x : CreditFits(e, x)' <=> CreditFits(e, x)
      /\ \A x : DebitFits(e, x)' <=> DebitFits(e, x)
  BY <1>1, StillFits
<1>3. ASSUME NEW i \in DOMAIN drafts, items[i].entry = e PROVE CreditFits(e, items[i].amount)
  <2>1. items[i].amount = Amount(drafts[i]) /\ items[i].entry = drafts[i].entry
    OBVIOUS
  <2>2. Amount(drafts[i]) \in 1 .. payable(e)
    BY <1>3, <2>1 DEF CheckRun
  <2> HIDE DEF items
  <2> QED
    BY <2>1, <2>2, PayableFits DEF Typed, Fits
<1>4. /\ paying'[s] = P /\ P.items = items /\ DOMAIN items = DOMAIN drafts
      /\ \A t \in Session : t # s => paying'[t] = paying[t]
  BY <1>1 DEF Typed, Payings
<1> HIDE DEF items, P
<1>5. \A t \in Session, i \in Nat : DraftClaim(t, i, e)' => CreditFits(e, paying'[t].items[i].amount)
  BY <1>1, <1>3, <1>4 DEF DraftClaim, Creating, Fits, ClaimsFit
<1>6. ClaimsFit(e)'
  BY <1>1, <1>2, <1>5 DEF Fits, ClaimsFit, RunClaim, Live
<1> QED
  BY <1>2, <1>6 DEF Fits

\* The lines of a run are those that were checked.
LEMMA CreateRunFits ==
  ASSUME Typed, NEW s \in Session, NEW p \in Person, CreateRun(s, p), NEW e, Fits(e)
  PROVE  Fits(e)'
<1>0. PICK q \in Run : q = paying[s].run
  BY DEF CreateRun, Typed, Payings
<1> DEFINE R == [NoRun EXCEPT !.status = "utkast", !.items = paying[s].items, !.creator = p]
<1>1. /\ UNCHANGED << entry, match, matching >>
      /\ run' = [run EXCEPT ![q] = R] /\ paying' = [paying EXCEPT ![s] = NotPaying]
      /\ run[q].status = "none" /\ paying[s] # NotPaying
      /\ R.items = paying[s].items
  BY <1>0 DEF CreateRun, NoRun, Typed, Payings
<1>2. /\ ~ Overmatched(e)' /\ OneSided(e)'
      /\ \A x : CreditFits(e, x)' <=> CreditFits(e, x)
      /\ \A x : DebitFits(e, x)' <=> DebitFits(e, x)
  BY <1>1, StillFits
<1>3. R.status = "utkast"
  BY DEF NoRun
<1> HIDE DEF R
<1>4. /\ run'[q] = R /\ \A r \in Run : r # q => run'[r] = run[r]
      /\ paying'[s] = NotPaying /\ \A t \in Session : t # s => paying'[t] = paying[t]
  BY <1>1 DEF Typed, Rows, Payings
<1>5. \A i : RunClaim(q, i, e)' => DraftClaim(s, i, e) /\ run'[q].items[i].amount = paying[s].items[i].amount
  BY <1>0, <1>1, <1>4 DEF RunClaim, DraftClaim, Creating, Live
<1>6. \A r \in Run, i \in Nat : RunClaim(r, i, e)' => CreditFits(e, run'[r].items[i].amount)
  BY <1>4, <1>5 DEF RunClaim, Live, Fits, ClaimsFit
<1>7. \A t \in Session, i \in Nat : DraftClaim(t, i, e)' => t # s /\ DraftClaim(t, i, e)
  <2> SUFFICES ASSUME NEW t \in Session, NEW i \in Nat, DraftClaim(t, i, e)' PROVE t # s /\ DraftClaim(t, i, e)
    OBVIOUS
  <2>1. t # s
    BY <1>4 DEF DraftClaim, Creating
  <2>2. paying'[t] = paying[t] /\ paying[t] # NotPaying /\ run'[paying[t].run].status = "none"
    BY <1>4, <2>1 DEF DraftClaim, Creating
  <2>3. paying[t].run # q
    BY <1>3, <1>4, <2>2
  <2>4. run[paying[t].run].status = "none"
    BY <1>4, <2>2, <2>3 DEF Typed, Payings
  <2> QED
    BY <2>1, <2>2, <2>4 DEF DraftClaim, Creating
<1>8. ClaimsFit(e)'
  BY <1>1, <1>2, <1>4, <1>6, <1>7 DEF Fits, ClaimsFit
<1> QED
  BY <1>2, <1>8 DEF Fits

\* A run is approved or cancelled.
LEMMA StatusFits ==
  ASSUME Typed, NEW q \in Run, run[q].status = "utkast", NEW R, R.status # "none", R.items = run[q].items,
         run' = [run EXCEPT ![q] = R],
         UNCHANGED << entry, match, matching, paying >>, NEW e, Fits(e)
  PROVE  Fits(e)'
<1>1. /\ ~ Overmatched(e)' /\ OneSided(e)'
      /\ \A x : CreditFits(e, x)' <=> CreditFits(e, x)
      /\ \A x : DebitFits(e, x)' <=> DebitFits(e, x)
  BY StillFits
<1>2. run'[q] = R /\ \A r \in Run : r # q => run'[r] = run[r]
  BY DEF Typed, Rows
<1>3. \A r \in Run, i \in Nat : RunClaim(r, i, e)' => RunClaim(r, i, e) /\ run'[r].items = run[r].items
  BY <1>2 DEF RunClaim, Live
<1>4. \A t \in Session, i \in Nat : DraftClaim(t, i, e)' => DraftClaim(t, i, e)
  BY <1>2 DEF DraftClaim, Creating, Typed, Payings
<1>5. ClaimsFit(e)'
  BY <1>1, <1>3, <1>4 DEF Fits, ClaimsFit
<1> QED
  BY <1>1, <1>5 DEF Fits

\* Approval claims nothing more.
LEMMA ApproveRunFits ==
  ASSUME Typed, NEW r \in Run, NEW p \in Person, ApproveRun(r, p), NEW e, Fits(e)
  PROVE  Fits(e)'
<1> DEFINE R == [run[r] EXCEPT !.status = "godkjent", !.approver = p, !.four_eyes = policy]
<1>1. RunRow(run[r])
  BY DEF Typed, Rows
<1>2. R.status # "none" /\ R.items = run[r].items
  BY <1>1 DEF RunRow, Row, Column
<1>3. /\ run' = [run EXCEPT ![r] = R] /\ run[r].status = "utkast"
      /\ UNCHANGED << entry, match, matching, paying >>
  BY DEF ApproveRun
<1> HIDE DEF R
<1> QED
  BY <1>2, <1>3, StatusFits

\* Cancellation claims nothing more.
LEMMA CancelRunFits ==
  ASSUME Typed, NEW r \in Run, CancelRun(r), NEW e, Fits(e)
  PROVE  Fits(e)'
<1> DEFINE R == [run[r] EXCEPT !.status = "annullert"]
<1>1. RunRow(run[r])
  BY DEF Typed, Rows
<1>2. R.status # "none" /\ R.items = run[r].items
  BY <1>1 DEF RunRow, Row, Column
<1>3. /\ run' = [run EXCEPT ![r] = R] /\ run[r].status = "utkast"
      /\ UNCHANGED << entry, match, matching, paying >>
  BY DEF CancelRun
<1> HIDE DEF R
<1> QED
  BY <1>2, <1>3, StatusFits

\* Somebody begins to settle a run, or gives up: nothing new is claimed.
LEMMA FewerDraftsFit ==
  ASSUME UNCHANGED << entry, match, matching, run >>, NEW e, Fits(e),
         \A t \in Session : Creating(t)' => Creating(t) /\ paying'[t] = paying[t]
  PROVE  Fits(e)'
<1>1. /\ ~ Overmatched(e)' /\ OneSided(e)'
      /\ \A x : CreditFits(e, x)' <=> CreditFits(e, x)
      /\ \A x : DebitFits(e, x)' <=> DebitFits(e, x)
  BY StillFits
<1>2. \A t \in Session, i \in Nat : DraftClaim(t, i, e)' => DraftClaim(t, i, e) /\ paying'[t] = paying[t]
  BY DEF DraftClaim
<1>3. \A r \in Run, i \in Nat : RunClaim(r, i, e)' => RunClaim(r, i, e)
  BY DEF RunClaim, Live
<1>4. ClaimsFit(e)'
  BY <1>1, <1>2, <1>3 DEF Fits, ClaimsFit
<1> QED
  BY <1>1, <1>4 DEF Fits

\* The lock claims nothing more.
LEMMA LockRunFits ==
  ASSUME Typed, NEW s \in Session, NEW r \in Run, LockRun(s, r), NEW e, Fits(e)
  PROVE  Fits(e)'
<1> DEFINE P == [run |-> r, items |-> run[r].items]
<1>1. /\ UNCHANGED << entry, match, matching, run >> /\ paying' = [paying EXCEPT ![s] = P]
      /\ run[r].status = "godkjent" /\ P.run = r
  BY DEF LockRun
<1> HIDE DEF P
<1>2. \A t \in Session : Creating(t)' => Creating(t) /\ paying'[t] = paying[t]
  BY <1>1 DEF Creating, Typed, Payings
<1> QED
  BY <1>1, <1>2, FewerDraftsFit

\* Who gives up claims nothing.
LEMMA AbandonPaymentFits ==
  ASSUME Typed, NEW s \in Session, AbandonPayment(s), NEW e, Fits(e)
  PROVE  Fits(e)'
<1>1. /\ UNCHANGED << entry, match, matching, run >> /\ paying' = [paying EXCEPT ![s] = NotPaying]
  BY DEF AbandonPayment
<1>2. \A t \in Session : Creating(t)' => Creating(t) /\ paying'[t] = paying[t]
  BY <1>1 DEF Creating, Typed, Payings
<1> QED
  BY <1>1, <1>2, FewerDraftsFit

\* A match is read or dropped, and nothing is inserted.
LEMMA MatchingFits ==
  ASSUME Typed, UNCHANGED << entry, match, run, paying >>, NEW e, Fits(e),
         NEW s \in Session, NEW m, matching' = [matching EXCEPT ![s] = m],
         m # NoMatching => /\ m.a = e => DebitFits(e, m.amount)
                           /\ m.b = e => CreditFits(e, m.amount)
  PROVE  Fits(e)'
<1>1. /\ ~ Overmatched(e)' /\ OneSided(e)'
      /\ \A x : CreditFits(e, x)' <=> CreditFits(e, x)
      /\ \A x : DebitFits(e, x)' <=> DebitFits(e, x)
  BY StillFits
<1>2. matching'[s] = m /\ \A t \in Session : t # s => matching'[t] = matching[t]
  BY DEF Typed, Matchings
<1>3. /\ \A r \in Run, i \in Nat : RunClaim(r, i, e)' => RunClaim(r, i, e)
      /\ \A t \in Session, i \in Nat : DraftClaim(t, i, e)' => DraftClaim(t, i, e)
  BY DEF RunClaim, Live, DraftClaim, Creating
<1>4. ClaimsFit(e)'
  BY <1>1, <1>2, <1>3 DEF Fits, ClaimsFit
<1> QED
  BY <1>1, <1>4 DEF Fits

\* What is about to be matched is open on both sides.
LEMMA CheckMatchFits ==
  ASSUME Typed, UNCHANGED << run, paying >>, NEW s \in Session, NEW a \in DOMAIN entry, NEW b \in DOMAIN entry,
         NEW amount \in 1 .. entry[a].amount, CheckMatch(s, a, b, amount), NEW e \in DOMAIN entry, Fits(e)
  PROVE  Fits(e)'
<1> DEFINE m == [a |-> a, b |-> b, amount |-> amount]
<1>1. /\ matching' = [matching EXCEPT ![s] = m] /\ UNCHANGED << entry, match >>
      /\ remaining(a) >= amount /\ -remaining(b) >= amount /\ amount > 0
  BY DEF CheckMatch
<1>2. /\ remaining(e) \in Int /\ entry[e].amount \in Int \ {0} /\ entry[a].amount \in Int
  BY RemainingIsNumber DEF Typed
<1>3. amount \in Int
  BY <1>2
<1>4. ~ Overmatched(e)
  BY DEF Fits
<1>5. a = e => DebitFits(e, amount)
  BY <1>1, <1>2, <1>3, <1>4 DEF DebitFits, Overmatched
<1>6. b = e => CreditFits(e, amount)
  BY <1>1, <1>2, <1>3, <1>4 DEF CreditFits, Overmatched
<1>7. m.a = a /\ m.b = b /\ m.amount = amount
  OBVIOUS
<1> HIDE DEF m
<1> QED
  BY <1>1, <1>5, <1>6, <1>7, MatchingFits

\* What one row does to a post.
LEMMA OneRowMatches ==
  ASSUME NEW n \in Match, NEW e
  PROVE  /\ n.a = e /\ n.b # e => matched({n}, e) = n.amount
         /\ n.b = e /\ n.a # e => matched({n}, e) = -n.amount
         /\ n.a # e /\ n.b # e => matched({n}, e) = 0
<1>1. IsFiniteSet({n}) /\ {n} \subseteq Match
  BY FS_Singleton
<1>2. \A m \in {n} : m # n => m.a # e /\ m.b # e
  OBVIOUS
<1>3. /\ n.a = e /\ n.b # e => matched({n}, e) = n.amount
      /\ n.b = e /\ n.a # e => matched({n}, e) = -n.amount
  BY <1>1, <1>2, MatchedByOne
<1>4. n.a # e /\ n.b # e => matched({n}, e) = 0
  BY <1>1, MatchedByNone
<1> QED
  BY <1>3, <1>4

\* Claims are of positive amounts, on posts that exist.
LEMMA ClaimedAmounts ==
  ASSUME Typed, NEW e
  PROVE  /\ \A r \in Run, i \in Nat : RunClaim(r, i, e) => run[r].items[i].amount \in Nat \ {0} /\ e \in DOMAIN entry
         /\ \A s \in Session, i \in Nat : DraftClaim(s, i, e) => paying[s].items[i].amount \in Nat \ {0} /\ e \in DOMAIN entry
         /\ \A s \in Session : matching[s] # NoMatching =>
              matching[s].amount \in Nat \ {0} /\ matching[s].a \in DOMAIN entry /\ matching[s].b \in DOMAIN entry
<1>1. ASSUME NEW r \in Run, NEW i \in Nat, RunClaim(r, i, e)
      PROVE  run[r].items[i].amount \in Nat \ {0} /\ e \in DOMAIN entry
  <2>1. IsLines(run[r].items)
    BY <1>1 DEF RunClaim, Live, Typed, Rows, RunRow
  <2> QED
    BY <1>1, <2>1, LinesOf DEF RunClaim
<1>2. ASSUME NEW s \in Session, NEW i \in Nat, DraftClaim(s, i, e)
      PROVE  paying[s].items[i].amount \in Nat \ {0} /\ e \in DOMAIN entry
  <2>1. IsLines(paying[s].items)
    BY <1>2 DEF DraftClaim, Creating, Typed, Payings
  <2> QED
    BY <1>2, <2>1, LinesOf DEF DraftClaim
<1>3. \A s \in Session : matching[s] # NoMatching => IsMatching(matching[s])
  BY DEF Typed, Matchings
<1> QED
  BY <1>1, <1>2, <1>3 DEF IsMatching

\* A match that is inserted takes what it claimed, and nobody else claims there.
LEMMA InsertMatchFits ==
  ASSUME Typed, UNCHANGED << run, paying >>, NEW s \in Session, InsertMatch(s),
         NEW e \in DOMAIN entry, Fits(e), Lone(e)
  PROVE  Fits(e)'
<1>0. PICK m : m = matching[s]
  OBVIOUS
<1> DEFINE n == [id |-> match_seq + 1, a |-> m.a, b |-> m.b, amount |-> m.amount]
<1>1. /\ m # NoMatching /\ match' = match \cup {n} /\ UNCHANGED entry
      /\ matching' = [matching EXCEPT ![s] = NoMatching] /\ IsMatching(m)
  BY <1>0 DEF InsertMatch, Typed, Matchings
<1>2. n \in Match /\ n \notin match /\ n.a = m.a /\ n.b = m.b /\ n.amount = m.amount
  <2>1. n.id = match_seq + 1 /\ n.a = m.a /\ n.b = m.b /\ n.amount = m.amount
    OBVIOUS
  <2>2. n \in Match
    BY <1>1 DEF Match, IsMatching, Typed, Posts
  <2> HIDE DEF n
  <2> QED
    BY <2>1, <2>2 DEF Typed, Posts
<1> HIDE DEF n
<1>3. matched(match', e) = matched(match, e) + matched({n}, e)
  <2>1. match \subseteq Match /\ IsFiniteSet(match) /\ {n} \subseteq Match /\ IsFiniteSet({n}) /\ match \cap {n} = {}
    BY <1>2, FS_Singleton DEF Typed, Posts
  <2> QED
    BY <1>1, <2>1, MatchedApart
<1>4. /\ remaining(e) \in Int /\ entry[e].amount \in Int \ {0} /\ matched(match, e) \in Int
  BY RemainingIsNumber, SidesAreNumbers DEF Typed, Posts
<1>5. m.amount \in Nat \ {0}
  BY <1>1 DEF IsMatching
<1>6. /\ matching'[s] = NoMatching /\ \A t \in Session : t # s => matching'[t] = matching[t]
  BY <1>1 DEF Typed, Matchings
<1>7. /\ \A r \in Run, i \in Nat : RunClaim(r, i, e)' => RunClaim(r, i, e)
      /\ \A t \in Session, i \in Nat : DraftClaim(t, i, e)' => DraftClaim(t, i, e)
  BY DEF RunClaim, Live, DraftClaim, Creating
<1>8. CASE m.a # e /\ m.b # e
  <2>1. matched(match', e) = matched(match, e)
    BY <1>2, <1>3, <1>4, <1>8, OneRowMatches
  <2>2. remaining(e)' = remaining(e) /\ entry'[e] = entry[e]
    BY <1>1, <2>1 DEF remaining
  <2>3. ~ Overmatched(e)' /\ OneSided(e)'
    BY <1>1, <1>2, <1>8, <2>2 DEF Fits, Overmatched, OneSided
  <2>4. /\ \A x : CreditFits(e, x)' <=> CreditFits(e, x)
        /\ \A x : DebitFits(e, x)' <=> DebitFits(e, x)
    BY <2>2 DEF CreditFits, DebitFits
  <2>5. ClaimsFit(e)'
    BY <1>6, <1>7, <2>4 DEF Fits, ClaimsFit
  <2> QED
    BY <2>3, <2>5 DEF Fits
<1>9. CASE m.a = e \/ m.b = e
  <2>1. MatchClaim(s, e)
    BY <1>0, <1>1, <1>9 DEF MatchClaim
  <2>2. ClaimsFit(e)'
    <3>1. /\ \A r \in Run, i \in Nat : ~ RunClaim(r, i, e)'
          /\ \A t \in Session, i \in Nat : ~ DraftClaim(t, i, e)'
      BY <1>7, <2>1 DEF Lone
    <3>2. \A t \in Session : matching'[t] # NoMatching => matching'[t].a # e /\ matching'[t].b # e
      BY <1>6, <2>1 DEF Lone, MatchClaim
    <3> QED
      BY <3>1, <3>2 DEF ClaimsFit
  <2>3. CASE m.a = e
    <3>1. DebitFits(e, m.amount)
      BY <1>0, <1>1, <2>3 DEF Fits, ClaimsFit
    <3>2. m.b # e
      <4>1. m.b = e => CreditFits(e, m.amount)
        BY <1>0, <1>1 DEF Fits, ClaimsFit
      <4> QED
        BY <1>4, <3>1, <4>1 DEF CreditFits, DebitFits
    <3>3. matched(match', e) = matched(match, e) + m.amount
      BY <1>2, <1>3, <2>3, <3>2, OneRowMatches
    <3>4. remaining(e)' = remaining(e) - m.amount /\ entry'[e] = entry[e]
      BY <1>1, <1>4, <1>5, <3>3 DEF remaining
    <3>5. ~ Overmatched(e)'
      BY <1>4, <1>5, <3>1, <3>4 DEF Fits, Overmatched, DebitFits
    <3>6. OneSided(e)'
      BY <1>1, <1>2, <3>1, <3>2 DEF Fits, OneSided, DebitFits
    <3> QED
      BY <2>2, <3>5, <3>6 DEF Fits
  <2>4. CASE m.b = e
    <3>1. CreditFits(e, m.amount)
      BY <1>0, <1>1, <2>4 DEF Fits, ClaimsFit
    <3>2. m.a # e
      <4>1. m.a = e => DebitFits(e, m.amount)
        BY <1>0, <1>1 DEF Fits, ClaimsFit
      <4> QED
        BY <1>4, <3>1, <4>1 DEF CreditFits, DebitFits
    <3>3. matched(match', e) = matched(match, e) - m.amount
      BY <1>2, <1>3, <1>4, <1>5, <2>4, <3>2, OneRowMatches
    <3>4. remaining(e)' = remaining(e) + m.amount /\ entry'[e] = entry[e]
      BY <1>1, <1>4, <1>5, <3>3 DEF remaining
    <3>5. ~ Overmatched(e)'
      BY <1>4, <1>5, <3>1, <3>4 DEF Fits, Overmatched, CreditFits
    <3>6. OneSided(e)'
      BY <1>1, <1>2, <3>1, <3>2 DEF Fits, OneSided, CreditFits
    <3> QED
      BY <2>2, <3>5, <3>6 DEF Fits
  <2> QED
    BY <1>9, <2>3, <2>4
<1> QED
  BY <1>8, <1>9

\* A match that is deleted opens what it had closed, and no more.
LEMMA UnmatchFits ==
  ASSUME Typed, UNCHANGED << run, paying >>, NEW m \in match, Unmatch(m), NEW e \in DOMAIN entry, Fits(e)
  PROVE  Fits(e)'
<1>1. match' = match \ {m} /\ UNCHANGED << entry, matching >>
  BY DEF Unmatch
<1>2. m \in Match /\ m.amount \in Nat
  BY DEF Typed, Posts, Match
<1>3. /\ match' \subseteq Match /\ IsFiniteSet(match') /\ {m} \subseteq Match /\ IsFiniteSet({m})
      /\ match' \cap {m} = {} /\ match = match' \cup {m}
  BY <1>1, <1>2, FS_Singleton, FS_Subset DEF Typed, Posts
<1>4. matched(match, e) = matched(match', e) + matched({m}, e)
  BY <1>3, MatchedApart
<1>5. /\ remaining(e) \in Int /\ entry[e].amount \in Int \ {0} /\ matched(match, e) \in Int /\ matched(match', e) \in Int
  BY <1>3, RemainingIsNumber, SidesAreNumbers DEF Typed, Posts
<1>6. /\ remaining(e) = entry[e].amount - matched(match, e)
      /\ remaining(e)' = entry[e].amount - matched(match', e)
      /\ entry'[e] = entry[e]
  BY <1>1 DEF remaining
<1>7. OneSided(e)' /\ OneSided(e) /\ ~ Overmatched(e)
  BY <1>1 DEF Fits, OneSided
<1>8. entry[e].amount > 0 => /\ remaining(e)' >= remaining(e) /\ remaining(e)' <= entry[e].amount
  <2> SUFFICES ASSUME entry[e].amount > 0
               PROVE  remaining(e)' >= remaining(e) /\ remaining(e)' <= entry[e].amount
    OBVIOUS
  <2>1. m.b # e /\ \A o \in match' : o.b # e
    BY <1>3, <1>5, <1>7 DEF OneSided
  <2>2. matched(match', e) >= 0
    BY <1>3, <2>1, MatchedOneSided
  <2>3. matched({m}, e) \in Nat
    BY <1>2, <2>1, OneRowMatches
  <2> QED
    BY <1>4, <1>5, <1>6, <2>2, <2>3
<1>9. entry[e].amount < 0 => /\ remaining(e)' <= remaining(e) /\ remaining(e)' >= entry[e].amount
  <2> SUFFICES ASSUME entry[e].amount < 0
               PROVE  remaining(e)' <= remaining(e) /\ remaining(e)' >= entry[e].amount
    OBVIOUS
  <2>1. m.a # e /\ \A o \in match' : o.a # e
    BY <1>3, <1>5, <1>7 DEF OneSided
  <2>2. matched(match', e) <= 0
    BY <1>3, <2>1, MatchedOneSided
  <2>3. matched({m}, e) \in Int /\ matched({m}, e) <= 0
    BY <1>2, <2>1, OneRowMatches
  <2> QED
    BY <1>4, <1>5, <1>6, <2>2, <2>3
<1>10. remaining(e)' \in Int
  BY <1>5, <1>6
<1>11. ~ Overmatched(e)'
  BY <1>5, <1>6, <1>7, <1>8, <1>9, <1>10 DEF Overmatched
<1>12. /\ \A x \in Int : CreditFits(e, x) => CreditFits(e, x)'
       /\ \A x \in Int : DebitFits(e, x) => DebitFits(e, x)'
  BY <1>5, <1>6, <1>8, <1>9, <1>10 DEF CreditFits, DebitFits
<1>13. /\ \A r \in Run, i \in Nat : RunClaim(r, i, e)' => RunClaim(r, i, e)
       /\ \A t \in Session, i \in Nat : DraftClaim(t, i, e)' => DraftClaim(t, i, e)
  BY DEF RunClaim, Live, DraftClaim, Creating
<1>14. ClaimsFit(e)'
  BY <1>1, <1>12, <1>13, ClaimedAmounts DEF Fits, ClaimsFit
<1> QED
  BY <1>7, <1>11, <1>14 DEF Fits

\* What a settlement leaves of the claims: those of the run it pays are gone.
LEMMA SettledClaims ==
  ASSUME Typed, NEW s \in Session, SettleRun(s), NEW q \in Run, q = paying[s].run
  PROVE  /\ Live(q) /\ paying[s].items = run[q].items
         /\ \A e : \A r \in Run, i \in Nat : RunClaim(r, i, e)' => r # q /\ RunClaim(r, i, e) /\ run'[r] = run[r]
         /\ \A e : \A t \in Session, i \in Nat : DraftClaim(t, i, e)' => DraftClaim(t, i, e) /\ paying'[t] = paying[t]
<1> DEFINE R == [run[q] EXCEPT !.status = "utbetalt", !.voucher = Append(@, Len(entry) + 1)]
<1>1. /\ run[q].status = "godkjent" /\ paying[s].items = run[q].items
      /\ run' = [run EXCEPT ![q] = R] /\ paying' = [paying EXCEPT ![s] = NotPaying]
  BY SettleSteps
<1>2. R.status = "utbetalt"
  BY DEF Typed, Rows, RunRow, Row, Column
<1> HIDE DEF R
<1>3. /\ run'[q] = R /\ \A r \in Run : r # q => run'[r] = run[r]
      /\ paying'[s] = NotPaying /\ \A t \in Session : t # s => paying'[t] = paying[t]
  BY <1>1 DEF Typed, Rows, Payings
<1>4. ASSUME NEW e, NEW r \in Run, NEW i \in Nat, RunClaim(r, i, e)'
      PROVE  r # q /\ RunClaim(r, i, e) /\ run'[r] = run[r]
  <2>1. r # q
    BY <1>2, <1>3, <1>4 DEF RunClaim, Live
  <2> QED
    BY <1>3, <1>4, <2>1 DEF RunClaim, Live
<1>5. ASSUME NEW e, NEW t \in Session, NEW i \in Nat, DraftClaim(t, i, e)'
      PROVE  DraftClaim(t, i, e) /\ paying'[t] = paying[t]
  <2>1. t # s /\ paying'[t] = paying[t] /\ paying[t] # NotPaying
    BY <1>3, <1>5 DEF DraftClaim, Creating
  <2>2. run'[paying[t].run].status = "none"
    BY <1>5, <2>1 DEF DraftClaim, Creating
  <2>3. paying[t].run # q /\ paying[t].run \in Run
    BY <1>2, <1>3, <2>1, <2>2 DEF Typed, Payings
  <2> QED
    BY <1>3, <1>5, <2>1, <2>2, <2>3 DEF DraftClaim, Creating
<1> QED
  BY <1>1, <1>4, <1>5 DEF Live

\* A settlement takes what its run claimed: one line a post, and nobody else claims there.
LEMMA SettleRunFits ==
  ASSUME Typed, NEW s \in Session, SettleRun(s), NEW e \in DOMAIN entry, Fits(e), Lone(e)
  PROVE  Fits(e)'
<1>a. PICK q \in Run : q = paying[s].run
  BY SettleSteps
<1>b. PICK items : items = paying[s].items
  OBVIOUS
<1> DEFINE rows == SettlementMatches(items)
           row(i) == SettlementRow(items, i)
<1>1. /\ IsLines(items) /\ items = run[q].items
      /\ entry' = entry \o Debits(items) /\ match' = match \cup rows
      /\ UNCHANGED matching
  BY <1>a, <1>b, SettleSteps
<1>2. entry'[e] = entry[e] /\ Len(entry) \in Nat /\ DOMAIN entry = 1 .. Len(entry)
  BY <1>1, VoucherAdds DEF Typed
<1>3. /\ Len(items) \in Nat /\ DOMAIN items = 1 .. Len(items)
      /\ \A i \in 1 .. Len(items) : items[i].entry \in DOMAIN entry /\ items[i].amount \in Nat \ {0}
  BY <1>1, LinesOf
<1>4. /\ rows \subseteq Match /\ IsFiniteSet(rows) /\ match \cap rows = {}
      /\ \A m \in rows : \E i \in 1 .. Len(items) : m = row(i)
      /\ \A i \in 1 .. Len(items) : row(i) \in rows
  BY <1>1, RowsAdd DEF Typed
<1>5. \A i \in 1 .. Len(items) : row(i).a = Len(entry) + i /\ row(i).b = items[i].entry /\ row(i).amount = items[i].amount
  BY DEF SettlementRow
<1> HIDE DEF rows, row
<1>6. \A i \in 1 .. Len(items) : row(i).a # e
  BY <1>2, <1>3, <1>5
<1>7. matched(match', e) = matched(match, e) + matched(rows, e)
  <2>1. match \subseteq Match /\ IsFiniteSet(match)
    BY DEF Typed, Posts
  <2> QED
    BY <1>1, <1>4, <2>1, MatchedApart
<1>8. /\ remaining(e) \in Int /\ entry[e].amount \in Int \ {0} /\ matched(match, e) \in Int
  BY RemainingIsNumber, SidesAreNumbers DEF Typed, Posts
<1>c. /\ Live(q)
      /\ \A r \in Run, i \in Nat : RunClaim(r, i, e)' => r # q /\ RunClaim(r, i, e) /\ run'[r] = run[r]
      /\ \A t \in Session, i \in Nat : DraftClaim(t, i, e)' => DraftClaim(t, i, e) /\ paying'[t] = paying[t]
  BY <1>a, SettledClaims
<1>d. \A i \in 1 .. Len(items) : items[i].entry = e => RunClaim(q, i, e) /\ i \in Nat
  BY <1>c, <1>1, <1>3 DEF RunClaim
<1>9. CASE \A i \in 1 .. Len(items) : items[i].entry # e
  <2>1. \A m \in rows : m.a # e /\ m.b # e
    BY <1>4, <1>5, <1>6, <1>9
  <2>2. matched(rows, e) = 0
    BY <1>4, <2>1, MatchedByNone
  <2>3. remaining(e)' = remaining(e)
    BY <1>2, <1>7, <1>8, <2>2 DEF remaining
  <2>4. ~ Overmatched(e)' /\ OneSided(e)'
    BY <1>1, <1>2, <2>1, <2>3 DEF Fits, Overmatched, OneSided
  <2>5. /\ \A x : CreditFits(e, x)' <=> CreditFits(e, x)
        /\ \A x : DebitFits(e, x)' <=> DebitFits(e, x)
    BY <1>2, <2>3 DEF CreditFits, DebitFits
  <2>6. ClaimsFit(e)'
    <3>1. \A r \in Run, i \in Nat : RunClaim(r, i, e)' => CreditFits(e, run[r].items[i].amount)'
      BY <1>c, <2>5 DEF Fits, ClaimsFit
    <3>2. \A t \in Session, i \in Nat : DraftClaim(t, i, e)' => CreditFits(e, paying[t].items[i].amount)'
      BY <1>c, <2>5 DEF Fits, ClaimsFit
    <3>3. \A t \in Session : matching'[t] # NoMatching =>
            /\ matching'[t].a = e => DebitFits(e, matching[t].amount)'
            /\ matching'[t].b = e => CreditFits(e, matching[t].amount)'
      BY <1>1, <2>5 DEF Fits, ClaimsFit
    <3> QED
      BY <3>1, <3>2, <3>3 DEF ClaimsFit
  <2> QED
    BY <2>4, <2>6 DEF Fits
<1>10. ASSUME NEW k \in 1 .. Len(items), items[k].entry = e PROVE Fits(e)'
  <2>1. RunClaim(q, k, e) /\ k \in Nat
    BY <1>10, <1>d
  <2>2. CreditFits(e, items[k].amount)
    BY <1>1, <2>1 DEF Fits, ClaimsFit
  <2>3. \A i \in 1 .. Len(items) : items[i].entry = e => i = k
    <3> SUFFICES ASSUME NEW i \in 1 .. Len(items), items[i].entry = e PROVE i = k
      OBVIOUS
    <3>1. RunClaim(q, i, e) /\ i \in Nat
      BY <1>d
    <3> QED
      BY <2>1, <3>1 DEF Lone
  <2>4. \A m \in rows : m # row(k) => m.a # e /\ m.b # e
    BY <1>4, <1>5, <1>6, <2>3
  <2>5. matched(rows, e) = -items[k].amount
    <3>1. row(k) \in rows /\ row(k).a # e /\ row(k).b = e /\ row(k).amount = items[k].amount
      BY <1>4, <1>5, <1>6, <1>10
    <3> QED
      BY <1>4, <2>4, <3>1, MatchedByOne
  <2>6. items[k].amount \in Nat \ {0}
    BY <1>3
  <2>7. remaining(e)' = remaining(e) + items[k].amount
    <3>1. matched(match', e) = matched(match, e) - items[k].amount
      BY <1>7, <1>8, <2>5, <2>6
    <3>2. entry'[e].amount = entry[e].amount
      BY <1>2
    <3> QED
      BY <1>8, <2>6, <3>1, <3>2 DEF remaining
  <2>8. ~ Overmatched(e)'
    <3>1. entry[e].amount < 0 /\ remaining(e)' <= 0 /\ remaining(e)' >= remaining(e)
      BY <1>8, <2>2, <2>6, <2>7 DEF CreditFits
    <3>2. entry'[e].amount < 0 /\ ~ Overmatched(e)
      BY <1>2, <3>1 DEF Fits
    <3>3. remaining(e)' \in Int /\ remaining(e) \in entry[e].amount .. 0
      BY <1>8, <2>6, <2>7, <3>1, <3>2 DEF Overmatched
    <3>4. entry'[e].amount = entry[e].amount /\ remaining(e)' >= entry[e].amount
      BY <1>2, <1>8, <3>1, <3>3
    <3> QED
      BY <1>8, <3>1, <3>3, <3>4 DEF Overmatched
  <2>9. OneSided(e)'
    BY <1>1, <1>2, <1>4, <1>6, <2>2 DEF Fits, OneSided, CreditFits
  <2>10. ClaimsFit(e)'
    <3>1. /\ \A r \in Run, i \in Nat : ~ RunClaim(r, i, e)'
          /\ \A t \in Session, i \in Nat : ~ DraftClaim(t, i, e)'
      BY <1>c, <2>1 DEF Lone
    <3>2. \A t \in Session : ~ MatchClaim(t, e)
      BY <2>1 DEF Lone
    <3>3. \A t \in Session : matching'[t] # NoMatching => matching'[t].a # e /\ matching'[t].b # e
      BY <1>1, <3>2 DEF MatchClaim
    <3> QED
      BY <3>1, <3>3 DEF ClaimsFit
  <2> QED
    BY <2>8, <2>9, <2>10 DEF Fits
<1> QED
  BY <1>9, <1>10

\* The entries a settlement adds are settled from the start, and nobody counts on them.
LEMMA NewEntryFits ==
  ASSUME Typed, NEW s \in Session, SettleRun(s), NEW e \in DOMAIN entry', e \notin DOMAIN entry
  PROVE  Fits(e)'
<1>a. PICK q \in Run : q = paying[s].run
  BY SettleSteps
<1>b. PICK items : items = paying[s].items
  OBVIOUS
<1> DEFINE rows == SettlementMatches(items)
           row(i) == SettlementRow(items, i)
<1>1. /\ IsLines(items) /\ items = run[q].items
      /\ entry' = entry \o Debits(items) /\ match' = match \cup rows
      /\ UNCHANGED matching
  BY <1>a, <1>b, SettleSteps
<1>2. /\ Len(entry) \in Nat /\ DOMAIN entry = 1 .. Len(entry)
      /\ DOMAIN entry' = 1 .. (Len(entry) + Len(items))
      /\ \A i \in 1 .. Len(items) : entry'[Len(entry) + i].amount = items[i].amount
  BY <1>1, VoucherAdds DEF Typed
<1>3. /\ Len(items) \in Nat
      /\ \A i \in 1 .. Len(items) : items[i].entry \in DOMAIN entry /\ items[i].amount \in Nat \ {0}
  BY <1>1, LinesOf
<1>4. /\ rows \subseteq Match /\ IsFiniteSet(rows) /\ match \cap rows = {}
      /\ \A m \in rows : \E i \in 1 .. Len(items) : m = row(i)
      /\ \A i \in 1 .. Len(items) : row(i) \in rows
  BY <1>1, RowsAdd DEF Typed
<1>5. \A i \in 1 .. Len(items) : row(i).a = Len(entry) + i /\ row(i).b = items[i].entry /\ row(i).amount = items[i].amount
  BY DEF SettlementRow
<1> HIDE DEF rows, row
<1>6. PICK k \in 1 .. Len(items) : e = Len(entry) + k
  <2>1. e \in Int /\ e > Len(entry) /\ e <= Len(entry) + Len(items)
    BY <1>2, <1>3
  <2>2. e - Len(entry) \in 1 .. Len(items) /\ e = Len(entry) + (e - Len(entry))
    BY <1>2, <1>3, <2>1
  <2> QED
    BY <2>2
<1>7. entry'[e].amount = items[k].amount /\ items[k].amount \in Nat \ {0}
  BY <1>2, <1>3, <1>6
<1>8. \A m \in match : m.a # e /\ m.b # e
  BY DEF Typed, Posts
<1>9. \A m \in rows : m.b # e
  BY <1>3, <1>4, <1>5
<1>10. \A m \in rows : m # row(k) => m.a # e
  <2> SUFFICES ASSUME NEW m \in rows, m.a = e PROVE m = row(k)
    OBVIOUS
  <2>1. PICK i \in 1 .. Len(items) : m = row(i)
    BY <1>4
  <2>2. Len(entry) + i = Len(entry) + k
    BY <1>5, <1>6, <2>1
  <2>3. i = k
    BY <1>2, <2>2
  <2> QED
    BY <2>1, <2>3
<1>11. matched(match', e) = items[k].amount
  <2>0. match \subseteq Match /\ IsFiniteSet(match)
    BY DEF Typed, Posts
  <2>1. matched(match', e) = matched(match, e) + matched(rows, e)
    <3>1. matched(match \cup rows, e) = matched(match, e) + matched(rows, e)
      BY <1>4, <2>0, MatchedApart
    <3> QED
      BY <1>1, <3>1
  <2>2. matched(match, e) = 0
    BY <1>8, <2>0, MatchedByNone
  <2>3. matched(rows, e) = items[k].amount
    <3>1. row(k) \in rows /\ row(k).a = e /\ row(k).b # e /\ row(k).amount = items[k].amount
      BY <1>4, <1>5, <1>6, <1>9
    <3>2. \A m \in rows : m # row(k) => m.a # e /\ m.b # e
      BY <1>9, <1>10
    <3> QED
      BY <1>4, <3>1, <3>2, MatchedByOne
  <2> QED
    BY <1>7, <2>1, <2>2, <2>3
<1>12. remaining(e)' = 0
  BY <1>7, <1>11 DEF remaining
<1>13. ~ Overmatched(e)'
  BY <1>7, <1>12 DEF Overmatched
<1>14. OneSided(e)'
  <2>1. match' = match \cup rows /\ entry'[e].amount > 0
    BY <1>1, <1>7
  <2>2. \A m \in match' : m.b # e
    BY <1>8, <1>9, <2>1
  <2> QED
    BY <2>1, <2>2 DEF OneSided
<1>15. ClaimsFit(e)'
  <2>1. /\ \A r \in Run, i \in Nat : ~ RunClaim(r, i, e)'
        /\ \A t \in Session, i \in Nat : ~ DraftClaim(t, i, e)'
    BY <1>a, <1>b, SettledClaims, ClaimedAmounts
  <2>2. \A t \in Session : matching'[t] # NoMatching => matching'[t].a # e /\ matching'[t].b # e
    BY <1>1, ClaimedAmounts
  <2> QED
    BY <2>1, <2>2 DEF ClaimsFit
<1> QED
  BY <1>13, <1>14, <1>15 DEF Fits

\* Manual matching, step by step.
LEMMA ReskontroFits ==
  ASSUME Typed, NextReskontro, UNCHANGED << run, run_lock, policy, paying >>,
         NEW e \in DOMAIN entry, Fits(e), Lone(e)
  PROVE  Fits(e)' /\ UNCHANGED entry
<1>1. ASSUME NEW s \in Session, AbandonMatch(s) PROVE Fits(e)' /\ UNCHANGED entry
  <2>1. matching' = [matching EXCEPT ![s] = NoMatching] /\ UNCHANGED << entry, match >>
    BY <1>1 DEF AbandonMatch
  <2> QED
    BY <2>1, MatchingFits
<1> QED
  BY <1>1, CheckMatchFits, InsertMatchFits, UnmatchFits
     DEF NextReskontro, CheckMatch, InsertMatch, Unmatch

-----------------------------------------------------------------------------
PostsInv == Typed /\ contended \subseteq DOMAIN entry /\ Uncontended

\* No step makes a claim exceed what is open without two claims having met.
LEMMA StepFits ==
  ASSUME Typed, Uncontended, [NextPayments]_payVars, contended \subseteq contended',
         NEW e \in DOMAIN entry', e \notin contended'
  PROVE  Fits(e)'
<1>1. e \notin contended
  OBVIOUS
<1>2. ASSUME e \in DOMAIN entry PROVE Fits(e) /\ Lone(e)
  BY <1>1, <1>2 DEF Uncontended
<1>3. CASE UNCHANGED payVars
  <2>1. Fits(e) /\ UNCHANGED << entry, match, matching, run, paying >>
    BY <1>2, <1>3 DEF payVars
  <2> QED
    BY <2>1, FewerDraftsFit DEF Creating
<1>4. ASSUME NEW s \in Session, SettleRun(s) PROVE Fits(e)'
  BY <1>2, <1>4, SettleRunFits, NewEntryFits
<1>5. ASSUME UNCHANGED entry PROVE e \in DOMAIN entry /\ Fits(e) /\ Lone(e)
  BY <1>2, <1>5
<1>6. ASSUME NEW s \in Session, NEW r \in Run, NEW drafts, CheckRun(s, r, drafts) PROVE Fits(e)'
  BY <1>5, <1>6, CheckRunFits DEF CheckRun
<1>7. ASSUME NEW s \in Session, NEW p \in Person, CreateRun(s, p) PROVE Fits(e)'
  BY <1>5, <1>7, CreateRunFits DEF CreateRun
<1>8. ASSUME NEW r \in Run, NEW p \in Person, ApproveRun(r, p) PROVE Fits(e)'
  BY <1>5, <1>8, ApproveRunFits DEF ApproveRun
<1>9. ASSUME NEW r \in Run, CancelRun(r) PROVE Fits(e)'
  BY <1>5, <1>9, CancelRunFits DEF CancelRun
<1>10. ASSUME NEW s \in Session, NEW r \in Run, LockRun(s, r) PROVE Fits(e)'
  BY <1>5, <1>10, LockRunFits DEF LockRun
<1>11. ASSUME NEW s \in Session, AbandonPayment(s) PROVE Fits(e)'
  BY <1>5, <1>11, AbandonPaymentFits DEF AbandonPayment
<1>12. CASE SetPolicy
  <2>1. UNCHANGED << entry, match, matching, run, paying >>
    BY <1>12 DEF SetPolicy
  <2> QED
    BY <1>5, <2>1, FewerDraftsFit DEF Creating
<1>13. CASE NextReskontro /\ UNCHANGED << run, run_lock, policy, paying >>
  <2>1. ASSUME e \in DOMAIN entry PROVE Fits(e)'
    BY <1>2, <1>13, <2>1, ReskontroFits
  <2>2. UNCHANGED entry
    BY <1>13 DEF NextReskontro, CheckMatch, InsertMatch, AbandonMatch, Unmatch
  <2> QED
    BY <2>1, <2>2
<1> QED
  BY <1>3, <1>4, <1>6, <1>7, <1>8, <1>9, <1>10, <1>11, <1>12, <1>13 DEF NextPayments

\* Nothing is matched and nobody claims anything.
LEMMA InitPostsInv == InitPayments => PostsInv
<1> SUFFICES ASSUME InitPayments PROVE PostsInv
  OBVIOUS
<1>1. Typed
  BY InitTyped
<1>2. /\ entry = Opening /\ match = {} /\ matching = [s \in Session |-> NoMatching]
      /\ run = [r \in Run |-> NoRun] /\ paying = [s \in Session |-> NotPaying] /\ contended = {}
  BY DEF InitPayments, InitReskontro
<1>3. ASSUME NEW e \in DOMAIN entry PROVE Lone(e) /\ Fits(e)
  <2>1. /\ \A r \in Run, i \in Nat : ~ RunClaim(r, i, e)
        /\ \A s \in Session, i \in Nat : ~ DraftClaim(s, i, e)
        /\ \A s \in Session : matching[s] = NoMatching
    BY <1>2 DEF RunClaim, Live, DraftClaim, Creating, NoRun
  <2>2. Lone(e)
    BY <2>1 DEF Lone, MatchClaim
  <2>3. matched(match, e) = 0
    BY <1>2, FS_EmptySet, MatchedByNone
  <2>4. remaining(e) = entry[e].amount /\ entry[e].amount \in Int \ {0}
    <3>1. entry[e].amount \in Int \ {0}
      BY <1>1, RemainingIsNumber DEF Typed
    <3> QED
      BY <2>3, <3>1 DEF remaining
  <2>5. ~ Overmatched(e)
    BY <2>4 DEF Overmatched
  <2>6. OneSided(e) /\ ClaimsFit(e)
    BY <1>2, <2>1 DEF OneSided, ClaimsFit
  <2> QED
    BY <2>2, <2>5, <2>6 DEF Fits
<1> QED
  BY <1>1, <1>2, <1>3 DEF PostsInv, Uncontended

\* Every step keeps the invariant.
LEMMA NextPostsInv == PostsInv /\ [NextPayments]_payVars => PostsInv'
<1> SUFFICES ASSUME PostsInv, [NextPayments]_payVars PROVE PostsInv'
  OBVIOUS
<1>1. Typed'
  BY StepTyped DEF PostsInv
<1>2. (Rows /\ Payings /\ FewAtWork => \A e : Claims(e) > 1 \/ Lone(e))'
  BY Counted, PTL
<1>3. \A e : Claims(e)' > 1 \/ Lone(e)'
  BY <1>1, <1>2 DEF Typed
<1>4. CASE UNCHANGED payVars
  <2>1. contended' \subseteq DOMAIN entry' /\ contended \subseteq contended' /\ DOMAIN entry' = DOMAIN entry /\ contended' = contended
    BY <1>4 DEF payVars, PostsInv
  <2>2. \A e : Lone(e)' <=> Lone(e)
    BY <1>4 DEF payVars, Lone, RunClaim, DraftClaim, MatchClaim, Live, Creating
  <2>3. Uncontended'
    BY <2>1, <2>2, StepFits DEF PostsInv, Uncontended
  <2> QED
    BY <1>1, <2>1, <2>3 DEF PostsInv
<1>5. CASE NextPayments
  <2>1. contended' = contended \cup {e \in DOMAIN entry' : Claims(e)' > 1}
    BY <1>5 DEF NextPayments
  <2>2. DOMAIN entry \subseteq DOMAIN entry'
    <3>1. ASSUME NEW s \in Session, SettleRun(s) PROVE DOMAIN entry \subseteq DOMAIN entry'
      <4>1. IsLines(paying[s].items) /\ entry' = entry \o Debits(paying[s].items)
        BY <3>1, SettleSteps DEF PostsInv
      <4>2. /\ DOMAIN entry' = 1 .. (Len(entry) + Len(paying[s].items)) /\ DOMAIN entry = 1 .. Len(entry)
            /\ Len(entry) \in Nat /\ Len(paying[s].items) \in Nat
        BY <4>1, VoucherAdds, LinesOf DEF PostsInv, Typed
      <4> QED
        BY <4>2
    <3> QED
      BY <1>5, <3>1 DEF NextPayments, CheckRun, CreateRun, LockRun, AbandonPayment, ApproveRun, CancelRun,
                        SetPolicy, NextReskontro, CheckMatch, InsertMatch, AbandonMatch, Unmatch
  <2>3. contended' \subseteq DOMAIN entry' /\ contended \subseteq contended'
    BY <2>1, <2>2 DEF PostsInv
  <2>4. \A e \in DOMAIN entry' : e \notin contended' => Lone(e)' /\ Fits(e)'
    BY <1>3, <2>1, <2>3, StepFits DEF PostsInv
  <2>5. Uncontended'
    BY <2>4 DEF Uncontended
  <2> QED
    BY <1>1, <2>3, <2>5 DEF PostsInv
<1> QED
  BY <1>4, <1>5

\* The invariant of the posts: types, row locks, and on every post that no two claims
\* have met on, at most one claim, which what is open covers.
THEOREM PostsInvariant == SpecPayments => []PostsInv
  BY InitPostsInv, NextPostsInv, PTL DEF SpecPayments

\* Every variable of the component keeps its type.
THEOREM PaymentsTypes == SpecPayments => []TypeOKPayments
<1>1. PostsInv => TypeOKPayments
  <2> SUFFICES ASSUME PostsInv PROVE TypeOKPayments
    OBVIOUS
  <2>1. TypeOKReskontro
    BY DEF PostsInv, Typed, Posts, Matchings, IsMatching, TypeOKReskontro
  <2>2. ASSUME NEW r \in Run
        PROVE  run[r] \in [status : Status, items : Seq(Item), creator : Person \cup {NoPerson},
                           approver : Person \cup {NoPerson}, four_eyes : BOOLEAN, voucher : Seq(Nat)]
    <3>1. RunRow(run[r])
      BY DEF PostsInv, Typed, Rows
    <3>2. run[r].items \in Seq(Item)
      <4>1. Posting \subseteq Item
        BY DEF PostsInv, Typed, Posts, Posting, Item
      <4>2. CASE run[r].items = << >>
        BY <4>2
      <4>3. CASE IsLines(run[r].items)
        <5>1. run[r].items \in Seq(Posting)
          BY <4>3 DEF IsLines
        <5>2. run[r].items \in [1 .. Len(run[r].items) -> Item] /\ Len(run[r].items) \in Nat
          BY <4>1, <5>1
        <5> QED
          BY <5>2
      <4> QED
        BY <3>1, <4>2, <4>3 DEF RunRow
    <3> QED
      BY <3>1, <3>2 DEF RunRow, Row, Column
  <2>3. run \in [Run -> [status : Status, items : Seq(Item), creator : Person \cup {NoPerson},
                         approver : Person \cup {NoPerson}, four_eyes : BOOLEAN, voucher : Seq(Nat)]]
    BY <2>2 DEF PostsInv, Typed, Rows
  <2>4. run_lock \in [Run -> Session \cup {NoSession}] /\ policy \in BOOLEAN
    BY DEF PostsInv, Typed, Holds
  <2> QED
    BY <2>1, <2>3, <2>4 DEF PostsInv, TypeOKPayments
<1> QED
  BY <1>1, PostsInvariant, PTL

\* No payment, match or reopening settles a post beyond its amount unless two claims on
\* it were live together (match_items, payable_items, settle_run).
THEOREM OverpaidOnlyByContention == SpecPayments => []OverpaidOnlyIfContended
<1>1. PostsInv => OverpaidOnlyIfContended
  BY DEF PostsInv, Uncontended, Fits, OverpaidOnlyIfContended
<1> QED
  BY <1>1, PostsInvariant, PTL

-----------------------------------------------------------------------------
(***************************************************************************)
(* Settlement in currency.  Each settlement takes from a post its cents    *)
(* and their share of its kroner; what the two are apart is the sum of     *)
(* what was rounded off or up.                                             *)
(***************************************************************************)

\* A quotient that is rounded is half a divisor off at most.
LEMMA RoundedNearby ==
  ASSUME NEW x \in Nat, NEW d \in Nat \ {0}
  PROVE  /\ RoundDiv(x, d) \in Nat
         /\ 2 * (x - RoundDiv(x, d) * d) <= d
         /\ 2 * (RoundDiv(x, d) * d - x) <= d
<1> DEFINE h == d \div 2
           q == (x + h) \div d
<1>1. h \in Nat /\ 2 * h <= d /\ d - 1 <= 2 * h
  OBVIOUS
<1> HIDE DEF h
<1>2. q \in Nat /\ q * d <= x + h /\ x + h < q * d + d
  <2> DEFINE y == x + h
  <2>1. y \in Nat
    BY <1>1
  <2> HIDE DEF y
  <2> DEFINE k == y \div d
  <2>2. k \in Nat /\ y >= d * k /\ y < d * k + d
    BY <2>1
  <2> HIDE DEF k
  <2>3. k * d = d * k
    BY <2>2
  <2>4. q = k
    BY DEF y, k
  <2> QED
    BY <1>1, <2>1, <2>2, <2>3, <2>4 DEF y
<1>3. RoundDiv(x, d) = q
  <2>1. Magnitude(x) = x /\ Signum(x) = (IF x > 0 THEN 1 ELSE 0)
    BY DEF Magnitude, Signum
  <2>2. x = 0 => q = 0
    <3>1. x = 0 => x + h < d
      BY <1>1
    <3>2. x = 0 => q * d < d
      BY <1>1, <1>2, <3>1
    <3>3. q # 0 => q * d >= d
      BY <1>2
    <3> QED
      BY <1>2, <3>2, <3>3
  <2>3. RoundDiv(x, d) = Signum(x) * q
    BY <2>1 DEF RoundDiv, h
  <2> HIDE DEF q
  <2> QED
    BY <1>2, <2>1, <2>2, <2>3
<1> HIDE DEF q
<1>4. q * d \in Nat
  BY <1>2
<1> QED
  BY <1>1, <1>2, <1>3, <1>4

\* What a row takes of e in its currency, given the cents of the rows.
CentsOnDebit(e, c) == [m \in Match |-> IF m.a = e THEN c[m.id] ELSE 0]
CentsOnCredit(e, c) == [m \in Match |-> IF m.b = e THEN c[m.id] ELSE 0]
CentsOn(e, c) == [m \in Match |-> CentsOnDebit(e, c)[m] + CentsOnCredit(e, c)[m]]

LEMMA SumAsA ==
  ASSUME NEW rows, rows \subseteq Match, IsFiniteSet(rows), NEW c, NEW e
  PROVE  MapThenSumSet(LAMBDA m : IF m.a = e THEN c[m.id] ELSE 0, rows) = SumOver(CentsOnDebit(e, c), rows)
<1> DEFINE g == CentsOnDebit(e, c)
           sum(f) == f = [s \in SUBSET rows |-> IF s = {} THEN 0 ELSE
                           (IF Pick(s).a = e THEN c[Pick(s).id] ELSE 0) + f[s \ {Pick(s)}]]
<1>1. ASSUME NEW s \in SUBSET rows, s # {}
      PROVE  g[Pick(s)] = IF Pick(s).a = e THEN c[Pick(s).id] ELSE 0
  BY <1>1, PickIn DEF CentsOnDebit
<1> HIDE DEF g
<1>2. ASSUME NEW f PROVE sum(f) <=> Sums(f, g, rows)
  BY <1>1 DEF Sums
<1>3. MapThenSumSet(LAMBDA m : IF m.a = e THEN c[m.id] ELSE 0, rows) = (CHOOSE f : sum(f))[rows]
  BY DEF MapThenSumSet, MapThenFoldSet, Pick
<1>4. sum(CHOOSE f : sum(f))
  BY <1>2, SumsExist
<1> QED
  BY <1>2, <1>3, <1>4, SumsGiveTotal DEF g

LEMMA SumAsB ==
  ASSUME NEW rows, rows \subseteq Match, IsFiniteSet(rows), NEW c, NEW e
  PROVE  MapThenSumSet(LAMBDA m : IF m.b = e THEN c[m.id] ELSE 0, rows) = SumOver(CentsOnCredit(e, c), rows)
<1> DEFINE g == CentsOnCredit(e, c)
           sum(f) == f = [s \in SUBSET rows |-> IF s = {} THEN 0 ELSE
                           (IF Pick(s).b = e THEN c[Pick(s).id] ELSE 0) + f[s \ {Pick(s)}]]
<1>1. ASSUME NEW s \in SUBSET rows, s # {}
      PROVE  g[Pick(s)] = IF Pick(s).b = e THEN c[Pick(s).id] ELSE 0
  BY <1>1, PickIn DEF CentsOnCredit
<1> HIDE DEF g
<1>2. ASSUME NEW f PROVE sum(f) <=> Sums(f, g, rows)
  BY <1>1 DEF Sums
<1>3. MapThenSumSet(LAMBDA m : IF m.b = e THEN c[m.id] ELSE 0, rows) = (CHOOSE f : sum(f))[rows]
  BY DEF MapThenSumSet, MapThenFoldSet, Pick
<1>4. sum(CHOOSE f : sum(f))
  BY <1>2, SumsExist
<1> QED
  BY <1>2, <1>3, <1>4, SumsGiveTotal DEF g

\* Rows whose cents are known.
Priced(rows, c) == rows \subseteq Match /\ IsFiniteSet(rows) /\ \A m \in rows : c[m.id] \in Nat

LEMMA CentsAreNumbers ==
  ASSUME NEW rows, NEW c, Priced(rows, c), NEW e
  PROVE  /\ \A m \in rows : /\ CentsOnDebit(e, c)[m] = IF m.a = e THEN c[m.id] ELSE 0
                            /\ CentsOnCredit(e, c)[m] = IF m.b = e THEN c[m.id] ELSE 0
                            /\ CentsOn(e, c)[m] = CentsOnDebit(e, c)[m] + CentsOnCredit(e, c)[m]
         /\ Numbers(CentsOnDebit(e, c), rows) /\ Numbers(CentsOnCredit(e, c), rows)
         /\ Numbers(CentsOn(e, c), rows)
<1>1. \A m \in rows : /\ CentsOnDebit(e, c)[m] = IF m.a = e THEN c[m.id] ELSE 0
                      /\ CentsOnCredit(e, c)[m] = IF m.b = e THEN c[m.id] ELSE 0
                      /\ CentsOn(e, c)[m] = CentsOnDebit(e, c)[m] + CentsOnCredit(e, c)[m]
  BY DEF CentsOnDebit, CentsOnCredit, CentsOn, Priced
<1> QED
  BY <1>1 DEF Numbers, Priced

\* What the rows have settled of a post in its currency.
Settles(rows, c, e) == SumOver(CentsOn(e, c), rows)

LEMMA CentsAreTotal ==
  ASSUME NEW rows, NEW c, Priced(rows, c), NEW e
  PROVE  MapThenSumSet(LAMBDA m : IF m.a = e THEN c[m.id] ELSE 0, rows)
           + MapThenSumSet(LAMBDA m : IF m.b = e THEN c[m.id] ELSE 0, rows) = Settles(rows, c, e)
<1>1. rows \subseteq Match /\ IsFiniteSet(rows)
  BY DEF Priced
<1>2. SumOver(CentsOn(e, c), rows) = SumOver(CentsOnDebit(e, c), rows) + SumOver(CentsOnCredit(e, c), rows)
  BY <1>1, CentsAreNumbers, TotalOfBoth
<1> QED
  BY <1>1, <1>2, SumAsA, SumAsB DEF Settles

\* Kroner and cents apart, and the settlements that may have set them apart.
DriftOf(E, L, matchedNok, settled) ==
    (E - matchedNok) * L - (IF L >= 0 THEN L - settled ELSE L + settled) * E
PartsOf(rows, c, e) == {m \in rows : e \in {m.a, m.b} /\ c[m.id] > 0}
Near(e, E, L, rows, c) ==
    2 * Magnitude(DriftOf(E, L, matched(rows, e), Settles(rows, c, e))) <= Cardinality(PartsOf(rows, c, e)) * Magnitude(L)

AllNear ==
    \A e \in DOMAIN line \ disturbed : line[e].currency # NoCurrency =>
        Near(e, entry[e].amount, line[e].cents, match, rowCents)

LEMMA DriftIsNear == Priced(match, rowCents) => (DriftIsRounding <=> AllNear)
<1> SUFFICES ASSUME Priced(match, rowCents) PROVE DriftIsRounding <=> AllNear
  OBVIOUS
<1>1. ASSUME NEW e
      PROVE  CentsAsA(e) + CentsAsB(e) = Settles(match, rowCents, e)
  BY CentsAreTotal DEF CentsAsA, CentsAsB
<1>2. ASSUME NEW e
      PROVE  remaining(e) * line[e].cents - restCents(e) * entry[e].amount
                = DriftOf(entry[e].amount, line[e].cents, matched(match, e), Settles(match, rowCents, e))
  <2> DEFINE L == line[e].cents
             E == entry[e].amount
             K == Settles(match, rowCents, e)
             M == matched(match, e)
  <2>1. remaining(e) = E - M
    BY DEF remaining
  <2>2. restCents(e) = IF L >= 0 THEN L - K ELSE L + K
    BY <1>1 DEF restCents
  <2> HIDE DEF L, E, K, M
  <2>3. DriftOf(E, L, M, K) = (E - M) * L - (IF L >= 0 THEN L - K ELSE L + K) * E
    BY DEF DriftOf
  <2> QED
    BY <2>1, <2>2, <2>3 DEF L, E, K, M
<1>3. \A e : Parts(e) = PartsOf(match, rowCents, e)
  BY DEF Parts, PartsOf
<1> QED
  BY <1>2, <1>3, Zenon DEF DriftIsRounding, AllNear, Near

\* Rows that are not on a post do not move it.
LEMMA RowsElsewhere ==
  ASSUME NEW rows, NEW more, NEW c, Priced(rows, c), Priced(more, c), rows \cap more = {}, NEW e,
         \A m \in more : m.a # e /\ m.b # e
  PROVE  /\ matched(rows \cup more, e) = matched(rows, e)
         /\ Settles(rows \cup more, c, e) = Settles(rows, c, e)
         /\ PartsOf(rows \cup more, c, e) = PartsOf(rows, c, e)
<1>1. /\ rows \subseteq Match /\ IsFiniteSet(rows) /\ more \subseteq Match /\ IsFiniteSet(more)
      /\ Priced(rows \cup more, c)
  BY FS_Union DEF Priced
<1>2. matched(rows \cup more, e) = matched(rows, e)
  <2>1. matched(more, e) = 0
    BY <1>1, MatchedByNone
  <2>2. matched(rows \cup more, e) = matched(rows, e) + matched(more, e)
    BY <1>1, MatchedApart
  <2>3. matched(rows, e) \in Int
    BY <1>1, SidesAreNumbers
  <2> QED
    BY <2>1, <2>2, <2>3
<1>3. Settles(rows \cup more, c, e) = Settles(rows, c, e)
  <2>1. Numbers(CentsOn(e, c), rows \cup more) /\ Numbers(CentsOn(e, c), rows)
    BY <1>1, CentsAreNumbers
  <2>2. \A m \in more : CentsOn(e, c)[m] = 0
    BY <1>1, CentsAreNumbers
  <2>3. SumOver(CentsOn(e, c), more) = 0
    BY <1>1, <2>2, TotalOfNothing
  <2>4. SumOver(CentsOn(e, c), rows \cup more) = SumOver(CentsOn(e, c), rows) + SumOver(CentsOn(e, c), more)
    BY <1>1, <2>1, TotalUnion
  <2>5. SumOver(CentsOn(e, c), rows) \in Int
    BY <1>1, <2>1, TotalIsNumber
  <2> QED
    BY <2>3, <2>4, <2>5 DEF Settles
<1>4. PartsOf(rows \cup more, c, e) = PartsOf(rows, c, e)
  BY DEF PartsOf
<1> QED
  BY <1>2, <1>3, <1>4

\* Nor do cents of other rows.
LEMMA CentsElsewhere ==
  ASSUME NEW rows, NEW c, Priced(rows, c), NEW k, \A m \in rows : k[m.id] = c[m.id], NEW e
  PROVE  /\ Priced(rows, k)
         /\ Settles(rows, k, e) = Settles(rows, c, e)
         /\ PartsOf(rows, k, e) = PartsOf(rows, c, e)
<1>1. Priced(rows, k) /\ IsFiniteSet(rows)
  BY DEF Priced
<1>2. Alike(CentsOn(e, k), CentsOn(e, c), rows)
  BY <1>1, CentsAreNumbers DEF Alike
<1>3. Settles(rows, k, e) = Settles(rows, c, e)
  BY <1>1, <1>2, TotalSame DEF Settles
<1> QED
  BY <1>1, <1>3 DEF PartsOf

LEMMA MagnitudeAdds ==
  ASSUME NEW x \in Int, NEW y \in Int
  PROVE  Magnitude(x) \in Nat /\ Magnitude(x + y) <= Magnitude(x) + Magnitude(y)
  BY DEF Magnitude

\* What a settlement takes of a post of E kroner and L cents: k cents and their share.
ShareMoves(E, L, k, n, M, K) ==
    /\ n \in Nat
    /\ 2 * Magnitude(k * Magnitude(E) - n * Magnitude(L)) <= Magnitude(L)
    /\ DriftOf(E, L, M, K) \in Int
    /\ DriftOf(E, L, IF L > 0 THEN M + n ELSE M - n, K + k)
          = DriftOf(E, L, M, K) + (k * Magnitude(E) - n * Magnitude(L))

LEMMA ShareApart ==
  ASSUME NEW E \in Int, NEW L \in Int, L # 0, Signum(L) = Signum(E), NEW k \in Nat,
         NEW n, n = RoundDiv(k * Magnitude(E), Magnitude(L)), NEW M \in Int, NEW K \in Int
  PROVE  ShareMoves(E, L, k, n, M, K)
<1> DEFINE e == Magnitude(E)
           l == Magnitude(L)
<1>1. e \in Nat /\ l \in Nat \ {0} /\ (L > 0 => E = e /\ L = l) /\ (L < 0 => E = -e /\ L = -l)
  BY DEF Magnitude, Signum
<1> HIDE DEF e, l
<1>2. k * e \in Nat
  BY <1>1
<1>3. n \in Nat /\ 2 * (k * e - n * l) <= l /\ 2 * (n * l - k * e) <= l
  BY <1>1, <1>2, RoundedNearby DEF e, l
<1>4. n * l \in Nat
  BY <1>1, <1>3
<1>5. 2 * Magnitude(k * e - n * l) <= l
  BY <1>1, <1>2, <1>3, <1>4 DEF Magnitude
<1>6. DriftOf(E, L, M, K) \in Int
  BY DEF DriftOf
<1>7. CASE L > 0
  <2>1. DriftOf(E, L, M, K) = (e - M) * l - (l - K) * e
    BY <1>1, <1>7 DEF DriftOf
  <2>2. DriftOf(E, L, M + n, K + k) = (e - (M + n)) * l - (l - (K + k)) * e
    BY <1>1, <1>7 DEF DriftOf
  <2>3. (e - (M + n)) * l = (e - M) * l - n * l
    <3> DEFINE u == e - M
    <3>1. u \in Int /\ e - (M + n) = u - n
      BY <1>1, <1>3
    <3> HIDE DEF u
    <3>2. (u - n) * l = u * l - n * l
      BY <1>1, <1>3, <3>1
    <3> QED
      BY <3>1, <3>2 DEF u
  <2>4. (l - (K + k)) * e = (l - K) * e - k * e
    BY <1>1
  <2>5. (e - M) * l \in Int /\ (l - K) * e \in Int
    BY <1>1
  <2>6. DriftOf(E, L, M + n, K + k) = DriftOf(E, L, M, K) + (k * e - n * l)
    <3> DEFINE u == (e - M) * l
               w == (l - K) * e
               x == n * l
               y == k * e
    <3> HIDE DEF u, w, x, y
    <3> QED
      BY <1>2, <1>4, <2>1, <2>2, <2>3, <2>4, <2>5 DEF u, w, x, y
  <2> QED
    BY <1>3, <1>5, <1>6, <1>7, <2>6 DEF e, l, ShareMoves
<1>8. CASE L < 0
  <2>1. DriftOf(E, L, M, K) = (-e - M) * (-l) - (-l + K) * (-e)
    BY <1>1, <1>8 DEF DriftOf
  <2>2. DriftOf(E, L, M - n, K + k) = (-e - (M - n)) * (-l) - (-l + (K + k)) * (-e)
    BY <1>1, <1>8 DEF DriftOf
  <2>3. (-e - (M - n)) * (-l) = (-e - M) * (-l) - n * l
    <3> DEFINE u == -e - M
    <3>1. u \in Int /\ -e - (M - n) = u + n
      BY <1>1, <1>3
    <3> HIDE DEF u
    <3> DEFINE z == -l
    <3>2. z \in Int /\ n * z = -(n * l)
      BY <1>1, <1>3
    <3>3. (u + n) * z = u * z + n * z
      <4> HIDE DEF z
      <4> QED
        BY <1>3, <3>1, <3>2
    <3>4. (u + n) * (-l) = u * (-l) - n * l
      <4>1. u * z \in Int /\ n * z \in Int
        BY <1>3, <3>1, <3>2
      <4> QED
        BY <1>4, <3>2, <3>3, <4>1
    <3> QED
      BY <3>1, <3>4 DEF u
  <2>4. (-l + (K + k)) * (-e) = (-l + K) * (-e) - k * e
    BY <1>1
  <2>5. (-e - M) * (-l) \in Int /\ (-l + K) * (-e) \in Int
    BY <1>1
  <2>6. DriftOf(E, L, M - n, K + k) = DriftOf(E, L, M, K) + (k * e - n * l)
    <3> DEFINE u == (-e - M) * (-l)
               w == (-l + K) * (-e)
               x == n * l
               y == k * e
    <3> HIDE DEF u, w, x, y
    <3> QED
      BY <1>2, <1>4, <2>1, <2>2, <2>3, <2>4, <2>5 DEF u, w, x, y
  <2>7. ~ (L > 0)
    BY <1>8
  <2> QED
    BY <1>3, <1>5, <1>6, <2>6, <2>7 DEF e, l, ShareMoves
<1> QED
  BY <1>7, <1>8

\* A settlement is one more part, and at most half an øre.
LEMMA SettlementAdds ==
  ASSUME NEW rows, NEW more, NEW c, Priced(rows, c), Priced(more, c), rows \cap more = {}, NEW e,
         NEW E \in Int, NEW L \in Int, L # 0, Signum(L) = Signum(E), NEW k \in Nat,
         NEW n, n = RoundDiv(k * Magnitude(E), Magnitude(L)),
         matched(more, e) = (IF L > 0 THEN n ELSE -n), Settles(more, c, e) = k,
         NEW r \in more, PartsOf(more, c, e) = {r},
         Near(e, E, L, rows, c)
  PROVE  Near(e, E, L, rows \cup more, c)
<1>1. /\ rows \subseteq Match /\ IsFiniteSet(rows) /\ more \subseteq Match /\ IsFiniteSet(more)
      /\ Priced(rows \cup more, c)
  BY FS_Union DEF Priced
<1> DEFINE M == matched(rows, e)
           K == Settles(rows, c, e)
           P == PartsOf(rows, c, e)
           D == DriftOf(E, L, M, K)
           d == k * Magnitude(E) - n * Magnitude(L)
<1>2. M \in Int /\ K \in Int
  <2>1. Numbers(CentsOn(e, c), rows)
    BY CentsAreNumbers
  <2> QED
    BY <1>1, <2>1, SidesAreNumbers, TotalIsNumber DEF Settles
<1>3. /\ n \in Nat /\ 2 * Magnitude(d) <= Magnitude(L) /\ D \in Int /\ d \in Int
      /\ DriftOf(E, L, IF L > 0 THEN M + n ELSE M - n, K + k) = D + d
  <2>1. Magnitude(E) \in Nat /\ Magnitude(L) \in Nat
    BY DEF Magnitude
  <2> HIDE DEF M, K
  <2>2. ShareMoves(E, L, k, n, M, K)
    BY <1>2, ShareApart
  <2>4. n \in Nat
    BY <2>2 DEF ShareMoves
  <2>3. k * Magnitude(E) \in Nat /\ n * Magnitude(L) \in Nat
    BY <2>1, <2>4
  <2> QED
    BY <2>2, <2>3 DEF ShareMoves
<1>4. matched(rows \cup more, e) = IF L > 0 THEN M + n ELSE M - n
  BY <1>1, <1>2, <1>3, MatchedApart
<1>5. Settles(rows \cup more, c, e) = K + k
  <2>1. Numbers(CentsOn(e, c), rows \cup more)
    BY <1>1, CentsAreNumbers
  <2> QED
    BY <1>1, <2>1, TotalUnion DEF Settles
<1>6. PartsOf(rows \cup more, c, e) = P \cup {r} /\ r \notin P
  BY DEF PartsOf
<1>7. IsFiniteSet(P) /\ Cardinality(P) \in Nat
  <2>1. P \subseteq rows
    BY DEF PartsOf
  <2> QED
    BY <1>1, <2>1, FS_Subset, FS_CardinalityType
<1>8. Cardinality(PartsOf(rows \cup more, c, e)) = Cardinality(P) + 1
  <2> HIDE DEF P
  <2> QED
    BY <1>6, <1>7, FS_AddElement
<1>9. 2 * Magnitude(D) <= Cardinality(P) * Magnitude(L)
  BY DEF Near
<1> HIDE DEF M, K, P, D, d
<1>10. Magnitude(D) \in Nat /\ Magnitude(d) \in Nat /\ Magnitude(D + d) \in Nat
       /\ Magnitude(D + d) <= Magnitude(D) + Magnitude(d) /\ Magnitude(L) \in Nat
  BY <1>3, MagnitudeAdds DEF Magnitude
<1>11. (Cardinality(P) + 1) * Magnitude(L) = Cardinality(P) * Magnitude(L) + Magnitude(L)
  BY <1>7, <1>10
<1>12. 2 * Magnitude(D + d) <= (Cardinality(P) + 1) * Magnitude(L)
  <2> DEFINE u == Cardinality(P) * Magnitude(L)
  <2>1. u \in Nat
    BY <1>7, <1>10
  <2> HIDE DEF u
  <2> QED
    BY <1>3, <1>9, <1>10, <1>11, <2>1 DEF u
<1> QED
  BY <1>3, <1>4, <1>5, <1>8, <1>12 DEF Near

-----------------------------------------------------------------------------
\* Rows, posts and what they were in.
Rowed ==
    /\ Posts
    /\ line \in Seq(LineCurrency) /\ Len(line) = Len(entry)
    /\ rowCents \in Seq(Nat) /\ Len(rowCents) = match_seq
    /\ \A m \in match : m.id # 0
    /\ \A e \in DOMAIN line : line[e].currency # NoCurrency => Signum(line[e].cents) = Signum(entry[e].amount)

\* What match_valuta has worked out stays right, as neither posts nor lines change.
IsSettling(t) ==
    /\ t.a \in DOMAIN entry /\ t.b \in DOMAIN entry /\ t.cents \in Nat \ {0}
    /\ line[t.a].currency # NoCurrency /\ line[t.b].currency # NoCurrency
    /\ line[t.a].cents > 0 /\ line[t.b].cents < 0
    /\ t.nokA = Share(t.a, t.cents) /\ t.nokB = Share(t.b, t.cents)

Settlings ==
    /\ settling = [s \in Session |-> settling[s]]
    /\ \A s \in Session : settling[s] # NotSettling => IsSettling(settling[s])

DriftInv == Rowed /\ Matchings /\ Settlings /\ AllNear

LEMMA RowsPriced ==
  ASSUME Rowed
  PROVE  /\ Priced(match, rowCents) /\ \A m \in match : m.id \in 1..match_seq
         /\ DOMAIN line = DOMAIN entry /\ DOMAIN entry = 1..Len(entry) /\ Len(entry) \in Nat
         /\ DOMAIN rowCents = 1..match_seq /\ match_seq \in Nat
<1>1. /\ match \subseteq Match /\ IsFiniteSet(match) /\ match_seq \in Nat /\ entry \in Seq(Entry)
      /\ \A m \in match : m.id <= match_seq
  BY DEF Rowed, Posts
<1>2. \A m \in match : m.id \in 1..match_seq
  BY <1>1 DEF Rowed, Match
<1>3. \A m \in match : rowCents[m.id] \in Nat
  BY <1>2 DEF Rowed
<1> QED
  BY <1>1, <1>2, <1>3 DEF Rowed, Priced

\* A post in another currency has a side, the same in both.
LEMMA CurrencyPost ==
  ASSUME Rowed, NEW e \in DOMAIN entry, line[e].currency # NoCurrency
  PROVE  /\ entry[e].amount \in Int /\ line[e].cents \in Int /\ line[e].cents # 0
         /\ Signum(line[e].cents) = Signum(entry[e].amount)
<1>1. entry[e] \in Entry /\ e \in DOMAIN line /\ line[e] \in LineCurrency
  BY RowsPriced DEF Rowed, Posts
<1>2. entry[e].amount \in Int \ {0} /\ line[e].cents \in Int
  BY <1>1 DEF Entry, LineCurrency
<1>3. Signum(line[e].cents) = Signum(entry[e].amount)
  BY <1>1 DEF Rowed
<1> QED
  BY <1>2, <1>3 DEF Signum

LEMMA InitDriftInv == InitCurrency => DriftInv
<1> SUFFICES ASSUME InitCurrency PROVE DriftInv
  OBVIOUS
<1>1. /\ entry = Opening /\ match = {} /\ match_seq = 0 /\ matching = [s \in Session |-> NoMatching]
      /\ line = CurrencyOf /\ rowCents = << >> /\ settling = [s \in Session |-> NotSettling] /\ disturbed = {}
  BY DEF InitCurrency, InitReskontro
<1>2. /\ Opening \in Seq(Entry) /\ CurrencyOf \in Seq(LineCurrency) /\ DOMAIN CurrencyOf = DOMAIN Opening
  BY OpeningAssumption, CurrencyAssumption
<1>3. Len(CurrencyOf) = Len(Opening)
  BY <1>2
<1>4. Posts
  BY <1>1, <1>2, FS_EmptySet DEF Posts
<1>5. Rowed
  BY <1>1, <1>2, <1>3, <1>4, CurrencyAssumption DEF Rowed
<1>6. Matchings /\ Settlings
  BY <1>1 DEF Matchings, Settlings
<1>7. ASSUME NEW e \in DOMAIN line, line[e].currency # NoCurrency
      PROVE  Near(e, entry[e].amount, line[e].cents, match, rowCents)
  <2> DEFINE E == entry[e].amount
             L == line[e].cents
  <2>1. E \in Int /\ L \in Int
    BY <1>5, <1>7, CurrencyPost, RowsPriced
  <2>2. matched({}, e) = 0
    BY FS_EmptySet, MatchedByNone
  <2>3. Settles({}, rowCents, e) = 0
    BY EmptyTotal DEF Settles
  <2>4. PartsOf({}, rowCents, e) = {}
    BY DEF PartsOf
  <2>5. DriftOf(E, L, 0, 0) = 0
    <3> HIDE DEF E, L
    <3>1. DriftOf(E, L, 0, 0) = (E - 0) * L - L * E
      BY <2>1 DEF DriftOf
    <3> QED
      BY <2>1, <3>1
  <2>6. Magnitude(0) = 0 /\ Magnitude(L) \in Nat
    BY <2>1 DEF Magnitude
  <2> HIDE DEF E, L
  <2>7. Near(e, E, L, {}, rowCents)
    BY <2>2, <2>3, <2>4, <2>5, <2>6, FS_EmptySet DEF Near
  <2> QED
    BY <1>1, <2>7 DEF E, L
<1> QED
  BY <1>5, <1>6, <1>7 DEF DriftInv, AllNear

\* New rows are on a post as one settlement, or not at all.
OneSettlement(more, c, e) ==
    \E k, n : /\ k \in Nat /\ n = RoundDiv(k * Magnitude(entry[e].amount), Magnitude(line[e].cents))
              /\ matched(more, e) = (IF line[e].cents > 0 THEN n ELSE -n)
              /\ Settles(more, c, e) = k
              /\ \E r \in more : PartsOf(more, c, e) = {r}
NotAmong(more, e) == \A m \in more : m.a # e /\ m.b # e

\* Posts, rows and cents that are added leave what was there.
Adds(more) ==
    /\ match' = match \cup more /\ match \cap more = {} /\ Priced(more, rowCents')
    /\ \A m \in match : rowCents'[m.id] = rowCents[m.id]
    /\ DOMAIN entry \subseteq DOMAIN line'
    /\ \A e \in DOMAIN entry : entry'[e] = entry[e] /\ line'[e] = line[e]
    /\ \A e \in DOMAIN line' \ DOMAIN entry : line'[e].currency = NoCurrency
    /\ disturbed \subseteq disturbed'

LEMMA AddedStaysNear ==
  ASSUME Rowed, AllNear, NEW more, Adds(more),
         \A e \in DOMAIN entry \ disturbed' : line[e].currency # NoCurrency =>
            OneSettlement(more, rowCents', e) \/ NotAmong(more, e)
  PROVE  AllNear'
<1> SUFFICES ASSUME NEW e \in DOMAIN line' \ disturbed', line'[e].currency # NoCurrency
             PROVE  Near(e, entry'[e].amount, line'[e].cents, match', rowCents')
  BY DEF AllNear
<1> DEFINE c == rowCents'
           E == entry[e].amount
           L == line[e].cents
<1>1. /\ e \in DOMAIN entry /\ e \in DOMAIN line \ disturbed /\ line[e].currency # NoCurrency
      /\ entry'[e] = entry[e] /\ line'[e] = line[e] /\ match' = match \cup more
      /\ match \cap more = {} /\ Priced(more, c) /\ \A m \in match : c[m.id] = rowCents[m.id]
  BY RowsPriced DEF Adds
<1>2. Near(e, E, L, match, rowCents)
  BY <1>1 DEF AllNear
<1>3. E \in Int /\ L \in Int /\ L # 0 /\ Signum(L) = Signum(E)
  BY <1>1, CurrencyPost
<1> HIDE DEF c, E, L
<1>4. Priced(match, c) /\ Near(e, E, L, match, c)
  BY <1>1, <1>2, RowsPriced, CentsElsewhere DEF Near
<1>5. ASSUME NotAmong(more, e) PROVE Near(e, E, L, match \cup more, c)
  BY <1>1, <1>4, <1>5, RowsElsewhere DEF Near, NotAmong
<1>6. ASSUME OneSettlement(more, c, e) PROVE Near(e, E, L, match \cup more, c)
  <2>1. PICK k, n : /\ k \in Nat /\ n = RoundDiv(k * Magnitude(E), Magnitude(L))
                    /\ matched(more, e) = (IF L > 0 THEN n ELSE -n)
                    /\ Settles(more, c, e) = k
                    /\ \E r \in more : PartsOf(more, c, e) = {r}
    BY <1>6 DEF OneSettlement, E, L
  <2>2. PICK r \in more : PartsOf(more, c, e) = {r}
    BY <2>1
  <2> QED
    BY <1>1, <1>3, <1>4, <2>1, <2>2, SettlementAdds
<1>7. OneSettlement(more, c, e) \/ NotAmong(more, e)
  BY <1>1 DEF c
<1> QED
  BY <1>1, <1>5, <1>6, <1>7 DEF c, E, L

LEMMA LessOfTwo ==
  ASSUME NEW x \in Int, NEW y \in Int
  PROVE  /\ Min({x, y}) = IF x <= y THEN x ELSE y
<1> DEFINE z == IF x <= y THEN x ELSE y
<1>1. z \in {x, y} /\ \A w \in {x, y} : z <= w
  OBVIOUS
<1>2. \A v \in {x, y} : (\A w \in {x, y} : v <= w) => v = z
  OBVIOUS
<1> HIDE DEF z
<1>3. Min({x, y}) \in {x, y} /\ \A w \in {x, y} : Min({x, y}) <= w
  BY <1>1 DEF Min
<1> QED
  BY <1>2, <1>3 DEF z

LEMMA ShareIsWhole ==
  ASSUME Rowed, NEW e \in DOMAIN entry, line[e].currency # NoCurrency, NEW k \in Nat
  PROVE  Share(e, k) \in Nat /\ Share(e, k) = RoundDiv(k * Magnitude(entry[e].amount), Magnitude(line[e].cents))
<1>1. Magnitude(entry[e].amount) \in Nat /\ Magnitude(line[e].cents) \in Nat \ {0}
  BY CurrencyPost DEF Magnitude
<1>2. k * Magnitude(entry[e].amount) \in Nat
  BY <1>1
<1> QED
  BY <1>1, <1>2, RoundedNearby DEF Share

\* The rows of one settlement: both posts in the first; one of them and the difference in the second.
OnBoth(a, b, c, k, r, rest, more) ==
    /\ more = {r} \cup rest
    /\ a # b /\ k \in Nat \ {0}
    /\ r \in Match /\ r.a = a /\ r.b = b /\ c[r.id] = k
    /\ rest \subseteq Match /\ r \notin rest
    /\ rest = {} \/ \E q : rest = {q} /\ c[q.id] = 0

LEMMA OneOnBoth ==
  ASSUME NEW a, NEW b, NEW c, NEW k, NEW r, NEW rest, NEW more, OnBoth(a, b, c, k, r, rest, more)
  PROVE  /\ Settles(more, c, a) = k /\ PartsOf(more, c, a) = {r}
         /\ Settles(more, c, b) = k /\ PartsOf(more, c, b) = {r}
<1> USE DEF OnBoth
<1> DEFINE One(e) == Settles(more, c, e) = k /\ PartsOf(more, c, e) = {r}
<1>1. IsFiniteSet(rest) /\ IsFiniteSet({r}) /\ \A q \in rest : c[q.id] = 0
  <2>1. CASE rest = {}
    BY <2>1, FS_EmptySet, FS_Singleton
  <2>2. CASE \E q : rest = {q} /\ c[q.id] = 0
    <3>1. PICK q : rest = {q} /\ c[q.id] = 0
      BY <2>2
    <3> QED
      BY <3>1, FS_Singleton
  <2> QED
    BY <2>1, <2>2
<1>2. IsFiniteSet(more)
  BY <1>1, FS_Union
<1>3. Priced(more, c)
  BY <1>1, <1>2 DEF Priced
<1>4. ASSUME NEW e, e = a \/ e = b PROVE One(e)
  <2>1. PartsOf(more, c, e) = {r}
    BY <1>1, <1>4 DEF PartsOf
  <2>2. r \in more /\ \A q \in more : q # r => q \in rest
    OBVIOUS
  <2>3. CentsOn(e, c)[r] = k /\ \A q \in more : q # r => CentsOn(e, c)[q] = 0
    BY <1>1, <1>3, <1>4, <2>2, CentsAreNumbers
  <2>4. SumOver(CentsOn(e, c), more) = k
    BY <1>2, <2>2, <2>3, TotalOfOne
  <2> QED
    BY <2>1, <2>4 DEF Settles
<1> HIDE DEF One
<1>5. One(a) /\ One(b)
  BY <1>4
<1> QED
  BY <1>5 DEF One

\* What the rows of one settlement match: each side its own share.
Splits(a, b, x, nokA, nokB, r, rest, more) ==
    /\ more = {r} \cup rest
    /\ a # b /\ a # x /\ b # x /\ nokA \in Nat /\ nokB \in Nat
    /\ r \in Match /\ r.a = a /\ r.b = b /\ r.amount = (IF nokA <= nokB THEN nokA ELSE nokB)
    /\ rest \subseteq Match /\ r \notin rest
    /\ nokA = nokB => rest = {}
    /\ nokB > nokA => \E q : rest = {q} /\ q.a = x /\ q.b = b /\ q.amount = nokB - nokA
    /\ nokA > nokB => \E q : rest = {q} /\ q.a = a /\ q.b = x /\ q.amount = nokA - nokB

LEMMA SharesMatched ==
  ASSUME NEW a, NEW b, NEW x, NEW nokA, NEW nokB, NEW r, NEW rest, NEW more,
         Splits(a, b, x, nokA, nokB, r, rest, more)
  PROVE  matched(more, a) = nokA /\ matched(more, b) = -nokB
<1> USE DEF Splits
<1>1. IsFiniteSet(rest) /\ IsFiniteSet({r}) /\ {r} \subseteq Match /\ {r} \cap rest = {}
  <2>1. nokA = nokB \/ nokB > nokA \/ nokA > nokB
    OBVIOUS
  <2>2. rest = {} \/ \E q : rest = {q}
    BY <2>1
  <2>3. CASE rest = {}
    BY <2>3, FS_EmptySet, FS_Singleton
  <2>4. CASE \E q : rest = {q}
    <3>1. PICK q : rest = {q}
      BY <2>4
    <3> QED
      BY <3>1, FS_Singleton
  <2> QED
    BY <2>2, <2>3, <2>4
<1>2. matched(more, a) = matched({r}, a) + matched(rest, a)
      /\ matched(more, b) = matched({r}, b) + matched(rest, b)
  BY <1>1, MatchedApart
<1>3. matched({r}, a) = r.amount /\ matched({r}, b) = -r.amount
  BY <1>1, MatchedByOne
<1>4. CASE nokA = nokB
  <2>1. matched(rest, a) = 0 /\ matched(rest, b) = 0
    BY <1>1, <1>4, MatchedByNone
  <2> QED
    BY <1>2, <1>3, <1>4, <2>1
<1>5. CASE nokB > nokA
  <2>1. PICK q : rest = {q} /\ q.a = x /\ q.b = b /\ q.amount = nokB - nokA
    BY <1>5
  <2>2. matched(rest, a) = 0
    BY <1>1, <2>1, MatchedByNone
  <2>3. matched(rest, b) = -(nokB - nokA)
    BY <1>1, <2>1, MatchedByOne
  <2>4. r.amount = nokA
    BY <1>5
  <2> QED
    BY <1>2, <1>3, <2>2, <2>3, <2>4
<1>6. CASE nokA > nokB
  <2>1. PICK q : rest = {q} /\ q.a = a /\ q.b = x /\ q.amount = nokA - nokB
    BY <1>6
  <2>2. matched(rest, b) = 0
    BY <1>1, <2>1, MatchedByNone
  <2>3. matched(rest, a) = nokA - nokB
    BY <1>1, <2>1, MatchedByOne
  <2>4. r.amount = nokB
    BY <1>6
  <2> QED
    BY <1>2, <1>3, <2>2, <2>3, <2>4
<1> QED
  BY <1>4, <1>5, <1>6

-----------------------------------------------------------------------------
\* Rows that are inserted, with their cents, and posts that are added.
Grows(more) ==
    /\ match' = match \cup more /\ more \subseteq Match /\ IsFiniteSet(more)
    /\ match_seq' \in Nat /\ match_seq <= match_seq'
    /\ \A m \in more : m.id \in (match_seq + 1)..match_seq' /\ m.a \in DOMAIN entry' /\ m.b \in DOMAIN entry'
    /\ rowCents' \in Seq(Nat) /\ Len(rowCents') = match_seq'
    /\ \A i \in 1..match_seq : rowCents'[i] = rowCents[i]
    /\ entry' \in Seq(Entry) /\ line' \in Seq(LineCurrency)
    /\ Len(line') = Len(entry') /\ Len(entry) <= Len(entry')
    /\ \A e \in DOMAIN entry : entry'[e] = entry[e] /\ line'[e] = line[e]
    /\ \A e \in DOMAIN entry' \ DOMAIN entry : line'[e].currency = NoCurrency
    /\ disturbed \subseteq disturbed'

LEMMA GrowsAdds == ASSUME Rowed, NEW more, Grows(more) PROVE Rowed' /\ Adds(more)
<1>1. /\ Priced(match, rowCents) /\ \A m \in match : m.id \in 1..match_seq
      /\ DOMAIN line = DOMAIN entry /\ DOMAIN entry = 1..Len(entry) /\ Len(entry) \in Nat
      /\ match_seq \in Nat
  BY RowsPriced
<1>2. /\ match' \subseteq Match /\ IsFiniteSet(match')
      /\ DOMAIN entry' = 1..Len(entry') /\ DOMAIN line' = DOMAIN entry' /\ DOMAIN entry \subseteq DOMAIN entry'
  <2>1. Len(entry') \in Nat /\ DOMAIN entry' = 1..Len(entry') /\ DOMAIN line' = 1..Len(line')
        /\ Len(line') = Len(entry') /\ Len(entry) <= Len(entry')
    BY DEF Grows
  <2>2. match \subseteq Match /\ IsFiniteSet(match)
    BY DEF Rowed, Posts
  <2>3. match' = match \cup more /\ more \subseteq Match /\ IsFiniteSet(more)
    BY DEF Grows
  <2>4. match' \subseteq Match /\ IsFiniteSet(match')
    BY <2>2, <2>3, FS_Union
  <2> QED
    BY <1>1, <2>1, <2>4
<1>3. \A m \in match' : /\ m.id <= match_seq' /\ m.id # 0
                        /\ m.a \in DOMAIN entry' /\ m.b \in DOMAIN entry'
  <2>1. ASSUME NEW m \in match
        PROVE  /\ m.id <= match_seq' /\ m.id # 0 /\ m.a \in DOMAIN entry' /\ m.b \in DOMAIN entry'
    BY <1>1, <1>2, <2>1 DEF Grows, Rowed, Posts
  <2>2. ASSUME NEW m \in more
        PROVE  /\ m.id <= match_seq' /\ m.id # 0 /\ m.a \in DOMAIN entry' /\ m.b \in DOMAIN entry'
    BY <1>1, <2>2 DEF Grows
  <2> QED
    BY <2>1, <2>2 DEF Grows
<1>4. Posts'
  BY <1>1, <1>2, <1>3 DEF Posts, Rowed, Grows
<1>5. ASSUME NEW e \in DOMAIN line', line'[e].currency # NoCurrency
      PROVE  Signum(line'[e].cents) = Signum(entry'[e].amount)
  <2>1. e \in DOMAIN entry
    BY <1>2, <1>5 DEF Grows
  <2> QED
    BY <1>1, <1>5, <2>1 DEF Rowed, Grows
<1>6. Rowed'
  <2>1. /\ line' \in Seq(LineCurrency) /\ Len(line') = Len(entry')
        /\ rowCents' \in Seq(Nat) /\ Len(rowCents') = match_seq'
    BY DEF Grows
  <2>2. \A m \in match' : m.id # 0
    BY <1>3
  <2> QED
    BY <1>4, <1>5, <2>1, <2>2 DEF Rowed
<1>7. match \cap more = {}
  <2>1. \A m \in more : m.id \in (match_seq + 1)..match_seq'
    BY DEF Grows
  <2> SUFFICES ASSUME NEW m \in match, m \in more PROVE FALSE
    OBVIOUS
  <2>2. m.id \in 1..match_seq /\ m.id \in (match_seq + 1)..match_seq' /\ match_seq \in Nat
    BY <1>1, <2>1
  <2>3. match_seq' \in Nat
    BY DEF Grows
  <2> QED
    BY <2>2, <2>3
<1>8. ASSUME NEW m \in more PROVE rowCents'[m.id] \in Nat
  <2>1. m.id \in 1..match_seq'
    BY <1>1, <1>8 DEF Grows
  <2> QED
    BY <2>1 DEF Grows
<1>9. Priced(more, rowCents')
  BY <1>8 DEF Priced, Grows
<1>10. \A m \in match : rowCents'[m.id] = rowCents[m.id]
  BY <1>1 DEF Grows
<1> QED
  BY <1>2, <1>6, <1>7, <1>9, <1>10 DEF Adds, Grows

\* What was worked out before stays worked out.
LEMMA WorkStays ==
  ASSUME DOMAIN entry \subseteq DOMAIN entry', \A e \in DOMAIN entry : entry'[e] = entry[e] /\ line'[e] = line[e]
  PROVE  /\ \A m : IsMatching(m) => m.a \in DOMAIN entry' /\ m.b \in DOMAIN entry' /\ m.amount \in Nat \ {0}
         /\ \A t : IsSettling(t) =>
              /\ t.a \in DOMAIN entry' /\ t.b \in DOMAIN entry' /\ t.cents \in Nat \ {0}
              /\ line'[t.a].currency # NoCurrency /\ line'[t.b].currency # NoCurrency
              /\ line'[t.a].cents > 0 /\ line'[t.b].cents < 0
              /\ t.nokA = RoundDiv(t.cents * Magnitude(entry'[t.a].amount), Magnitude(line'[t.a].cents))
              /\ t.nokB = RoundDiv(t.cents * Magnitude(entry'[t.b].amount), Magnitude(line'[t.b].cents))
  BY DEF IsMatching, IsSettling, Share

LEMMA MatchingsStay ==
  ASSUME Matchings, NEW s \in Session,
         matching' = matching \/ matching' = [matching EXCEPT ![s] = NoMatching],
         DOMAIN entry \subseteq DOMAIN entry', \A e \in DOMAIN entry : entry'[e] = entry[e] /\ line'[e] = line[e]
  PROVE  Matchings'
<1>1. matching' = [t \in Session |-> matching'[t]]
      /\ \A t \in Session : matching'[t] # NoMatching => matching'[t] = matching[t]
  BY DEF Matchings
<1>2. ASSUME NEW t \in Session, matching'[t] # NoMatching
      PROVE  /\ matching'[t].a \in DOMAIN entry' /\ matching'[t].b \in DOMAIN entry'
             /\ matching'[t].amount \in Nat \ {0}
  <2>1. IsMatching(matching[t]) /\ matching'[t] = matching[t]
    BY <1>1, <1>2 DEF Matchings
  <2> QED
    BY <2>1 DEF IsMatching
<1> QED
  BY <1>1, <1>2 DEF Matchings, IsMatching

LEMMA SettlingsStay ==
  ASSUME Settlings, NEW s \in Session,
         settling' = settling \/ settling' = [settling EXCEPT ![s] = NotSettling],
         DOMAIN entry \subseteq DOMAIN entry', \A e \in DOMAIN entry : entry'[e] = entry[e] /\ line'[e] = line[e]
  PROVE  Settlings'
<1>1. settling' = [t \in Session |-> settling'[t]]
      /\ \A t \in Session : settling'[t] # NotSettling => settling'[t] = settling[t]
  BY DEF Settlings
<1>2. ASSUME NEW t \in Session, settling'[t] # NotSettling
      PROVE  IsSettling(settling[t]) /\ settling'[t] = settling[t]
  BY <1>1, <1>2 DEF Settlings
<1> QED
  BY <1>1, <1>2, WorkStays DEF Settlings, IsSettling, Share

\* A step that leaves posts, rows and cents alone.
LEMMA RowsStay ==
  ASSUME DriftInv, UNCHANGED << entry, match, match_seq, line, rowCents, disturbed >>,
         Matchings', Settlings'
  PROVE  DriftInv'
<1>1. Rowed'
  BY DEF DriftInv, Rowed, Posts
<1>2. AllNear'
  BY DEF DriftInv, AllNear
<1> QED
  BY <1>1, <1>2 DEF DriftInv

LEMMA NothingMoves ==
  ASSUME DriftInv, NEW s \in Session,
         \/ AbandonSettlement(s)
         \/ \E day \in RegulationDay : ReadRevaluation(s, day)
         \/ Kursregulering(s)
         \/ \E r \in RateOffered : RegisterRate(r)
         \/ UNCHANGED varsCurrency
  PROVE  DriftInv'
<1>1. /\ UNCHANGED << entry, match, match_seq, line, rowCents, disturbed, matching >>
      /\ settling' = settling \/ settling' = [settling EXCEPT ![s] = NotSettling]
  BY DEF AbandonSettlement, ReadRevaluation, Kursregulering, RegisterRate, varsCurrency, reskontroVars
<1>2. Matchings' /\ Settlings'
  BY <1>1, MatchingsStay, SettlingsStay DEF DriftInv
<1> QED
  BY <1>1, <1>2, RowsStay

LEMMA ReadSettlementDrifts ==
  ASSUME DriftInv, NEW s \in Session, NEW a \in DOMAIN entry, NEW b \in DOMAIN entry,
         NEW cents \in 1..line[a].cents, ReadSettlement(s, a, b, cents)
  PROVE  DriftInv'
<1> DEFINE t == [a |-> a, b |-> b, cents |-> cents, nokA |-> Share(a, cents), nokB |-> Share(b, cents)]
<1>1. /\ UNCHANGED << entry, match, match_seq, line, rowCents, disturbed, matching >>
      /\ settling' = [settling EXCEPT ![s] = t]
  BY DEF ReadSettlement, reskontroVars
<1>2. line[a].currency # NoCurrency /\ line[b].currency # NoCurrency /\ line[a].cents > 0 /\ line[b].cents < 0
  BY DEF ReadSettlement
<1>3. cents \in Nat \ {0}
  BY <1>2, CurrencyPost DEF DriftInv
<1>4. IsSettling(t)
  BY <1>2, <1>3 DEF IsSettling
<1> HIDE DEF t
<1>5. settling' = [u \in Session |-> settling'[u]]
      /\ \A u \in Session : settling'[u] = t \/ settling'[u] = settling[u]
  BY <1>1 DEF DriftInv, Settlings
<1>6. \A u \in Session : settling'[u] # NotSettling => IsSettling(settling'[u])
  BY <1>4, <1>5 DEF DriftInv, Settlings
<1>7. \A u : IsSettling(u) => /\ u.a \in DOMAIN entry' /\ u.b \in DOMAIN entry' /\ u.cents \in Nat \ {0}
              /\ line'[u.a].currency # NoCurrency /\ line'[u.b].currency # NoCurrency
              /\ line'[u.a].cents > 0 /\ line'[u.b].cents < 0
              /\ u.nokA = RoundDiv(u.cents * Magnitude(entry'[u.a].amount), Magnitude(line'[u.a].cents))
              /\ u.nokB = RoundDiv(u.cents * Magnitude(entry'[u.b].amount), Magnitude(line'[u.b].cents))
  BY <1>1, WorkStays
<1>8. Settlings'
  BY <1>5, <1>6, <1>7 DEF Settlings, IsSettling, Share
<1>9. Matchings'
  BY <1>1, MatchingsStay DEF DriftInv
<1> QED
  BY <1>1, <1>8, <1>9, RowsStay

LEMMA PrepareMatchDrifts ==
  ASSUME DriftInv, NEW s \in Session, PrepareMatch(s)
  PROVE  DriftInv'
<1>1. UNCHANGED << entry, match, match_seq, line, rowCents, disturbed, settling >>
  BY DEF PrepareMatch, CheckMatch, AbandonMatch
<1>2. \/ matching' = [matching EXCEPT ![s] = NoMatching]
      \/ \E a, b \in DOMAIN entry : \E amount \in 1 .. entry[a].amount :
            matching' = [matching EXCEPT ![s] = [a |-> a, b |-> b, amount |-> amount]]
  BY DEF PrepareMatch, CheckMatch, AbandonMatch
<1>3. ASSUME matching' = [matching EXCEPT ![s] = NoMatching] PROVE Matchings'
  BY <1>1, <1>3, MatchingsStay DEF DriftInv
<1>4. ASSUME NEW a \in DOMAIN entry, NEW b \in DOMAIN entry, NEW amount \in 1 .. entry[a].amount,
             matching' = [matching EXCEPT ![s] = [a |-> a, b |-> b, amount |-> amount]]
      PROVE  Matchings'
  <2> DEFINE m == [a |-> a, b |-> b, amount |-> amount]
  <2>1. entry[a].amount \in Int
    <3>1. entry[a] \in Entry
      BY DEF DriftInv, Rowed, Posts
    <3> QED
      BY <3>1 DEF Entry
  <2>2. m.a \in DOMAIN entry /\ m.b \in DOMAIN entry /\ m.amount \in Nat \ {0}
    BY <2>1
  <2>3. matching' = [u \in Session |-> matching'[u]]
        /\ \A u \in Session : matching'[u] = m \/ matching'[u] = matching[u]
    BY <1>4 DEF DriftInv, Matchings
  <2> HIDE DEF m
  <2>4. \A u \in Session : matching'[u] # NoMatching =>
          matching'[u].a \in DOMAIN entry /\ matching'[u].b \in DOMAIN entry /\ matching'[u].amount \in Nat \ {0}
    BY <2>2, <2>3 DEF DriftInv, Matchings, IsMatching
  <2> QED
    BY <1>1, <2>3, <2>4 DEF Matchings, IsMatching
<1>5. Matchings'
  BY <1>2, <1>3, <1>4
<1>6. Settlings'
  BY <1>1, SettlingsStay DEF DriftInv
<1> QED
  BY <1>1, <1>5, <1>6, RowsStay

\* A match in kroner is on two posts of which nothing is said any more.
LEMMA MatchInKronerDrifts ==
  ASSUME DriftInv, NEW s \in Session, MatchInKroner(s)
  PROVE  DriftInv'
<1> DEFINE m == matching[s]
           n == [id |-> match_seq + 1, a |-> m.a, b |-> m.b, amount |-> m.amount]
<1>1. /\ IsMatching(m) /\ match' = match \cup {n} /\ match_seq' = match_seq + 1
      /\ matching' = [matching EXCEPT ![s] = NoMatching]
      /\ UNCHANGED << entry, line, settling >>
      /\ rowCents' = Append(rowCents, 0) /\ disturbed' = disturbed \cup {m.a, m.b}
  BY DEF MatchInKroner, InsertMatch, DriftInv, Matchings
<1>2. match_seq \in Nat /\ Len(rowCents) = match_seq /\ rowCents \in Seq(Nat)
  BY RowsPriced DEF DriftInv, Rowed
<1>3. n \in Match /\ n.id = match_seq + 1 /\ n.a = m.a /\ n.b = m.b
  <2>1. m.a \in Nat /\ m.b \in Nat /\ m.amount \in Nat \ {0}
    BY <1>1, RowsPriced DEF DriftInv, IsMatching
  <2> QED
    BY <1>2, <2>1 DEF Match
<1> HIDE DEF m, n
<1>4. rowCents' \in Seq(Nat) /\ Len(rowCents') = match_seq' /\ \A i \in 1..match_seq : rowCents'[i] = rowCents[i]
  BY <1>1, <1>2
<1>5. Grows({n})
  <2>1. {n} \subseteq Match /\ IsFiniteSet({n})
    BY <1>3, FS_Singleton
  <2>2. \A q \in {n} : q.id \in (match_seq + 1)..match_seq' /\ q.a \in DOMAIN entry' /\ q.b \in DOMAIN entry'
    BY <1>1, <1>2, <1>3 DEF IsMatching
  <2>3. match_seq' \in Nat /\ match_seq <= match_seq'
    BY <1>1, <1>2
  <2>4. entry' = entry /\ line' = line /\ entry \in Seq(Entry) /\ line \in Seq(LineCurrency) /\ Len(line) = Len(entry)
    BY <1>1 DEF DriftInv, Rowed, Posts
  <2>5. Len(entry) <= Len(entry') /\ disturbed \subseteq disturbed' /\ match' = match \cup {n}
    BY <1>1, <2>4
  <2> QED
    BY <1>4, <2>1, <2>2, <2>3, <2>4, <2>5 DEF Grows
<1>6. Rowed' /\ Adds({n})
  BY <1>5, GrowsAdds DEF DriftInv
<1>7. AllNear'
  <2>1. \A e \in DOMAIN entry \ disturbed' : NotAmong({n}, e)
    BY <1>1, <1>3 DEF NotAmong
  <2> QED
    BY <1>6, <2>1, AddedStaysNear DEF DriftInv
<1>8. Matchings' /\ Settlings'
  BY <1>1, MatchingsStay, SettlingsStay DEF DriftInv
<1> QED
  BY <1>6, <1>7, <1>8 DEF DriftInv

LEMMA UnmatchRowDrifts ==
  ASSUME DriftInv, NEW m \in match, UnmatchRow(m)
  PROVE  DriftInv'
<1>1. /\ match' = match \ {m} /\ disturbed' = disturbed \cup {m.a, m.b}
      /\ UNCHANGED << entry, match_seq, matching, line, rowCents, settling >>
  BY DEF UnmatchRow, Unmatch
<1>2. Priced(match, rowCents) /\ match \subseteq Match /\ IsFiniteSet(match)
  BY RowsPriced DEF DriftInv, Priced
<1>3. Priced(match', rowCents) /\ Priced({m}, rowCents) /\ match' \cap {m} = {} /\ match = match' \cup {m}
  <2>1. IsFiniteSet(match') /\ IsFiniteSet({m})
    BY <1>1, <1>2, FS_Subset, FS_Singleton
  <2> QED
    BY <1>1, <1>2, <2>1 DEF Priced
<1>4. Rowed'
  BY <1>1, <1>3 DEF DriftInv, Rowed, Posts, Priced
<1>5. ASSUME NEW e \in DOMAIN line \ disturbed', line[e].currency # NoCurrency
      PROVE  Near(e, entry[e].amount, line[e].cents, match', rowCents)
  <2>1. e \notin disturbed /\ m.a # e /\ m.b # e
    BY <1>1
  <2>2. Near(e, entry[e].amount, line[e].cents, match, rowCents)
    BY <1>5, <2>1 DEF DriftInv, AllNear
  <2>3. /\ matched(match, e) = matched(match', e)
        /\ Settles(match, rowCents, e) = Settles(match', rowCents, e)
        /\ PartsOf(match, rowCents, e) = PartsOf(match', rowCents, e)
    BY <1>3, <2>1, RowsElsewhere
  <2> QED
    BY <2>2, <2>3 DEF Near
<1>6. AllNear'
  BY <1>1, <1>5 DEF AllNear
<1>7. Matchings' /\ Settlings'
  BY <1>1 DEF DriftInv, Matchings, IsMatching, Settlings, IsSettling, Share
<1> QED
  BY <1>4, <1>6, <1>7 DEF DriftInv

-----------------------------------------------------------------------------
\* What is inserted of at most two rows: the settlement itself and its difference.
Numbered(n, rows) ==
    {[id |-> n + i, a |-> rows[i].a, b |-> rows[i].b, amount |-> rows[i].amount] : i \in DOMAIN rows}
OneRowAt(n, v) == [id |-> n, a |-> v.a, b |-> v.b, amount |-> v.amount]

LEMMA JoinedRows ==
  ASSUME NEW S, NEW s \in Seq(S), NEW t \in Seq(S)
  PROVE  /\ s \o t \in Seq(S) /\ Len(s \o t) = Len(s) + Len(t) /\ DOMAIN (s \o t) = 1..(Len(s) + Len(t))
         /\ \A i \in 1..Len(s) : (s \o t)[i] = s[i]
         /\ \A i \in 1..Len(t) : (s \o t)[Len(s) + i] = t[i]
  OBVIOUS

\* Which rows a settlement inserts, from the shares of its two sides.
FirstRow(t, n) == [id |-> n, a |-> t.a, b |-> t.b, amount |-> IF t.nokA <= t.nokB THEN t.nokA ELSE t.nokB]
IsFirst(t, n, firsts) ==
    /\ (t.nokA > 0 /\ t.nokB > 0) => firsts = {FirstRow(t, n)}
    /\ ~(t.nokA > 0 /\ t.nokB > 0) => firsts = {}
IsSecond(t, n, x, seconds) ==
    /\ t.nokA = t.nokB => seconds = {}
    /\ t.nokB > t.nokA => seconds = {[id |-> n, a |-> x, b |-> t.b, amount |-> t.nokB - t.nokA]}
    /\ t.nokA > t.nokB => seconds = {[id |-> n, a |-> t.a, b |-> x, amount |-> t.nokA - t.nokB]}

LEMMA SettlingSides ==
  ASSUME Rowed, NEW t, IsSettling(t)
  PROVE  /\ t.nokA \in Nat /\ t.nokB \in Nat /\ t.a # t.b /\ t.cents \in Nat \ {0}
         /\ t.a \in 1..Len(entry) /\ t.b \in 1..Len(entry)
         /\ t.nokA = RoundDiv(t.cents * Magnitude(entry[t.a].amount), Magnitude(line[t.a].cents))
         /\ t.nokB = RoundDiv(t.cents * Magnitude(entry[t.b].amount), Magnitude(line[t.b].cents))
         /\ entry[t.a].konto \in Konto
<1>1. t.a \in DOMAIN entry /\ t.b \in DOMAIN entry /\ line[t.a].currency # NoCurrency /\ line[t.b].currency # NoCurrency
  BY DEF IsSettling
<1>2. line[t.a].cents \in Int /\ line[t.b].cents \in Int
  BY <1>1, CurrencyPost
<1>3. t.a # t.b
  BY <1>2 DEF IsSettling
<1>4. entry[t.a] \in Entry
  BY <1>1 DEF Rowed, Posts
<1>5. t.cents \in Nat
  BY DEF IsSettling
<1>6. /\ t.nokA \in Nat /\ t.nokA = RoundDiv(t.cents * Magnitude(entry[t.a].amount), Magnitude(line[t.a].cents))
      /\ t.nokB \in Nat /\ t.nokB = RoundDiv(t.cents * Magnitude(entry[t.b].amount), Magnitude(line[t.b].cents))
  BY <1>1, <1>5, ShareIsWhole DEF IsSettling
<1> QED
  BY <1>1, <1>3, <1>4, <1>6, RowsPriced DEF Entry, IsSettling

LEMMA SettlementInserts ==
  ASSUME DriftInv, NEW s \in Session, SettleInCurrency(s)
  PROVE  LET t == settling[s] IN
         /\ IsSettling(t)
         /\ \E firsts, seconds :
              LET n == IF firsts = {} THEN match_seq + 1 ELSE match_seq + 2 IN
              /\ IsFirst(t, match_seq + 1, firsts) /\ IsSecond(t, n, Len(entry) + 1, seconds)
              /\ match' = match \cup (firsts \cup seconds)
              /\ match_seq' = IF seconds = {} THEN n - 1 ELSE n
              /\ rowCents' \in Seq(Nat) /\ Len(rowCents') = match_seq'
              /\ \A i \in 1..match_seq : rowCents'[i] = rowCents[i]
              /\ firsts # {} => rowCents'[match_seq + 1] = t.cents
              /\ seconds # {} => rowCents'[n] = 0
         /\ IF t.nokA = t.nokB THEN UNCHANGED << entry, line >>
            ELSE /\ entry' = Append(entry, [konto |-> entry[t.a].konto, amount |-> t.nokB - t.nokA])
                 /\ line' = Append(line, [currency |-> NoCurrency, cents |-> 0, day |-> 0])
         /\ disturbed' = IF t.nokA > 0 /\ t.nokB > 0 THEN disturbed ELSE disturbed \cup {t.a, t.b}
         /\ settling' = [settling EXCEPT ![s] = NotSettling] /\ UNCHANGED matching
<1> DEFINE t == settling[s]
           agio == t.nokB - t.nokA
           shared == Min({t.nokA, t.nokB})
           x == [a |-> t.a, b |-> t.b, amount |-> shared]
           first == IF shared > 0 THEN << x >> ELSE << >>
           posted == Len(entry) + 1
           y == IF agio > 0 THEN [a |-> posted, b |-> t.b, amount |-> agio]
                ELSE [a |-> t.a, b |-> posted, amount |-> -agio]
           second == CASE agio > 0 -> << [a |-> posted, b |-> t.b, amount |-> agio] >>
                       [] agio < 0 -> << [a |-> t.a, b |-> posted, amount |-> -agio] >>
                       [] OTHER    -> << >>
           rows == first \o second
           extra == [i \in DOMAIN rows |-> IF i <= Len(first) THEN t.cents ELSE 0]
           n == IF shared > 0 THEN match_seq + 2 ELSE match_seq + 1
<1>1. IsSettling(t)
  BY DEF SettleInCurrency, DriftInv, Settlings
<1>2. /\ t.nokA \in Nat /\ t.nokB \in Nat /\ t.cents \in Nat \ {0} /\ agio \in Int
      /\ shared = IF t.nokA <= t.nokB THEN t.nokA ELSE t.nokB
  <2>1. t.nokA \in Nat /\ t.nokB \in Nat /\ t.cents \in Nat \ {0}
    BY <1>1, SettlingSides DEF DriftInv
  <2> QED
    BY <2>1, LessOfTwo
<1>3. second = IF agio # 0 THEN << y >> ELSE << >>
  BY <1>2
<1>4. /\ match' = match \cup Numbered(match_seq, rows)
      /\ match_seq' = match_seq + Len(rows)
      /\ rowCents' = rowCents \o extra
      /\ IF agio = 0 THEN UNCHANGED << entry, line >>
         ELSE /\ entry' = Append(entry, [konto |-> entry[t.a].konto, amount |-> agio])
              /\ line' = Append(line, [currency |-> NoCurrency, cents |-> 0, day |-> 0])
      /\ disturbed' = IF shared > 0 THEN disturbed ELSE disturbed \cup {t.a, t.b}
      /\ settling' = [settling EXCEPT ![s] = NotSettling] /\ UNCHANGED matching
  BY DEF SettleInCurrency, Numbered
<1> HIDE DEF t
<1>5. match_seq \in Nat /\ Len(rowCents) = match_seq /\ rowCents \in Seq(Nat)
  BY RowsPriced DEF DriftInv, Rowed
<1>6. agio = 0 <=> t.nokA = t.nokB
  BY <1>2
<1>7. shared > 0 <=> t.nokA > 0 /\ t.nokB > 0
  BY <1>2
<1> DEFINE firsts == IF shared > 0 THEN {OneRowAt(match_seq + 1, x)} ELSE {}
           seconds == IF agio # 0 THEN {OneRowAt(n, y)} ELSE {}
<1>8. IsFirst(t, match_seq + 1, firsts) /\ (firsts # {} <=> shared > 0)
  BY <1>2, <1>7 DEF IsFirst, FirstRow, OneRowAt
<1>9. IsSecond(t, n, Len(entry) + 1, seconds) /\ (seconds # {} <=> agio # 0)
  <2>1. agio > 0 => OneRowAt(n, y) = [id |-> n, a |-> Len(entry) + 1, b |-> t.b, amount |-> agio]
    BY DEF OneRowAt
  <2>2. agio < 0 => OneRowAt(n, y) = [id |-> n, a |-> t.a, b |-> Len(entry) + 1, amount |-> t.nokA - t.nokB]
    <3>1. agio < 0 => -agio = t.nokA - t.nokB /\ ~(agio > 0)
      BY <1>2
    <3> HIDE DEF agio
    <3> QED
      BY <3>1 DEF OneRowAt
  <2> HIDE DEF n, y
  <2> QED
    BY <1>2, <2>1, <2>2 DEF IsSecond
<1>10. /\ Numbered(match_seq, rows) = firsts \cup seconds
       /\ match_seq + Len(rows) = (IF agio # 0 THEN n ELSE n - 1)
       /\ rowCents \o extra \in Seq(Nat) /\ Len(rowCents \o extra) = match_seq + Len(rows)
       /\ \A i \in 1..match_seq : (rowCents \o extra)[i] = rowCents[i]
       /\ shared > 0 => (rowCents \o extra)[match_seq + 1] = t.cents
       /\ agio # 0 => (rowCents \o extra)[n] = 0
  <2> DEFINE p == shared > 0
             q == agio # 0
             cents == t.cents
  <2>1. p \in BOOLEAN /\ q \in BOOLEAN /\ cents \in Nat
    BY <1>2
  <2>2. /\ first = (IF p THEN << x >> ELSE << >>) /\ second = (IF q THEN << y >> ELSE << >>) /\ rows = first \o second
        /\ extra = [i \in DOMAIN rows |-> IF i <= Len(first) THEN cents ELSE 0]
        /\ n = (IF p THEN match_seq + 2 ELSE match_seq + 1)
        /\ firsts = (IF p THEN {OneRowAt(match_seq + 1, x)} ELSE {}) /\ seconds = (IF q THEN {OneRowAt(n, y)} ELSE {})
    BY <1>3
  <2>3. (p <=> shared > 0) /\ (q <=> agio # 0)
    OBVIOUS
  <2> HIDE DEF shared, agio, p, q, x, y, first, second, rows, extra, n, firsts, seconds, cents
  <2>4. /\ Numbered(match_seq, rows) = firsts \cup seconds
        /\ match_seq + Len(rows) = (IF q THEN n ELSE n - 1)
        /\ rowCents \o extra \in Seq(Nat) /\ Len(rowCents \o extra) = match_seq + Len(rows)
        /\ \A i \in 1..match_seq : (rowCents \o extra)[i] = rowCents[i]
        /\ p => (rowCents \o extra)[match_seq + 1] = cents
        /\ q => (rowCents \o extra)[n] = 0
    <3> USE <1>5, <2>1, <2>2
    <3>1. /\ first \in Seq({x, y}) /\ second \in Seq({x, y})
          /\ Len(first) = (IF p THEN 1 ELSE 0) /\ Len(second) = (IF q THEN 1 ELSE 0)
          /\ p => first[1] = x
          /\ q => second[1] = y
      <4>1. << x >> \in Seq({x, y}) /\ << y >> \in Seq({x, y}) /\ << >> \in Seq({x, y})
        OBVIOUS
      <4>2. Len(<< x >>) = 1 /\ Len(<< y >>) = 1 /\ Len(<< >>) = 0 /\ << x >>[1] = x /\ << y >>[1] = y
        OBVIOUS
      <4>3. first \in Seq({x, y}) /\ Len(first) = (IF p THEN 1 ELSE 0) /\ (p => first[1] = x)
        <5>1. CASE p
          BY <4>1, <4>2, <5>1
        <5>2. CASE ~p
          BY <4>1, <4>2, <5>2
        <5> QED
          BY <5>1, <5>2
      <4>4. second \in Seq({x, y}) /\ Len(second) = (IF q THEN 1 ELSE 0) /\ (q => second[1] = y)
        <5>1. CASE q
          BY <4>1, <4>2, <5>1
        <5>2. CASE ~q
          BY <4>1, <4>2, <5>2
        <5> QED
          BY <5>1, <5>2
      <4> QED
        BY <4>3, <4>4
    <3> DEFINE size == Len(first) + Len(second)
    <3>2. /\ DOMAIN rows = 1..size /\ Len(rows) = size
          /\ p => rows[1] = x
          /\ q => rows[size] = y
      <4>1. /\ rows \in Seq({x, y}) /\ Len(rows) = Len(first) + Len(second) /\ DOMAIN rows = 1..(Len(first) + Len(second))
            /\ \A i \in 1..Len(first) : rows[i] = first[i]
            /\ \A i \in 1..Len(second) : rows[Len(first) + i] = second[i]
        BY <3>1, JoinedRows
      <4> QED
        BY <3>1, <4>1
    <3>3. /\ size = (IF p THEN 1 ELSE 0) + (IF q THEN 1 ELSE 0)
          /\ match_seq + size = (IF q THEN n ELSE n - 1)
      BY <3>1
    <3> HIDE DEF size
    <3>4. Numbered(match_seq, rows) = (IF p THEN {OneRowAt(match_seq + 1, x)} ELSE {}) \cup (IF q THEN {OneRowAt(n, y)} ELSE {})
      <4> DEFINE at(i) == [id |-> match_seq + i, a |-> rows[i].a, b |-> rows[i].b, amount |-> rows[i].amount]
      <4>1. Numbered(match_seq, rows) = {at(i) : i \in 1..size}
        BY <3>2 DEF Numbered
      <4>2. (p => at(1) = OneRowAt(match_seq + 1, x)) /\ (q => at(size) = OneRowAt(match_seq + size, y))
        BY <3>2 DEF OneRowAt
      <4>3. (q => match_seq + size = n)
        BY <3>3
      <4> HIDE DEF at
      <4>4. CASE p /\ q
        <5>1. size = 2 /\ 1..size = {1, 2}
          BY <3>3, <4>4
        <5>2. {at(i) : i \in {1, 2}} = {at(1), at(2)}
          OBVIOUS
        <5> QED
          BY <4>1, <4>2, <4>3, <4>4, <5>1, <5>2
      <4>5. CASE p /\ ~q
        <5>1. size = 1 /\ 1..size = {1}
          BY <3>3, <4>5
        <5> QED
          BY <4>1, <4>2, <4>3, <4>5, <5>1
      <4>6. CASE ~p /\ q
        <5>1. size = 1 /\ 1..size = {1}
          BY <3>3, <4>6
        <5> QED
          BY <4>1, <4>2, <4>3, <4>6, <5>1
      <4>7. CASE ~p /\ ~q
        <5>1. size = 0 /\ 1..size = {}
          BY <3>3, <4>7
        <5> QED
          BY <4>1, <4>7, <5>1
      <4> QED
        BY <4>4, <4>5, <4>6, <4>7
    <3>5. /\ extra \in Seq(Nat) /\ Len(extra) = size
          /\ p => extra[1] = cents
          /\ q => extra[size] = 0
      <4>1. extra = [i \in 1..size |-> IF i <= Len(first) THEN cents ELSE 0] /\ size \in Nat
        BY <3>2, <3>3
      <4>2. Len(first) = (IF p THEN 1 ELSE 0) /\ (p => 1 \in 1..size) /\ (q => size \in 1..size /\ size > Len(first))
        BY <3>1, <3>3
      <4> QED
        BY <4>1, <4>2
    <3>6. /\ rowCents \o extra \in Seq(Nat) /\ Len(rowCents \o extra) = match_seq + size
          /\ \A i \in 1..match_seq : (rowCents \o extra)[i] = rowCents[i]
          /\ \A i \in 1..size : (rowCents \o extra)[match_seq + i] = extra[i]
      BY <3>5, JoinedRows
    <3>7. (p => (rowCents \o extra)[match_seq + 1] = cents) /\ (q => (rowCents \o extra)[match_seq + size] = 0)
      <4>1. (p => 1 \in 1..size) /\ (q => size \in 1..size)
        BY <3>3
      <4> QED
        BY <3>5, <3>6, <4>1
    <3> QED
      BY <3>2, <3>3, <3>4, <3>6, <3>7
  <2> QED
    BY <2>3, <2>4 DEF cents
<1>11. \E f, g : LET k == IF f = {} THEN match_seq + 1 ELSE match_seq + 2 IN
              /\ IsFirst(t, match_seq + 1, f) /\ IsSecond(t, k, Len(entry) + 1, g)
              /\ match' = match \cup (f \cup g)
              /\ match_seq' = IF g = {} THEN k - 1 ELSE k
              /\ rowCents' \in Seq(Nat) /\ Len(rowCents') = match_seq'
              /\ \A i \in 1..match_seq : rowCents'[i] = rowCents[i]
              /\ f # {} => rowCents'[match_seq + 1] = t.cents
              /\ g # {} => rowCents'[k] = 0
  <2>1. n = IF firsts = {} THEN match_seq + 1 ELSE match_seq + 2
    BY <1>8
  <2> HIDE DEF shared, agio, x, y, first, second, rows, extra, n, firsts, seconds
  <2> WITNESS firsts, seconds
  <2> QED
    BY <1>4, <1>8, <1>9, <1>10, <2>1
<1>12. IF t.nokA = t.nokB THEN UNCHANGED << entry, line >>
       ELSE /\ entry' = Append(entry, [konto |-> entry[t.a].konto, amount |-> t.nokB - t.nokA])
            /\ line' = Append(line, [currency |-> NoCurrency, cents |-> 0, day |-> 0])
  BY <1>4, <1>6
<1>13. disturbed' = IF t.nokA > 0 /\ t.nokB > 0 THEN disturbed ELSE disturbed \cup {t.a, t.b}
  BY <1>4, <1>7
<1>14. settling' = [settling EXCEPT ![s] = NotSettling] /\ UNCHANGED matching
  BY <1>4
<1> QED
  BY <1>1, <1>11, <1>12, <1>13, <1>14 DEF t

\* The rows of a settlement and what they are to the two posts.
IsInserted(t, firsts, seconds, n, c) ==
    /\ n = IF firsts = {} THEN match_seq + 1 ELSE match_seq + 2
    /\ IsFirst(t, match_seq + 1, firsts) /\ IsSecond(t, n, Len(entry) + 1, seconds)
    /\ firsts # {} => c[match_seq + 1] = t.cents
    /\ seconds # {} => c[n] = 0

LEMMA SettlementRows ==
  ASSUME Rowed, NEW t, IsSettling(t), NEW firsts, NEW seconds, NEW n, NEW c, IsInserted(t, firsts, seconds, n, c)
  PROVE  /\ firsts \cup seconds \subseteq Match /\ IsFiniteSet(firsts \cup seconds)
         /\ \A m \in firsts \cup seconds :
              /\ m.id \in (match_seq + 1)..(IF seconds = {} THEN n - 1 ELSE n)
              /\ {m.a, m.b} \subseteq {t.a, t.b, Len(entry) + 1}
              /\ (t.nokA # t.nokB \/ {m.a, m.b} \subseteq {t.a, t.b})
         /\ t.nokA > 0 /\ t.nokB > 0 =>
              /\ OneSettlement(firsts \cup seconds, c, t.a)
              /\ OneSettlement(firsts \cup seconds, c, t.b)
<1>1. /\ t.nokA \in Nat /\ t.nokB \in Nat /\ t.a # t.b /\ t.cents \in Nat \ {0}
      /\ t.a \in 1..Len(entry) /\ t.b \in 1..Len(entry)
      /\ t.nokA = RoundDiv(t.cents * Magnitude(entry[t.a].amount), Magnitude(line[t.a].cents))
      /\ t.nokB = RoundDiv(t.cents * Magnitude(entry[t.b].amount), Magnitude(line[t.b].cents))
  BY SettlingSides
<1>2. match_seq \in Nat /\ Len(entry) \in Nat /\ n \in Nat /\ n > match_seq
  BY RowsPriced DEF IsInserted
<1> DEFINE r == FirstRow(t, match_seq + 1)
           posted == Len(entry) + 1
<1>3. (t.nokA > 0 /\ t.nokB > 0) => /\ r \in Match /\ r.id = match_seq + 1 /\ r.a = t.a /\ r.b = t.b
                                    /\ r.amount = (IF t.nokA <= t.nokB THEN t.nokA ELSE t.nokB)
                                    /\ firsts = {r} /\ n = match_seq + 2
  <2> SUFFICES ASSUME t.nokA > 0, t.nokB > 0
               PROVE  /\ r \in Match /\ r.id = match_seq + 1 /\ r.a = t.a /\ r.b = t.b
                      /\ r.amount = (IF t.nokA <= t.nokB THEN t.nokA ELSE t.nokB)
                      /\ firsts = {r} /\ n = match_seq + 2
    OBVIOUS
  <2> DEFINE amount == IF t.nokA <= t.nokB THEN t.nokA ELSE t.nokB
  <2>1. amount \in Nat \ {0}
    BY <1>1
  <2>2. r.id = match_seq + 1 /\ r.a = t.a /\ r.b = t.b /\ r.amount = amount
    BY DEF FirstRow
  <2>3. r = [id |-> match_seq + 1, a |-> t.a, b |-> t.b, amount |-> amount]
    BY DEF FirstRow
  <2>4. firsts = {r}
    BY DEF IsFirst, IsInserted
  <2> HIDE DEF amount, r
  <2>5. r \in Match
    BY <1>1, <1>2, <2>1, <2>3 DEF Match
  <2> QED
    BY <2>2, <2>4, <2>5 DEF amount, IsInserted
<1>4. ~(t.nokA > 0 /\ t.nokB > 0) => firsts = {} /\ n = match_seq + 1
  BY DEF IsFirst, IsInserted
<1> HIDE DEF r
<1>5. /\ t.nokA = t.nokB => seconds = {}
      /\ t.nokB > t.nokA => \E q \in Match : seconds = {q} /\ q.a = posted /\ q.b = t.b /\ q.amount = t.nokB - t.nokA /\ q.id = n
      /\ t.nokA > t.nokB => \E q \in Match : seconds = {q} /\ q.a = t.a /\ q.b = posted /\ q.amount = t.nokA - t.nokB /\ q.id = n
  <2>1. ASSUME t.nokB > t.nokA
        PROVE  \E q \in Match : seconds = {q} /\ q.a = posted /\ q.b = t.b /\ q.amount = t.nokB - t.nokA /\ q.id = n
    <3> DEFINE q == [id |-> n, a |-> posted, b |-> t.b, amount |-> t.nokB - t.nokA]
    <3>1. seconds = {q}
      BY <2>1 DEF IsSecond, IsInserted
    <3>2. q \in Match
      BY <1>1, <1>2, <2>1 DEF Match
    <3> QED
      BY <3>1, <3>2
  <2>2. ASSUME t.nokA > t.nokB
        PROVE  \E q \in Match : seconds = {q} /\ q.a = t.a /\ q.b = posted /\ q.amount = t.nokA - t.nokB /\ q.id = n
    <3> DEFINE q == [id |-> n, a |-> t.a, b |-> posted, amount |-> t.nokA - t.nokB]
    <3>1. seconds = {q}
      BY <2>2 DEF IsSecond, IsInserted
    <3>2. q \in Match
      BY <1>1, <1>2, <2>2 DEF Match
    <3> QED
      BY <3>1, <3>2
  <2> QED
    BY <2>1, <2>2 DEF IsSecond, IsInserted
<1>6. \/ seconds = {} /\ t.nokA = t.nokB
      \/ \E q \in Match : /\ seconds = {q} /\ q.id = n /\ t.nokA # t.nokB
                          /\ {q.a, q.b} \subseteq {t.a, t.b, posted}
  <2>1. t.nokA = t.nokB \/ t.nokB > t.nokA \/ t.nokA > t.nokB
    BY <1>1
  <2> QED
    BY <1>1, <1>5, <2>1
<1>7. /\ firsts \subseteq Match /\ IsFiniteSet(firsts)
      /\ seconds \subseteq Match /\ IsFiniteSet(seconds)
  <2>1. firsts \subseteq Match /\ IsFiniteSet(firsts)
    <3>1. CASE t.nokA > 0 /\ t.nokB > 0
      <4>1. firsts = {r} /\ r \in Match
        BY <1>3, <3>1
      <4> QED
        BY <4>1, FS_Singleton
    <3>2. CASE ~(t.nokA > 0 /\ t.nokB > 0)
      BY <1>4, <3>2, FS_EmptySet
    <3> QED
      BY <3>1, <3>2
  <2>2. CASE seconds = {}
    BY <2>1, <2>2, FS_EmptySet
  <2>3. CASE \E q \in Match : seconds = {q}
    <3>1. PICK q \in Match : seconds = {q}
      BY <2>3
    <3> QED
      BY <2>1, <3>1, FS_Singleton
  <2> QED
    BY <1>6, <2>2, <2>3
<1>8. firsts \cup seconds \subseteq Match /\ IsFiniteSet(firsts \cup seconds)
  BY <1>7, FS_Union
<1>9. ASSUME NEW m \in firsts \cup seconds
      PROVE  /\ m.id \in (match_seq + 1)..(IF seconds = {} THEN n - 1 ELSE n)
             /\ {m.a, m.b} \subseteq {t.a, t.b, Len(entry) + 1}
             /\ (t.nokA # t.nokB \/ {m.a, m.b} \subseteq {t.a, t.b})
  <2>1. CASE m \in firsts
    <3>1. m.id = match_seq + 1 /\ m.a = t.a /\ m.b = t.b /\ n = match_seq + 2
      BY <1>3, <1>4, <2>1
    <3>2. m.id \in (match_seq + 1)..(n - 1) /\ m.id \in (match_seq + 1)..n
      BY <1>2, <3>1
    <3> QED
      BY <3>1, <3>2
  <2>2. CASE m \in seconds
    <3>1. PICK q \in Match : /\ seconds = {q} /\ q.id = n /\ t.nokA # t.nokB
                             /\ {q.a, q.b} \subseteq {t.a, t.b, posted}
      BY <1>6, <2>2
    <3> QED
      BY <1>2, <2>2, <3>1
  <2> QED
    BY <2>1, <2>2
<1>10. ASSUME t.nokA > 0, t.nokB > 0
       PROVE  /\ OneSettlement(firsts \cup seconds, c, t.a)
              /\ OneSettlement(firsts \cup seconds, c, t.b)
  <2>1. /\ r \in Match /\ r.id = match_seq + 1 /\ r.a = t.a /\ r.b = t.b /\ firsts = {r}
        /\ r.amount = (IF t.nokA <= t.nokB THEN t.nokA ELSE t.nokB) /\ c[r.id] = t.cents
    BY <1>3, <1>10 DEF IsInserted
  <2>2. r \notin seconds /\ (seconds = {} \/ \E q : seconds = {q} /\ c[q.id] = 0)
    BY <1>2, <1>3, <1>6, <1>10 DEF IsInserted
  <2> DEFINE a == t.a
             b == t.b
             nokA == t.nokA
             nokB == t.nokB
             k == t.cents
             more == {r} \cup seconds
  <2>3. /\ a # b /\ a # posted /\ b # posted /\ k \in Nat \ {0} /\ nokA \in Nat /\ nokB \in Nat
        /\ r.a = a /\ r.b = b /\ c[r.id] = k /\ r.amount = (IF nokA <= nokB THEN nokA ELSE nokB)
    BY <1>1, <1>2, <2>1
  <2>4. /\ nokA = nokB => seconds = {}
        /\ nokB > nokA => \E q : seconds = {q} /\ q.a = posted /\ q.b = b /\ q.amount = nokB - nokA
        /\ nokA > nokB => \E q : seconds = {q} /\ q.a = a /\ q.b = posted /\ q.amount = nokA - nokB
    BY <1>5
  <2>5. line[a].cents > 0 /\ ~(line[b].cents > 0)
    <3>1. line[b].cents \in Int /\ line[b].cents < 0 /\ line[a].cents > 0
      BY CurrencyPost DEF IsSettling
    <3> QED
      BY <3>1
  <2>6. /\ nokA = RoundDiv(k * Magnitude(entry[a].amount), Magnitude(line[a].cents))
        /\ nokB = RoundDiv(k * Magnitude(entry[b].amount), Magnitude(line[b].cents))
    BY <1>1
  <2>7. firsts \cup seconds = more /\ r \in more
    BY <2>1
  <2> HIDE DEF a, b, nokA, nokB, k, posted
  <2>8. matched(more, a) = nokA /\ matched(more, b) = -nokB
    <3>1. Splits(a, b, posted, nokA, nokB, r, seconds, more)
      BY <1>7, <2>1, <2>2, <2>3, <2>4 DEF Splits
    <3> HIDE DEF more
    <3> QED
      BY <3>1, SharesMatched
  <2>9. /\ Settles(more, c, a) = k /\ PartsOf(more, c, a) = {r}
        /\ Settles(more, c, b) = k /\ PartsOf(more, c, b) = {r}
    <3>1. OnBoth(a, b, c, k, r, seconds, more)
      <4>1. a # b /\ k \in Nat \ {0} /\ r \in Match /\ r.a = a /\ r.b = b /\ c[r.id] = k
        BY <2>1, <2>3
      <4>2. seconds \subseteq Match /\ r \notin seconds /\ (seconds = {} \/ \E q : seconds = {q} /\ c[q.id] = 0)
        BY <1>7, <2>2
      <4> QED
        BY <4>1, <4>2 DEF OnBoth
    <3> HIDE DEF more
    <3> QED
      BY <3>1, OneOnBoth
  <2> HIDE DEF more
  <2>10. OneSettlement(more, c, a)
    BY <2>3, <2>5, <2>6, <2>7, <2>8, <2>9 DEF OneSettlement
  <2>11. OneSettlement(more, c, b)
    BY <2>3, <2>5, <2>6, <2>7, <2>8, <2>9 DEF OneSettlement
  <2> QED
    BY <2>7, <2>10, <2>11 DEF a, b
<1> QED
  BY <1>8, <1>9, <1>10

LEMMA SettleInCurrencyDrifts ==
  ASSUME DriftInv, NEW s \in Session, SettleInCurrency(s)
  PROVE  DriftInv'
<1> DEFINE t == settling[s]
<1>1. Rowed
  BY DEF DriftInv
<1>2. /\ IsSettling(t)
      /\ IF t.nokA = t.nokB THEN UNCHANGED << entry, line >>
         ELSE /\ entry' = Append(entry, [konto |-> entry[t.a].konto, amount |-> t.nokB - t.nokA])
              /\ line' = Append(line, [currency |-> NoCurrency, cents |-> 0, day |-> 0])
      /\ disturbed' = IF t.nokA > 0 /\ t.nokB > 0 THEN disturbed ELSE disturbed \cup {t.a, t.b}
      /\ settling' = [settling EXCEPT ![s] = NotSettling] /\ UNCHANGED matching
  BY SettlementInserts
<1>3. PICK firsts, seconds :
        LET n == IF firsts = {} THEN match_seq + 1 ELSE match_seq + 2 IN
        /\ IsFirst(t, match_seq + 1, firsts) /\ IsSecond(t, n, Len(entry) + 1, seconds)
        /\ match' = match \cup (firsts \cup seconds)
        /\ match_seq' = IF seconds = {} THEN n - 1 ELSE n
        /\ rowCents' \in Seq(Nat) /\ Len(rowCents') = match_seq'
        /\ \A i \in 1..match_seq : rowCents'[i] = rowCents[i]
        /\ firsts # {} => rowCents'[match_seq + 1] = t.cents
        /\ seconds # {} => rowCents'[n] = 0
  BY SettlementInserts
<1> DEFINE n == IF firsts = {} THEN match_seq + 1 ELSE match_seq + 2
           more == firsts \cup seconds
           c == rowCents'
<1>4. n = (IF firsts = {} THEN match_seq + 1 ELSE match_seq + 2)
      /\ IsFirst(t, match_seq + 1, firsts) /\ IsSecond(t, n, Len(entry) + 1, seconds)
      /\ match' = match \cup more /\ match_seq' = (IF seconds = {} THEN n - 1 ELSE n)
      /\ rowCents' \in Seq(Nat) /\ Len(rowCents') = match_seq'
      /\ (\A i \in 1..match_seq : rowCents'[i] = rowCents[i])
      /\ (firsts # {} => c[match_seq + 1] = t.cents) /\ (seconds # {} => c[n] = 0)
  BY <1>3
<1> HIDE DEF t, n, c
<1>5. /\ more \subseteq Match /\ IsFiniteSet(more)
      /\ \A m \in more : /\ m.id \in (match_seq + 1)..match_seq'
                         /\ {m.a, m.b} \subseteq {t.a, t.b, Len(entry) + 1}
                         /\ (t.nokA # t.nokB \/ {m.a, m.b} \subseteq {t.a, t.b})
      /\ t.nokA > 0 /\ t.nokB > 0 => OneSettlement(more, c, t.a) /\ OneSettlement(more, c, t.b)
  <2>1. IsInserted(t, firsts, seconds, n, c)
    BY <1>4 DEF IsInserted
  <2>2. IsSettling(t)
    BY <1>2
  <2>3. /\ more \subseteq Match /\ IsFiniteSet(more)
        /\ \A m \in more : /\ m.id \in (match_seq + 1)..(IF seconds = {} THEN n - 1 ELSE n)
                           /\ {m.a, m.b} \subseteq {t.a, t.b, Len(entry) + 1}
                           /\ (t.nokA # t.nokB \/ {m.a, m.b} \subseteq {t.a, t.b})
        /\ t.nokA > 0 /\ t.nokB > 0 => OneSettlement(more, c, t.a) /\ OneSettlement(more, c, t.b)
    BY <1>1, <2>1, <2>2, SettlementRows
  <2>4. match_seq' = IF seconds = {} THEN n - 1 ELSE n
    BY <1>4
  <2> HIDE DEF more
  <2> QED
    BY <2>3, <2>4
<1> HIDE DEF more
<1>6. /\ t.nokA \in Nat /\ t.nokB \in Nat /\ t.a \in 1..Len(entry) /\ t.b \in 1..Len(entry) /\ entry[t.a].konto \in Konto
  BY <1>1, <1>2, SettlingSides
<1>7. /\ DOMAIN line = DOMAIN entry /\ DOMAIN entry = 1..Len(entry) /\ Len(entry) \in Nat /\ match_seq \in Nat
      /\ entry \in Seq(Entry) /\ line \in Seq(LineCurrency) /\ Len(line) = Len(entry)
  BY <1>1, RowsPriced DEF Rowed, Posts
<1>8. /\ entry' \in Seq(Entry) /\ line' \in Seq(LineCurrency) /\ Len(line') = Len(entry') /\ Len(entry) <= Len(entry')
      /\ t.nokA # t.nokB => Len(entry') = Len(entry) + 1
      /\ \A e \in DOMAIN entry : entry'[e] = entry[e] /\ line'[e] = line[e]
      /\ \A e \in DOMAIN entry' \ DOMAIN entry : line'[e].currency = NoCurrency
      /\ DOMAIN entry' = 1..Len(entry')
  <2>1. CASE t.nokA = t.nokB
    BY <1>2, <1>7, <2>1
  <2>2. CASE t.nokA # t.nokB
    <3> DEFINE new == [konto |-> entry[t.a].konto, amount |-> t.nokB - t.nokA]
               blank == [currency |-> NoCurrency, cents |-> 0, day |-> 0]
    <3>1. new \in Entry /\ blank \in LineCurrency /\ blank.currency = NoCurrency
      BY <1>6, <2>2 DEF Entry, LineCurrency
    <3>2. entry' = Append(entry, new) /\ line' = Append(line, blank)
      BY <1>2, <2>2
    <3> HIDE DEF new, blank
    <3>3. /\ entry' \in Seq(Entry) /\ Len(entry') = Len(entry) + 1 /\ entry'[Len(entry) + 1] = new
          /\ \A e \in 1..Len(entry) : entry'[e] = entry[e]
      BY <1>7, <3>1, <3>2
    <3>4. /\ line' \in Seq(LineCurrency) /\ Len(line') = Len(line) + 1 /\ line'[Len(line) + 1] = blank
          /\ \A e \in 1..Len(line) : line'[e] = line[e]
      BY <1>7, <3>1, <3>2
    <3>5. DOMAIN entry' = 1..(Len(entry) + 1)
      BY <3>3
    <3> QED
      BY <1>7, <3>1, <3>3, <3>4, <3>5
  <2> QED
    BY <2>1, <2>2
<1>9. \A m \in more : m.a \in DOMAIN entry' /\ m.b \in DOMAIN entry'
  <2> SUFFICES ASSUME NEW m \in more PROVE {m.a, m.b} \subseteq DOMAIN entry'
    OBVIOUS
  <2>1. {t.a, t.b} \subseteq DOMAIN entry' /\ (t.nokA # t.nokB => Len(entry) + 1 \in DOMAIN entry')
    <3>1. Len(entry') \in Nat
      BY <1>8
    <3> QED
      BY <1>6, <1>7, <1>8, <3>1
  <2> QED
    BY <1>5, <2>1
<1>10. match_seq' \in Nat /\ match_seq <= match_seq'
  BY <1>4, <1>7 DEF n
<1>11. disturbed \subseteq disturbed'
  BY <1>2
<1>12. Grows(more)
  BY <1>4, <1>5, <1>8, <1>9, <1>10, <1>11 DEF Grows
<1>13. Rowed' /\ Adds(more)
  BY <1>1, <1>12, GrowsAdds
<1>14. ASSUME NEW e \in DOMAIN entry \ disturbed', line[e].currency # NoCurrency
       PROVE  OneSettlement(more, rowCents', e) \/ NotAmong(more, e)
  <2>1. CASE e \in {t.a, t.b}
    BY <1>2, <1>5, <1>14, <2>1 DEF c
  <2>2. CASE e \notin {t.a, t.b}
    <3>1. e # Len(entry) + 1
      BY <1>7
    <3> QED
      BY <1>5, <2>2, <3>1 DEF NotAmong
  <2> QED
    BY <2>1, <2>2
<1>15. AllNear'
  BY <1>1, <1>13, <1>14, AddedStaysNear DEF DriftInv
<1>16. Matchings' /\ Settlings'
  <2>1. DOMAIN entry \subseteq DOMAIN entry'
    BY <1>7, <1>8
  <2> QED
    BY <1>2, <1>8, <2>1, MatchingsStay, SettlingsStay DEF DriftInv
<1> QED
  BY <1>13, <1>15, <1>16 DEF DriftInv

LEMMA StepDrifts == ASSUME DriftInv, [NextCurrency]_varsCurrency PROVE DriftInv'
<1>1. ASSUME NEW s \in Session, NEW a \in DOMAIN entry, NEW b \in DOMAIN entry, NEW cents \in 1..line[a].cents,
             ReadSettlement(s, a, b, cents)
      PROVE  DriftInv'
  BY <1>1, ReadSettlementDrifts
<1>2. ASSUME NEW s \in Session, SettleInCurrency(s) PROVE DriftInv'
  BY <1>2, SettleInCurrencyDrifts
<1>3. ASSUME NEW s \in Session, PrepareMatch(s) PROVE DriftInv'
  BY <1>3, PrepareMatchDrifts
<1>4. ASSUME NEW s \in Session, MatchInKroner(s) PROVE DriftInv'
  BY <1>4, MatchInKronerDrifts
<1>5. ASSUME NEW m \in match, UnmatchRow(m) PROVE DriftInv'
  BY <1>5, UnmatchRowDrifts
<1>6. ASSUME NEW s \in Session, \/ AbandonSettlement(s)
                                \/ \E day \in RegulationDay : ReadRevaluation(s, day)
                                \/ Kursregulering(s)
      PROVE  DriftInv'
  BY <1>6, NothingMoves
<1>7. ASSUME \/ \E r \in RateOffered : RegisterRate(r)
             \/ UNCHANGED varsCurrency
      PROVE  DriftInv'
  <2>1. UNCHANGED << entry, match, match_seq, line, rowCents, disturbed, matching, settling >>
    BY <1>7 DEF RegisterRate, varsCurrency, reskontroVars
  <2>2. Matchings' /\ Settlings'
    BY <2>1 DEF DriftInv, Matchings, IsMatching, Settlings, IsSettling, Share
  <2> QED
    BY <2>1, <2>2, RowsStay
<1> QED
  BY <1>1, <1>2, <1>3, <1>4, <1>5, <1>6, <1>7 DEF NextCurrency

(***************************************************************************)
(* However a post in another currency is cut up, by one settlement after   *)
(* another or by two read at once, what is left of it in kroner and what   *)
(* is left of it in cents are at most half an øre apart for each (db,      *)
(* match_valuta).                                                          *)
(***************************************************************************)
THEOREM DriftStaysRounding == SpecCurrency => []DriftIsRounding
<1>1. DriftInv => DriftIsRounding
  <2> SUFFICES ASSUME DriftInv PROVE DriftIsRounding
    OBVIOUS
  <2>1. Priced(match, rowCents)
    BY RowsPriced DEF DriftInv
  <2> QED
    BY <2>1, DriftIsNear DEF DriftInv
<1>2. InitCurrency => DriftInv
  BY InitDriftInv
<1>3. DriftInv /\ [NextCurrency]_varsCurrency => DriftInv'
  BY StepDrifts
<1> QED
  BY <1>1, <1>2, <1>3, PTL DEF SpecCurrency

=============================================================================
