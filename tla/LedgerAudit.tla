----------------------------- MODULE LedgerAudit ----------------------------
(***************************************************************************)
(* How the ledger is checked: verify_chain walks the hash chain while      *)
(* others post, and anchor snapshots freeze the head so that a history     *)
(* rewritten together with its hashes is found out (docs/ledger.md, the    *)
(* trust model).  The rows of a voucher change only outside the            *)
(* application: triggers forbid it there.                                  *)
(***************************************************************************)
EXTENDS Ledger, FiniteSets

CONSTANT MaxAnchors     \* bound: anchor snapshots taken

ASSUME AnchorAssumption == MaxAnchors \in Nat

VARIABLES
    anchor_leaf,    \* heads frozen by snapshots
    audit,          \* the run of verify_chain: its verdict and the rows it read
    tampered        \* ghost: rows were changed outside the application

auditVars == << vars, anchor_leaf, audit, tampered >>
ledgerVars == vars

InitAudit ==
    /\ Init
    /\ anchor_leaf = {}
    /\ audit = [verdict |-> "none", rows |-> {}]
    /\ tampered = FALSE

-----------------------------------------------------------------------------
(***************************************************************************)
(* Anchoring.                                                              *)
(***************************************************************************)

\* Faulty: reads what a posting transaction has not committed.
UncommittedSnapshot ==
    /\ Cardinality(anchor_leaf) < MaxAnchors
    /\ \E s \in Session : /\ session[s].pc = "written"
                          /\ anchor_leaf' = anchor_leaf \cup {session[s].head}
    /\ UNCHANGED << ledgerVars, audit, tampered >>

\* create_anchor_snapshot: one statement reads the committed heads, and they are
\* what the transaction stores; an empty chain has no leaf.
AnchorSnapshot ==
    /\ chain_head.last_seq > 0
    /\ Cardinality(anchor_leaf) < MaxAnchors
    /\ anchor_leaf' = anchor_leaf \cup {chain_head}
    /\ UNCHANGED << ledgerVars, audit, tampered >>

\* verify_company_anchors for one leaf.
AnchorMatches(leaf) ==
    \E v \in voucher : seq_of(v) = leaf.last_seq /\ v.hash = leaf.last_hash

-----------------------------------------------------------------------------
(***************************************************************************)
(* verify_chain.                                                           *)
(***************************************************************************)
Last(rows) == CHOOSE u \in rows : \A w \in rows : seq_of(w) <= seq_of(u)
Before(rows, v) == {u \in rows : seq_of(u) < seq_of(v)}

\* Faulty: every voucher is compared with the first one.
WalkedFromFirst(rows, v) ==
    IF Before(rows, v) = {} THEN GENESIS_HASH
    ELSE (CHOOSE u \in rows : \A w \in rows : seq_of(u) <= seq_of(w)).hash

\* The hash the walk carries when it comes to v.
WalkedTo(rows, v) ==
    IF Before(rows, v) = {} THEN GENESIS_HASH ELSE Last(Before(rows, v)).hash

\* Faulty: follows the links and hashes nothing again.
LinksOnly(rows) == \A v \in rows : v.prev_hash = WalkedTo(rows, v)

WalkPasses(rows) ==
    \A v \in rows : /\ v.prev_hash = WalkedTo(rows, v)
                    /\ v.hash = chain_hash(WalkedTo(rows, v), v.content)

\* The first statement reads all vouchers in the order of chain_seq.
VerifyWalk ==
    /\ audit.verdict = "none"
    /\ audit' = [verdict |-> IF WalkPasses(voucher) THEN "walking" ELSE "broken",
                 rows |-> voucher]
    /\ UNCHANGED << ledgerVars, anchor_leaf, tampered >>

HeadMatches(rows) ==
    /\ chain_head.last_seq = Cardinality(rows)
    /\ chain_head.last_hash = IF rows = {} THEN GENESIS_HASH ELSE Last(rows).hash

\* The last statement reads the head, as it is by then.
VerifyHead ==
    /\ audit.verdict = "walking"
    /\ audit' = [audit EXCEPT !.verdict = IF HeadMatches(audit.rows) THEN "ok" ELSE "broken"]
    /\ UNCHANGED << ledgerVars, anchor_leaf, tampered >>

-----------------------------------------------------------------------------
(***************************************************************************)
(* Rows changed outside the application.  One such change is enough to     *)
(* tell the checks apart.                                                  *)
(***************************************************************************)
Dated(v, d) == [v.content EXCEPT !.voucher_date = d]

\* The content of a row changes and nothing else, or the row goes.
EditRow ==
    /\ ~tampered
    /\ \E v \in voucher, d \in Date :
         \/ voucher' = voucher \ {v}
         \/ d # v.content.voucher_date
            /\ voucher' = (voucher \ {v}) \cup {[v EXCEPT !.content = Dated(v, d)]}
    /\ tampered' = TRUE
    /\ UNCHANGED << chain_head, voucher_counter, period_lock, arsavslutning,
                    head_lock, clock, session, anchor_leaf, audit >>

\* A voucher changes and every hash from it to the head is computed afresh; the
\* update of the head waits for the session that holds it.
RewriteHistory ==
    /\ ~tampered
    /\ head_lock = NoSession
    /\ \E v \in voucher, d \in Date :
         LET content(u) == IF u = v THEN Dated(v, d) ELSE u.content
             at(i) == CHOOSE u \in voucher : seq_of(u) = i
             prefix(n) == [i \in 1 .. n |-> content(at(i))]
         IN  /\ d # v.content.voucher_date
             /\ voucher' = {[content |-> content(u),
                             prev_hash |-> prefix(seq_of(u) - 1),
                             hash |-> prefix(seq_of(u))] : u \in voucher}
             /\ chain_head' = [chain_head EXCEPT !.last_hash = prefix(chain_head.last_seq)]
    /\ tampered' = TRUE
    /\ UNCHANGED << voucher_counter, period_lock, arsavslutning, head_lock, clock,
                    session, anchor_leaf, audit >>

NextAudit ==
    \/ Next /\ UNCHANGED << anchor_leaf, audit, tampered >>
    \/ AnchorSnapshot
    \/ VerifyWalk
    \/ VerifyHead
    \/ EditRow
    \/ RewriteHistory

SpecAudit == InitAudit /\ [][NextAudit]_auditVars

-----------------------------------------------------------------------------
(***************************************************************************)
(* Properties.                                                             *)
(***************************************************************************)
\* Row number of v among rows, in the order of chain_seq.
Rank(rows, v) == Cardinality(Before(rows, v)) + 1

\* While only the application writes, every anchor ever taken still matches: a
\* snapshot never freezes a head that a rollback takes back (anchor.rs:4-5).
AnchorsHold == ~tampered => \A leaf \in anchor_leaf : AnchorMatches(leaf)

\* verify_chain calls an honest ledger broken only when a posting committed
\* between its first statement and its last (ledger.rs:485-594).
AlarmOnlyWhenOvertaken ==
    audit.verdict = "broken" /\ ~tampered => chain_head.last_seq > Cardinality(audit.rows)

\* What verify_chain passes is as it was hashed: each content is the one its own
\* hash and every later hash were computed from, so that a row edited or deleted
\* without a rehash never passes.
PassedIsAsHashed ==
    audit.verdict = "ok" =>
      \A u, v \in audit.rows : seq_of(u) <= seq_of(v) =>
         /\ Len(v.hash) = Rank(audit.rows, v)
         /\ v.hash[Rank(audit.rows, u)] = u.content

\* When the chain walks and every anchor matches, nothing below an anchor was
\* changed since it was taken, not even with its hashes (docs/ledger.md,
\* anchoring): the anchored hash is the history of its day.
AnchoredHistoryIsFixed ==
    WalkPasses(voucher) /\ (\A leaf \in anchor_leaf : AnchorMatches(leaf)) =>
      \A leaf \in anchor_leaf, v \in voucher :
         seq_of(v) <= leaf.last_seq => v.content = leaf.last_hash[Rank(voucher, v)]

\* An anchor accuses nobody who is honest and hides nothing that was changed below it.
AnchorsTell == AnchorsHold /\ AnchoredHistoryIsFixed

=============================================================================
