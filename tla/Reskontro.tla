------------------------------ MODULE Reskontro -----------------------------
(***************************************************************************)
(* Open posts (åpne poster): the entries of a party's account and the      *)
(* match rows that settle them against each other.  What is open is never  *)
(* stored; it is computed from the rows whenever it is asked for, and      *)
(* match_items asks and inserts in two statements with nothing around them.*)
(***************************************************************************)
EXTENDS Integers, Sequences, FiniteSetsExt

CONSTANTS
    Session,        \* requests the server works on at once
    Konto,          \* a party together with its reskontro account
    Opening,        \* the entries the model begins with
    MaxMatch        \* bound: match rows ever inserted

Entry == [konto : Konto, amount : Int \ {0}]

ASSUME OpeningAssumption == Opening \in Seq(Entry)
ASSUME MatchBoundAssumption == MaxMatch \in Nat

VARIABLES
    entry,          \* ledger entries that carry a party; ids are positions
    match,          \* rows of reskontro_match
    match_seq,      \* rows of reskontro_match ever inserted
    matching        \* what each session of match_items is about to insert

reskontroVars == << entry, match, match_seq, matching >>

Match == [id : Nat, a : Nat, b : Nat, amount : Nat \ {0}]
NoMatching == [a |-> 0, b |-> 0, amount |-> 0]

\* The signed sum matched against entry e.
matched(rows, e) ==
    MapThenSumSet(LAMBDA m : IF m.a = e THEN m.amount ELSE 0, rows)
    - MapThenSumSet(LAMBDA m : IF m.b = e THEN m.amount ELSE 0, rows)

remaining(e) == entry[e].amount - matched(match, e)

InitReskontro ==
    /\ entry = Opening
    /\ match = {}
    /\ match_seq = 0
    /\ matching = [s \in Session |-> NoMatching]

-----------------------------------------------------------------------------
\* match_items up to its insert: a is the debit side, b the credit side.
CheckMatch(s, a, b, amount) ==
    /\ matching[s] = NoMatching
    /\ amount > 0
    /\ entry[a].konto = entry[b].konto
    /\ remaining(a) >= amount
    /\ -remaining(b) >= amount
    /\ matching' = [matching EXCEPT ![s] = [a |-> a, b |-> b, amount |-> amount]]
    /\ UNCHANGED << entry, match, match_seq >>

InsertMatch(s) ==
    LET m == matching[s] IN
    /\ m # NoMatching
    /\ match_seq < MaxMatch
    /\ match' = match \cup {[id |-> match_seq + 1, a |-> m.a, b |-> m.b, amount |-> m.amount]}
    /\ match_seq' = match_seq + 1
    /\ matching' = [matching EXCEPT ![s] = NoMatching]
    /\ UNCHANGED entry

\* The connection drops between the two statements.
AbandonMatch(s) ==
    /\ matching[s] # NoMatching
    /\ matching' = [matching EXCEPT ![s] = NoMatching]
    /\ UNCHANGED << entry, match, match_seq >>

\* unmatch_items: one delete.
Unmatch(m) ==
    /\ match' = match \ {m}
    /\ UNCHANGED << entry, match_seq, matching >>

NextReskontro ==
    \/ \E s \in Session :
         \/ \E a, b \in DOMAIN entry :
              \E amount \in 1 .. entry[a].amount : CheckMatch(s, a, b, amount)
         \/ InsertMatch(s)
         \/ AbandonMatch(s)
    \/ \E m \in match : Unmatch(m)

-----------------------------------------------------------------------------
TypeOKReskontro ==
    /\ entry \in Seq(Entry)
    /\ match \subseteq Match
    /\ match_seq \in Nat
    /\ \A s \in Session : matching[s] = NoMatching \/ matching[s].amount > 0

\* An entry is settled beyond its own amount, or to the wrong side.
Overmatched(e) ==
    \/ entry[e].amount > 0 /\ remaining(e) \notin 0 .. entry[e].amount
    \/ entry[e].amount < 0 /\ remaining(e) \notin entry[e].amount .. 0

=============================================================================
