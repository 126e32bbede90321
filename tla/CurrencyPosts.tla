---------------------------- MODULE CurrencyPosts ---------------------------
(***************************************************************************)
(* Open posts in another currency.  The books are in kroner and a line may *)
(* carry what the transaction was in; match_valuta settles two posts by    *)
(* their cents and posts the difference in kroner between them, and        *)
(* kursregulering revalues what is open and takes it back the day after.   *)
(***************************************************************************)
EXTENDS Reskontro, Money

CONSTANTS
    NoCurrency,
    CurrencyOf,     \* of each entry in Opening: currency, cents and day
    RateOffered,    \* rates people or Norges Bank can register: currency, from, value
    RegulationDay,  \* dates a revaluation is asked for
    MaxRegulation   \* bound: revaluations committed

LineCurrency == [currency : STRING \cup {NoCurrency}, cents : Int, day : Nat]

\* A line's cents have the sign of its kroner.
ASSUME CurrencyAssumption ==
    /\ CurrencyOf \in Seq(LineCurrency)
    /\ DOMAIN CurrencyOf = DOMAIN Opening
    /\ \A e \in DOMAIN Opening : CurrencyOf[e].currency # NoCurrency
          => Signum(CurrencyOf[e].cents) = Signum(Opening[e].amount)
    /\ \A r \in RateOffered : r.value > 0

VARIABLES
    line,           \* what each entry was in: currency, cents and day
    rowCents,       \* reskontro_match.valuta_cent of each row ever inserted, 0 for none
    settling,       \* what each session of match_valuta has read and worked out
    kurser,         \* rows of valutakurs
    regulating,     \* what each session of kursregulering has worked out
    regulated,      \* its vouchers, in pairs
    disturbed       \* entries matched in kroner, unmatched, or settled for a share of nothing

varsCurrency == << reskontroVars, line, rowCents, settling, kurser, regulating, regulated, disturbed >>

NotSettling == [a |-> 0, b |-> 0, cents |-> 0, nokA |-> 0, nokB |-> 0]
NotRegulating == [day |-> 0, diff |-> 0]

InitCurrency ==
    /\ InitReskontro
    /\ line = CurrencyOf
    /\ rowCents = << >>
    /\ settling = [s \in Session |-> NotSettling]
    /\ kurser = {}
    /\ regulating = [s \in Session |-> NotRegulating]
    /\ regulated = << >>
    /\ disturbed = {}

-----------------------------------------------------------------------------
CentsAsA(e) == MapThenSumSet(LAMBDA m : IF m.a = e THEN rowCents[m.id] ELSE 0, match)
CentsAsB(e) == MapThenSumSet(LAMBDA m : IF m.b = e THEN rowCents[m.id] ELSE 0, match)

\* What is open of an entry in its currency, with its sign.
restCents(e) ==
    LET settled == CentsAsA(e) + CentsAsB(e)
    IN IF line[e].cents >= 0 THEN line[e].cents - settled ELSE line[e].cents + settled

\* Faulty: cut off instead of rounded.
ShareCutOff(e, cents) == (cents * Magnitude(entry[e].amount)) \div Magnitude(line[e].cents)

\* The kroner a side gives up for so many cents, by its own booking.
Share(e, cents) ==
    RoundDiv(cents * Magnitude(entry[e].amount), Magnitude(line[e].cents))

\* match_valuta up to its transaction.
ReadSettlement(s, a, b, cents) ==
    /\ settling[s] = NotSettling
    /\ cents > 0
    /\ entry[a].konto = entry[b].konto
    /\ line[a].currency # NoCurrency
    /\ line[a].currency = line[b].currency
    /\ line[a].cents > 0 /\ line[b].cents < 0
    /\ cents <= line[a].cents - CentsAsA(a)
    /\ cents <= -line[b].cents - CentsAsB(b)
    /\ settling' = [settling EXCEPT ![s] =
          [a |-> a, b |-> b, cents |-> cents, nokA |-> Share(a, cents), nokB |-> Share(b, cents)]]
    /\ UNCHANGED << reskontroVars, line, rowCents, kurser, regulating, regulated, disturbed >>

\* The match, the voucher of the difference, and the match that closes its line.
SettleInCurrency(s) ==
    LET t == settling[s]
        agio == t.nokB - t.nokA
        shared == Min({t.nokA, t.nokB})
        first == IF shared > 0 THEN << [a |-> t.a, b |-> t.b, amount |-> shared] >> ELSE << >>
        posted == Len(entry) + 1
        second == CASE agio > 0 -> << [a |-> posted, b |-> t.b, amount |-> agio] >>
                    [] agio < 0 -> << [a |-> t.a, b |-> posted, amount |-> -agio] >>
                    [] OTHER    -> << >>
        rows == first \o second
    IN
    /\ t # NotSettling
    /\ match_seq + Len(rows) <= MaxMatch
    /\ match' = match \cup {[id |-> match_seq + i, a |-> rows[i].a, b |-> rows[i].b,
                             amount |-> rows[i].amount] : i \in DOMAIN rows}
    /\ match_seq' = match_seq + Len(rows)
    /\ rowCents' = rowCents \o [i \in DOMAIN rows |-> IF i <= Len(first) THEN t.cents ELSE 0]
    /\ IF agio = 0 THEN UNCHANGED << entry, line >>
       ELSE /\ entry' = Append(entry, [konto |-> entry[t.a].konto, amount |-> agio])
            /\ line' = Append(line, [currency |-> NoCurrency, cents |-> 0, day |-> 0])
    \* Where one side's share is nothing, no row remembers the cents.
    /\ disturbed' = IF shared > 0 THEN disturbed ELSE disturbed \cup {t.a, t.b}
    /\ settling' = [settling EXCEPT ![s] = NotSettling]
    /\ UNCHANGED << matching, kurser, regulating, regulated >>

\* The voucher is refused, or the connection drops.
AbandonSettlement(s) ==
    /\ settling[s] # NotSettling
    /\ settling' = [settling EXCEPT ![s] = NotSettling]
    /\ UNCHANGED << reskontroVars, line, rowCents, kurser, regulating, regulated, disturbed >>

\* The same posts may be matched in kroner, and rows taken away again.
MatchInKroner(s) ==
    /\ matching[s] # NoMatching
    /\ InsertMatch(s)
    /\ rowCents' = Append(rowCents, 0)
    /\ disturbed' = disturbed \cup {matching[s].a, matching[s].b}
    /\ UNCHANGED << line, settling, kurser, regulating, regulated >>

UnmatchRow(m) ==
    /\ Unmatch(m)
    /\ disturbed' = disturbed \cup {m.a, m.b}
    /\ UNCHANGED << line, rowCents, settling, kurser, regulating, regulated >>

PrepareMatch(s) ==
    /\ \/ \E a, b \in DOMAIN entry : \E amount \in 1 .. entry[a].amount : CheckMatch(s, a, b, amount)
       \/ AbandonMatch(s)
    /\ UNCHANGED << line, rowCents, settling, kurser, regulating, regulated, disturbed >>

-----------------------------------------------------------------------------
\* insert_exchange_rate: the first rate of a day stands.
RegisterRate(r) ==
    /\ \A k \in kurser : k.currency # r.currency \/ k.from # r.from
    /\ kurser' = kurser \cup {r}
    /\ UNCHANGED << reskontroVars, line, rowCents, settling, regulating, regulated, disturbed >>

RatesIn(currency) == {k \in kurser : k.currency = currency}

\* Open at the date: posted by then, and in kroner not settled yet.
OpenAt(day) == {e \in DOMAIN line : line[e].currency # NoCurrency /\ line[e].day <= day /\ remaining(e) # 0}
Revaluation(day) ==
    MapThenSumSet(LAMBDA e : NokOre(restCents(e), RateOn(RatesIn(line[e].currency), day)) - remaining(e),
                  OpenAt(day))

\* kursregulering up to its transaction: a currency without a rate stops it.
ReadRevaluation(s, day) ==
    /\ regulating[s] = NotRegulating
    /\ Len(regulated) < 2 * MaxRegulation
    /\ \A e \in OpenAt(day) : HasRate(RatesIn(line[e].currency), day)
    /\ Revaluation(day) # 0
    /\ regulating' = [regulating EXCEPT ![s] = [day |-> day, diff |-> Revaluation(day)]]
    /\ UNCHANGED << reskontroVars, line, rowCents, settling, kurser, regulated, disturbed >>

\* Both vouchers in one transaction; nothing asks whether the date was revalued before.
Kursregulering(s) ==
    LET r == regulating[s] IN
    /\ r # NotRegulating
    /\ regulated' = regulated \o << [day |-> r.day, amount |-> r.diff],
                                    [day |-> r.day + 1, amount |-> -r.diff] >>
    /\ regulating' = [regulating EXCEPT ![s] = NotRegulating]
    /\ UNCHANGED << reskontroVars, line, rowCents, settling, kurser, disturbed >>

NextCurrency ==
    \/ \E s \in Session :
         \/ \E a, b \in DOMAIN entry : \E cents \in 1 .. line[a].cents : ReadSettlement(s, a, b, cents)
         \/ SettleInCurrency(s)
         \/ AbandonSettlement(s)
         \/ PrepareMatch(s)
         \/ MatchInKroner(s)
         \/ \E day \in RegulationDay : ReadRevaluation(s, day)
         \/ Kursregulering(s)
    \/ \E m \in match : UnmatchRow(m)
    \/ \E r \in RateOffered : RegisterRate(r)

SpecCurrency == InitCurrency /\ [][NextCurrency]_varsCurrency

-----------------------------------------------------------------------------
TypeOKCurrency ==
    /\ TypeOKReskontro
    /\ Len(line) = Len(entry)
    /\ Len(rowCents) = match_seq
    /\ kurser \subseteq RateOffered
    /\ \A i \in DOMAIN regulated : regulated[i].amount # 0
    /\ disturbed \subseteq DOMAIN entry

\* The settlements in cents an entry has taken part in.
Parts(e) == {m \in match : e \in {m.a, m.b} /\ rowCents[m.id] > 0}

(***************************************************************************)
(* What is left of a post in kroner follows what is left of it in cents:   *)
(* each settlement puts them at most half an øre apart, however the posts  *)
(* are cut up and whatever the rates.  A post settled at once reaches zero *)
(* in both; one settled in parts may keep, or be overdrawn by, some øre.   *)
(* It is stated of posts settled by match_valuta alone, two requests at    *)
(* once or one after the other.                                            *)
(***************************************************************************)
DriftIsRounding ==
    \A e \in DOMAIN line \ disturbed : line[e].currency # NoCurrency =>
        LET C == Magnitude(line[e].cents)
            drift == remaining(e) * line[e].cents - restCents(e) * entry[e].amount
        IN 2 * Magnitude(drift) <= Cardinality(Parts(e)) * C

=============================================================================
