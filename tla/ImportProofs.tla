---------------------------- MODULE ImportProofs ----------------------------
(***************************************************************************)
(* What comes in from outside, for every value of the constants: the lines *)
(* of a bank statement and the vouchers a run of the engine proposes for   *)
(* them (module Bank), and the books of another system (Migration).        *)
(***************************************************************************)
EXTENDS Bank, Migration, FiniteSums, TLAPS

(***************************************************************************)
(* The bank.                                                               *)
(***************************************************************************)
StatementRef == {s.ref : s \in Statement}
BankLine == [statement : StatementRef, day : Int, amount : Int \ {0}]
Importing == [pc : {"idle", "lines", "entries", "insert"}, account : BankAccount \cup {""},
              tx : SUBSET Nat, todo : Seq([tx : Nat, entry : Nat])]

\* The two tables grow at their ends; a statement is known by one row.
Booked ==
    /\ bankEntry \in Seq(BankPosting)
    /\ bankTx \in Seq(BankLine)
    /\ \A a, b \in imported : a.ref = b.ref => a = b
    /\ \A t \in DOMAIN bankTx : \E s \in imported : s.ref = bankTx[t].statement

\* What a run of the engine read was of one account, and it paired what it read.
Placed(run) ==
    /\ run.tx \subseteq DOMAIN bankTx /\ run.entries \subseteq DOMAIN bankEntry
    /\ run.proposals \in Seq([tx : run.tx, entry : run.entries])
    /\ \A t \in run.tx, e \in run.entries : AccountOf(t) = bankEntry[e].account

\* Every other entry at least as near as the one proposed went to another line.
Unrivalled(run, q) ==
    /\ Agrees(q.tx, q.entry)
    /\ \A e \in run.entries \ {q.entry} :
          Agrees(q.tx, e) /\ Distance(q.tx, e) <= Distance(q.tx, q.entry) => TakenIn(run, e, q.tx)

\* A line that was passed over had no candidate left to itself.
Unclear(run, t) ==
    \A e \in run.entries : Agrees(t, e) => \/ TakenIn(run, e, t)
                                           \/ \E f \in run.entries \ {e} : Agrees(t, f)

ClearRun(run) ==
    /\ \A q \in Pairs(run) : Unrivalled(run, q)
    /\ \A t \in run.tx \ {q.tx : q \in Pairs(run)} : Unclear(run, t)

\* An import that has read its lines has those of its account; what it inserts, a run proposed.
Underway(i) ==
    /\ i.pc = "entries" => i.tx \subseteq DOMAIN bankTx /\ \A t \in i.tx : AccountOf(t) = i.account
    /\ i.pc = "insert" => \E run \in engineRuns : i.todo \in Seq(Pairs(run))

Proposal(m) == \E run \in engineRuns : [tx |-> m.tx, entry |-> m.entry] \in Pairs(run)

BankInv ==
    /\ Booked
    /\ importing \in [Person -> Importing]
    /\ \A p \in Person : Underway(importing[p])
    /\ \A run \in engineRuns : Placed(run) /\ ClearRun(run)
    /\ \A m \in bankMatch : m.method = "auto" => Proposal(m)

-----------------------------------------------------------------------------
\* Lines are ordered by date, amount and id, so a last one there is.
LEMMA LastLineIn ==
  ASSUME Booked, NEW s, s \subseteq DOMAIN bankTx, s # {}
  PROVE  LastLine(s) \in s
<1> DEFINE days(r) == {bankTx[t].day : t \in r}
           amounts(r) == {bankTx[t].amount : t \in r}
<1>1. /\ IsFiniteSet(DOMAIN bankTx)
      /\ \A t \in DOMAIN bankTx : t \in Int /\ bankTx[t].day \in Int /\ bankTx[t].amount \in Int
  <2>1. DOMAIN bankTx = 1..Len(bankTx) /\ Len(bankTx) \in Nat
    BY DEF Booked
  <2>2. IsFiniteSet(1..Len(bankTx))
    BY <2>1, FS_Interval
  <2>3. \A t \in DOMAIN bankTx : bankTx[t] \in BankLine
    BY DEF Booked
  <2> QED
    BY <2>1, <2>2, <2>3 DEF BankLine
<1>2. ASSUME NEW r, r \subseteq DOMAIN bankTx, r # {}
      PROVE  /\ IsFiniteSet(r) /\ WholeNumbers(r)
             /\ IsFiniteSet(days(r)) /\ WholeNumbers(days(r))
             /\ IsFiniteSet(amounts(r)) /\ WholeNumbers(amounts(r))
  <2>1. IsFiniteSet(r)
    BY <1>1, <1>2, FS_Subset
  <2> DEFINE day == [t \in r |-> bankTx[t].day]
             amount == [t \in r |-> bankTx[t].amount]
  <2>2. IsFiniteSet(days(r))
    <3>1. \A y \in days(r) : \E t \in r : y = day[t]
      OBVIOUS
    <3> HIDE DEF days, day
    <3> QED
      BY <2>1, <3>1, FiniteImage
  <2>3. IsFiniteSet(amounts(r))
    <3>1. \A y \in amounts(r) : \E t \in r : y = amount[t]
      OBVIOUS
    <3> HIDE DEF amounts, amount
    <3> QED
      BY <2>1, <3>1, FiniteImage
  <2> QED
    BY <1>1, <1>2, <2>1, <2>2, <2>3 DEF WholeNumbers
<1>3. PICK d \in days(s) : \A x \in days(s) : d >= x
  <2> HIDE DEF days
  <2> QED
    BY <1>2, HasGreatest
<1> DEFINE s1 == {t \in s : bankTx[t].day = d}
<1>4. s1 \subseteq DOMAIN bankTx /\ s1 # {}
  BY <1>3
<1>5. PICK a \in amounts(s1) : \A x \in amounts(s1) : a >= x
  <2> HIDE DEF amounts, s1
  <2> QED
    BY <1>2, <1>4, HasGreatest
<1> DEFINE s2 == {t \in s1 : bankTx[t].amount = a}
<1>6. s2 \subseteq DOMAIN bankTx /\ s2 # {}
  BY <1>4, <1>5
<1>7. PICK t \in s2 : \A x \in s2 : t >= x
  <2> HIDE DEF s2
  <2> QED
    BY <1>2, <1>6, HasGreatest
<1>8. ASSUME NEW u \in s \ {t} PROVE EarlierLine(u, t)
  <2>1. /\ bankTx[t].day = d /\ bankTx[t].amount = a /\ t \in Int
        /\ d \in Int /\ a \in Int
    BY <1>1, <1>4, <1>6, <1>7
  <2>2. u \in Int /\ bankTx[u].day \in Int /\ bankTx[u].amount \in Int /\ bankTx[u].day <= d
    BY <1>1, <1>3, <2>1
  <2>3. bankTx[u].day = d => bankTx[u].amount <= a
    BY <1>5, <2>1, <2>2
  <2>4. bankTx[u].day = d /\ bankTx[u].amount = a => u <= t
    BY <1>7, <2>1, <2>2
  <2> QED
    BY <2>1, <2>2, <2>3, <2>4 DEF EarlierLine
<1>9. t \in s /\ \A u \in s \ {t} : EarlierLine(u, t)
  BY <1>7, <1>8
<1> QED
  BY <1>9 DEF LastLine

\* Among finitely many candidates there is a nearest one; one alone is picked only when nearest.
LEMMA NearestIs ==
  ASSUME Booked, BankAssumption, NEW t \in DOMAIN bankTx, NEW free, free \subseteq DOMAIN bankEntry
  PROVE  /\ IsFiniteSet(Nearest(t, free))
         /\ Nearest(t, free) = {} => \A e \in free : ~ Agrees(t, e)
         /\ Cardinality(Nearest(t, free)) = 1 =>
               /\ Min(Nearest(t, free)) \in free /\ Agrees(t, Min(Nearest(t, free)))
               /\ \A f \in free : Agrees(t, f) /\ Distance(t, f) <= Distance(t, Min(Nearest(t, free)))
                                     => f = Min(Nearest(t, free))
<1> DEFINE near == {e \in free : Agrees(t, e)}
           best == {e \in near : \A f \in near : Distance(t, e) <= Distance(t, f)}
           far == {Distance(t, e) : e \in near}
<1>1. Nearest(t, free) = best
  BY DEF Nearest
<1>2. /\ IsFiniteSet(DOMAIN bankEntry)
      /\ \A e \in DOMAIN bankEntry : e \in Int /\ Distance(t, e) \in Int
  <2>1. DOMAIN bankEntry = 1..Len(bankEntry) /\ Len(bankEntry) \in Nat
    BY DEF Booked
  <2>2. IsFiniteSet(1..Len(bankEntry))
    BY <2>1, FS_Interval
  <2>3. \A e \in DOMAIN bankEntry : bankEntry[e].day \in Int
    <3>1. \A e \in DOMAIN bankEntry : bankEntry[e] \in BankPosting
      BY DEF Booked
    <3> QED
      BY <3>1 DEF BankAssumption
  <2>4. bankTx[t].day \in Int
    <3>1. bankTx[t] \in BankLine
      BY DEF Booked
    <3> QED
      BY <3>1 DEF BankLine
  <2>5. \A e \in DOMAIN bankEntry : Distance(t, e) \in Int
    BY <2>3, <2>4 DEF Distance
  <2> QED
    BY <2>1, <2>2, <2>5
<1>3. IsFiniteSet(near) /\ IsFiniteSet(best)
  <2>1. near \subseteq DOMAIN bankEntry /\ best \subseteq DOMAIN bankEntry
    OBVIOUS
  <2> QED
    BY <1>2, <2>1, FS_Subset
<1>4. ASSUME near # {} PROVE best # {}
  <2>1. IsFiniteSet(far) /\ WholeNumbers(far)
    <3>1. IsFiniteSet(far)
      <4> DEFINE off == [e \in near |-> Distance(t, e)]
      <4>1. \A y \in far : \E e \in near : y = off[e]
        OBVIOUS
      <4> HIDE DEF near, far, off
      <4> QED
        BY <1>3, <4>1, FiniteImage
    <3> QED
      BY <1>2, <1>4, <3>1 DEF WholeNumbers
  <2>2. PICK x \in far : \A y \in far : x <= y
    <3> HIDE DEF far
    <3> QED
      BY <2>1, HasLeast
  <2> QED
    BY <2>2
<1>5. ASSUME Cardinality(best) = 1
      PROVE  /\ Min(best) \in best
             /\ \A f \in best : f = Min(best)
  <2>1. PICK x : best = {x}
    <3> HIDE DEF best
    <3> QED
      BY <1>3, <1>5, FS_Singleton
  <2>2. x \in Int
    BY <1>2, <2>1
  <2>3. Min({x}) = x
    BY <2>2 DEF Min
  <2> HIDE DEF best
  <2> QED
    BY <2>1, <2>3
<1>6. ASSUME NEW x \in best, NEW f \in free, Agrees(t, f), Distance(t, f) <= Distance(t, x)
      PROVE  f \in best
  <2>1. \A g \in near : Distance(t, x) <= Distance(t, g) /\ Distance(t, g) \in Int
    BY <1>2
  <2>2. f \in near /\ Distance(t, f) \in Int /\ Distance(t, x) \in Int
    BY <1>2, <1>6
  <2>3. \A g \in near : Distance(t, f) <= Distance(t, g)
    <3> HIDE DEF near
    <3> QED
      BY <1>6, <2>1, <2>2
  <2> QED
    BY <2>2, <2>3
<1>7. best \subseteq near /\ near \subseteq free /\ \A e \in near : Agrees(t, e)
  OBVIOUS
<1>8. \A e \in free : Agrees(t, e) => e \in near
  OBVIOUS
<1> HIDE DEF best, near
<1> QED
  BY <1>1, <1>3, <1>4, <1>5, <1>6, <1>7, <1>8

-----------------------------------------------------------------------------
NextPair(t, entries, done) ==
    LET best == Nearest(t, entries \ Proposed(done)) IN
    IF Cardinality(best) = 1 THEN Append(done, [tx |-> t, entry |-> Min(best)]) ELSE done

Done(lines, entries) == Seq([tx : lines, entry : entries])

\* A line is passed over, or it takes an entry that nobody has, nearer than all others nobody has.
PassesOver(t, entries, done) ==
    /\ NextPair(t, entries, done) = done
    /\ \A e \in entries \ Proposed(done) : Agrees(t, e) => \E f \in entries \ {e} : Agrees(t, f)

Takes(t, entries, done, e) ==
    /\ NextPair(t, entries, done) = Append(done, [tx |-> t, entry |-> e])
    /\ Agrees(t, e)
    /\ \A f \in entries \ Proposed(done) :
          Agrees(t, f) /\ Distance(t, f) <= Distance(t, e) => f = e

PairsOrNot(t, entries, done) ==
    \/ PassesOver(t, entries, done)
    \/ \E e \in entries \ Proposed(done) : Takes(t, entries, done, e)

LEMMA NextPairIs ==
  ASSUME Booked, BankAssumption, NEW t \in DOMAIN bankTx,
         NEW entries, entries \subseteq DOMAIN bankEntry, NEW done
  PROVE  PairsOrNot(t, entries, done)
<1> DEFINE free == entries \ Proposed(done)
           best == Nearest(t, free)
<1>1. free \subseteq DOMAIN bankEntry
  OBVIOUS
<1> HIDE DEF free
<1>2. /\ IsFiniteSet(best)
      /\ best = {} => \A e \in free : ~ Agrees(t, e)
      /\ Cardinality(best) = 1 =>
            /\ Min(best) \in free /\ Agrees(t, Min(best))
            /\ \A f \in free : Agrees(t, f) /\ Distance(t, f) <= Distance(t, Min(best)) => f = Min(best)
  BY <1>1, NearestIs
<1>3. \A e \in best : e \in free /\ Agrees(t, e)
  BY DEF Nearest
<1>4. NextPair(t, entries, done) = IF Cardinality(best) = 1 THEN Append(done, [tx |-> t, entry |-> Min(best)])
                                   ELSE done
  BY DEF NextPair, free
<1> HIDE DEF best
<1>5. CASE Cardinality(best) = 1
  <2>1. Min(best) \in entries \ Proposed(done) /\ Takes(t, entries, done, Min(best))
    BY <1>2, <1>4, <1>5 DEF free, Takes
  <2> QED
    BY <2>1 DEF PairsOrNot
<1>6. CASE Cardinality(best) # 1
  <2>1. NextPair(t, entries, done) = done
    BY <1>4, <1>6
  <2>2. ASSUME NEW e \in free, Agrees(t, e)
        PROVE  \E f \in entries \ {e} : Agrees(t, f)
    <3>1. best # {}
      BY <1>2, <2>2
    <3>2. best # {e}
      <4>1. Cardinality({e}) = 1
        BY FS_Singleton
      <4> QED
        BY <1>6, <4>1
    <3>3. PICK f \in best : f # e
      BY <3>1, <3>2
    <3> QED
      BY <1>3, <3>3 DEF free
  <2> QED
    BY <2>1, <2>2 DEF free, PairsOrNot, PassesOver
<1> QED
  BY <1>5, <1>6

\* It stays a list of what was read.
LEMMA NextPairTyped ==
  ASSUME Booked, BankAssumption, NEW lines, lines \subseteq DOMAIN bankTx, NEW t \in lines,
         NEW entries, entries \subseteq DOMAIN bankEntry, NEW done \in Done(lines, entries)
  PROVE  NextPair(t, entries, done) \in Done(lines, entries)
<1> DEFINE out == NextPair(t, entries, done)
<1>1. \/ out = done
      \/ \E e \in entries : out = Append(done, [tx |-> t, entry |-> e])
  <2>1. t \in DOMAIN bankTx
    OBVIOUS
  <2>2. PairsOrNot(t, entries, done)
    BY <2>1, NextPairIs
  <2> QED
    BY <2>2 DEF PairsOrNot, PassesOver, Takes
<1> HIDE DEF out
<1>2. ASSUME NEW e \in entries, out = Append(done, [tx |-> t, entry |-> e])
      PROVE  out \in Done(lines, entries)
  <2> DEFINE R == [tx : lines, entry : entries]
             q == [tx |-> t, entry |-> e]
  <2>1. q \in R /\ done \in Seq(R)
    BY DEF Done
  <2> HIDE DEF R, q
  <2>2. Append(done, q) \in Seq(R)
    BY <2>1
  <2> QED
    BY <1>2, <2>2 DEF Done, R, q
<1>3. out \in Done(lines, entries)
  BY <1>1, <1>2
<1> QED
  BY <1>3 DEF out

LastIn(lines) == [s \in SUBSET lines |-> LastLine(s)]
PairStep(lines, entries) ==
    [t \in lines |-> [done \in Done(lines, entries) |-> NextPair(t, entries, done)]]

\* What a run proposes is what a fold over its lines gives.
LEMMA ProposalsFold ==
  ASSUME Booked, BankAssumption, NEW lines, lines \subseteq DOMAIN bankTx,
         NEW entries, entries \subseteq DOMAIN bankEntry
  PROVE  /\ Picks(LastIn(lines), lines)
         /\ \E k : /\ FoldingBy(k, PairStep(lines, entries), << >>, LastIn(lines), lines)
                    /\ ProposeMatches(lines, entries) = k[lines]
<1> DEFINE pick == LastIn(lines)
           step == PairStep(lines, entries)
           V == Done(lines, entries)
           chain(k) == k = [s \in SUBSET lines |-> IF s = {} THEN << >>
                              ELSE NextPair(LastLine(s), entries, k[s \ {LastLine(s)}])]
<1>1. \A s \in SUBSET lines : pick[s] = LastLine(s) /\ (s # {} => LastLine(s) \in s)
  <2>1. ASSUME NEW s \in SUBSET lines, s # {} PROVE LastLine(s) \in s
    BY <2>1, LastLineIn
  <2> QED
    BY <2>1 DEF LastIn
<1>2. Picks(pick, lines)
  <2>1. IsFiniteSet(lines)
    <3>1. DOMAIN bankTx = 1..Len(bankTx) /\ Len(bankTx) \in Nat
      BY DEF Booked
    <3>2. IsFiniteSet(1..Len(bankTx))
      BY <3>1, FS_Interval
    <3> QED
      BY <3>1, <3>2, FS_Subset
  <2> HIDE DEF pick
  <2> QED
    BY <1>1, <2>1 DEF Picks
<1>3. << >> \in V
  BY DEF Done
<1>4. ASSUME NEW t \in lines, NEW v \in V
      PROVE  step[t][v] = NextPair(t, entries, v) /\ step[t][v] \in V
  <2>1. step[t][v] = NextPair(t, entries, v)
    BY DEF PairStep
  <2>2. NextPair(t, entries, v) \in V
    BY NextPairTyped
  <2> QED
    BY <2>1, <2>2
<1> HIDE DEF pick, step, V
\* Any function that unfolds this way has its values among the lists.
<1>5. ASSUME NEW k, FoldingBy(k, step, << >>, pick, lines), NEW s \in SUBSET lines PROVE k[s] \in V
  <2> DEFINE Good == (SUBSET lines) \X V
  <2>1. << {}, << >> >> \in Good
    BY <1>3
  <2>2. ASSUME NEW r \in SUBSET lines, NEW v, r # {}, << r \ {pick[r]}, v >> \in Good
        PROVE  << r, step[pick[r]][v] >> \in Good
    BY <1>1, <1>4, <2>2
  <2>3. << s, k[s] >> \in Good
    <3> HIDE DEF Good
    <3> QED
      BY <1>2, <1>5, <2>1, <2>2, FoldKeeps
  <2> QED
    BY <2>3
<1>6. PICK f : FoldingBy(f, step, << >>, pick, lines)
  BY <1>2, FoldsByExist
<1>7. chain(f)
  <2>1. ASSUME NEW s \in SUBSET lines, s # {}
        PROVE  step[pick[s]][f[s \ {pick[s]}]] = NextPair(LastLine(s), entries, f[s \ {LastLine(s)}])
    <3>1. pick[s] = LastLine(s) /\ pick[s] \in lines
      BY <1>1, <2>1
    <3>2. f[s \ {pick[s]}] \in V
      BY <1>5, <1>6
    <3> QED
      BY <1>4, <3>1, <3>2
  <2> QED
    BY <1>6, <2>1 DEF FoldingBy
<1> DEFINE k == CHOOSE c : chain(c)
<1>8. chain(k)
  <2> HIDE DEF chain
  <2> QED
    BY <1>7
<1>9. ProposeMatches(lines, entries) = k[lines]
  BY DEF ProposeMatches, MapThenFoldSet, NextPair
<1>10. k = f
  <2> DEFINE F == {s \in SUBSET lines : k[s] # f[s]}
  <2>1. ASSUME F # {} PROVE FALSE
    <3>1. PICK A \in F : \A B \in F : B \subseteq A => B = A
      <4>1. F \subseteq SUBSET lines /\ IsFiniteSet(lines)
        BY <1>2 DEF Picks
      <4> HIDE DEF F
      <4> QED
        BY <2>1, <4>1, LeastSet
    <3>2. A \in SUBSET lines /\ k[A] # f[A]
      OBVIOUS
    <3> HIDE DEF k
    <3> DEFINE body(g, s) == IF s = {} THEN << >> ELSE NextPair(LastLine(s), entries, g[s \ {LastLine(s)}])
    <3>3. k[A] = body(k, A) /\ f[A] = body(f, A)
      BY <1>7, <1>8, <3>2
    <3>4. A # {} => k[A \ {LastLine(A)}] = f[A \ {LastLine(A)}]
      <4>1. A # {} => LastLine(A) \in A
        BY <1>1
      <4> QED
        BY <3>1, <3>2, <4>1
    <3> QED
      BY <3>2, <3>3, <3>4
  <2>2. \A s \in SUBSET lines : k[s] = f[s]
    BY <2>1
  <2>3. k = [s \in SUBSET lines |-> k[s]] /\ f = [s \in SUBSET lines |-> f[s]]
    <3> HIDE DEF k
    <3> QED
      BY <1>7, <1>8
  <2> HIDE DEF k
  <2> QED
    BY <2>2, <2>3
<1> QED
  BY <1>2, <1>6, <1>9, <1>10 DEF pick, step

-----------------------------------------------------------------------------
EngineRun(lines, entries, done) == [tx |-> lines, entries |-> entries, proposals |-> done]

\* One more line, and the run over it and those before it is still clear.
LEMMA OneMoreLine ==
  ASSUME Booked, BankAssumption, NEW s, s \subseteq DOMAIN bankTx, NEW t \in s,
         NEW entries, entries \subseteq DOMAIN bankEntry, NEW done \in Done(s \ {t}, entries),
         ClearRun(EngineRun(s \ {t}, entries, done))
  PROVE  /\ NextPair(t, entries, done) \in Done(s, entries)
         /\ ClearRun(EngineRun(s, entries, NextPair(t, entries, done)))
<1> DEFINE out == NextPair(t, entries, done)
           old == EngineRun(s \ {t}, entries, done)
           new == EngineRun(s, entries, out)
<1> DEFINE R == [tx : s \ {t}, entry : entries]
           W == [tx : s, entry : entries]
<1> HIDE DEF old, new, out, R, W
<1>0. done \in Seq(R) /\ \A i \in DOMAIN done : done[i] \in R
  <2>1. done \in Seq(R)
    BY DEF Done, R
  <2> QED
    BY <2>1
<1>1. done \in Done(s, entries)
  <2>1. R \subseteq W
    BY DEF R, W
  <2>2. done \in Seq(W)
    BY <1>0, <2>1
  <2> QED
    BY <2>2 DEF Done, W
<1>2. out \in Done(s, entries)
  BY <1>1, NextPairTyped DEF out
<1>3. /\ Pairs(old) = {done[i] : i \in DOMAIN done} /\ Pairs(new) = {out[i] : i \in DOMAIN out}
      /\ old.entries = entries /\ new.entries = entries /\ old.tx = s \ {t} /\ new.tx = s
  BY DEF Pairs, EngineRun, old, new
<1>4. \A q \in Pairs(old) : q.tx \in s /\ q.tx # t /\ q.entry \in entries
  <2>1. \A x \in R : x.tx \in s /\ x.tx # t /\ x.entry \in entries
    BY DEF R
  <2> QED
    BY <1>0, <1>3, <2>1
<1>5. Proposed(done) = {q.entry : q \in Pairs(old)}
  BY <1>3 DEF Proposed
<1>6. PairsOrNot(t, entries, done)
  <2>1. t \in DOMAIN bankTx
    OBVIOUS
  <2> QED
    BY <2>1, NextPairIs
<1>7. /\ \A q \in Pairs(old) : Unrivalled(old, q)
      /\ \A u \in (s \ {t}) \ {q.tx : q \in Pairs(old)} : Unclear(old, u)
  BY <1>3 DEF ClearRun, old
<1>8. ASSUME PassesOver(t, entries, done) PROVE ClearRun(new)
  <2>1. out = done /\ \A e \in entries \ Proposed(done) : Agrees(t, e) => \E f \in entries \ {e} : Agrees(t, f)
    BY <1>8 DEF PassesOver, out
  <2>2. Pairs(new) = Pairs(old)
    BY <1>3, <2>1
  <2>3. \A e, u : TakenIn(new, e, u) <=> TakenIn(old, e, u)
    BY <2>2 DEF TakenIn
  <2>4. \A q \in Pairs(new) : Unrivalled(new, q)
    BY <1>3, <1>7, <2>2, <2>3 DEF Unrivalled
  <2>5. \A u \in (s \ {t}) \ {q.tx : q \in Pairs(new)} : Unclear(new, u)
    BY <1>3, <1>7, <2>2, <2>3 DEF Unclear
  <2>6. Unclear(new, t)
    <3> SUFFICES ASSUME NEW e \in entries, Agrees(t, e)
                 PROVE  TakenIn(new, e, t) \/ \E f \in entries \ {e} : Agrees(t, f)
      BY <1>3 DEF Unclear
    <3>1. CASE e \in Proposed(done)
      <4>1. PICK q \in Pairs(old) : q.entry = e
        BY <1>5, <3>1
      <4> QED
        BY <1>4, <2>2, <4>1 DEF TakenIn
    <3>2. CASE e \notin Proposed(done)
      BY <2>1, <3>2
    <3> QED
      BY <3>1, <3>2
  <2> QED
    BY <1>3, <2>4, <2>5, <2>6 DEF ClearRun
<1>9. ASSUME NEW e \in entries \ Proposed(done), Takes(t, entries, done, e) PROVE ClearRun(new)
  <2> DEFINE mine == [tx |-> t, entry |-> e]
  <2>1. /\ out = Append(done, mine) /\ Agrees(t, e)
        /\ \A f \in entries \ Proposed(done) : Agrees(t, f) /\ Distance(t, f) <= Distance(t, e) => f = e
    BY <1>9 DEF Takes, out
  <2>2. mine.tx = t /\ mine.entry = e
    OBVIOUS
  <2> HIDE DEF mine
  <2>3. Pairs(new) = Pairs(old) \cup {mine}
    <3>1. Len(done) \in Nat
      BY <1>0
    <3>2. /\ DOMAIN done = 1..Len(done) /\ DOMAIN out = 1..(Len(done) + 1)
          /\ out[Len(done) + 1] = mine /\ \A i \in 1..Len(done) : out[i] = done[i]
      BY <1>0, <2>1, <3>1
    <3> QED
      BY <1>3, <3>1, <3>2
  <2>4. \A f, u : TakenIn(old, f, u) => TakenIn(new, f, u)
    BY <2>3 DEF TakenIn
  <2>5. ASSUME NEW q \in Pairs(old) PROVE Unrivalled(new, q)
    BY <1>3, <1>7, <2>4 DEF Unrivalled
  <2>6. Unrivalled(new, mine)
    <3> SUFFICES ASSUME NEW f \in entries \ {e}, Agrees(t, f), Distance(t, f) <= Distance(t, e)
                 PROVE  TakenIn(new, f, t)
      BY <1>3, <2>1, <2>2 DEF Unrivalled
    <3>1. f \in Proposed(done)
      BY <2>1
    <3>2. PICK q \in Pairs(old) : q.entry = f
      BY <1>5, <3>1
    <3> QED
      BY <1>4, <2>3, <3>2 DEF TakenIn
  <2>7. ASSUME NEW u \in s \ {q.tx : q \in Pairs(new)} PROVE Unclear(new, u)
    <3>1. u \in (s \ {t}) \ {q.tx : q \in Pairs(old)}
      BY <2>2, <2>3
    <3>2. Unclear(old, u)
      BY <1>7, <3>1
    <3> QED
      BY <1>3, <2>4, <3>2 DEF Unclear
  <2> QED
    BY <1>3, <2>3, <2>5, <2>6, <2>7 DEF ClearRun
<1>10. ClearRun(new)
  BY <1>6, <1>8, <1>9 DEF PairsOrNot
<1> QED
  BY <1>2, <1>10 DEF new, out

\* So the engine never guesses, and never leaves what is clear.
LEMMA EngineIsClear ==
  ASSUME Booked, BankAssumption, NEW lines, lines \subseteq DOMAIN bankTx,
         NEW entries, entries \subseteq DOMAIN bankEntry
  PROVE  /\ ProposeMatches(lines, entries) \in Done(lines, entries)
         /\ ClearRun(EngineRun(lines, entries, ProposeMatches(lines, entries)))
<1> DEFINE pick == LastIn(lines)
           step == PairStep(lines, entries)
           Fine(s, done) == done \in Done(s, entries) /\ ClearRun(EngineRun(s, entries, done))
           Good == {x \in (SUBSET lines) \X Done(lines, entries) : Fine(x[1], x[2])}
<1>1. Picks(pick, lines)
  BY ProposalsFold
<1>2. PICK k : FoldingBy(k, step, << >>, pick, lines) /\ ProposeMatches(lines, entries) = k[lines]
  BY ProposalsFold
<1>3. << {}, << >> >> \in Good
  <2>1. << >> \in Done(lines, entries) /\ << >> \in Done({}, entries)
    BY DEF Done
  <2>2. Pairs(EngineRun({}, entries, << >>)) = {} /\ EngineRun({}, entries, << >>).tx = {}
    BY DEF Pairs, EngineRun
  <2>3. ClearRun(EngineRun({}, entries, << >>))
    BY <2>2 DEF ClearRun
  <2> QED
    BY <2>1, <2>3
<1>4. ASSUME NEW s \in SUBSET lines, NEW v, s # {}, << s \ {pick[s]}, v >> \in Good
      PROVE  << s, step[pick[s]][v] >> \in Good
  <2> DEFINE t == pick[s]
  <2>1. t \in s /\ s \subseteq DOMAIN bankTx
    <3> HIDE DEF pick
    <3> QED
      BY <1>1, <1>4 DEF Picks
  <2>2. v \in Done(lines, entries) /\ Fine(s \ {t}, v)
    <3> HIDE DEF Fine, pick
    <3> QED
      BY <1>4
  <2> HIDE DEF t
  <2>3. Fine(s, NextPair(t, entries, v))
    BY <2>1, <2>2, OneMoreLine
  <2>4. step[t][v] = NextPair(t, entries, v)
    BY <2>1, <2>2 DEF PairStep
  <2>5. step[t][v] \in Done(lines, entries)
    <3>1. t \in lines
      BY <2>1
    <3> QED
      BY <2>2, <2>4, <3>1, NextPairTyped
  <2> HIDE DEF Fine, step
  <2> QED
    BY <2>3, <2>4, <2>5 DEF t
<1>5. << lines, k[lines] >> \in Good
  <2> HIDE DEF Good, pick, step
  <2>1. lines \subseteq lines
    OBVIOUS
  <2> QED
    BY <1>1, <1>2, <1>3, <1>4, <2>1, FoldKeeps
<1>6. Fine(lines, k[lines])
  <2> HIDE DEF Fine
  <2> QED
    BY <1>5
<1> QED
  BY <1>2, <1>6

-----------------------------------------------------------------------------
\* The tables only grow, and so do the runs there were.
Grown ==
    /\ \A t \in DOMAIN bankTx : t \in DOMAIN bankTx' /\ bankTx'[t] = bankTx[t]
    /\ \A e \in DOMAIN bankEntry : e \in DOMAIN bankEntry' /\ bankEntry'[e] = bankEntry[e]
    /\ imported \subseteq imported' /\ engineRuns \subseteq engineRuns'

\* What was read of a row is still so.
LEMMA RowsStay ==
  ASSUME Booked, Booked', Grown
  PROVE  /\ \A t \in DOMAIN bankTx : AccountOf(t)' = AccountOf(t)
         /\ \A t \in DOMAIN bankTx, e \in DOMAIN bankEntry :
               Distance(t, e)' = Distance(t, e) /\ (Agrees(t, e)' <=> Agrees(t, e))
<1>1. ASSUME NEW t \in DOMAIN bankTx PROVE AccountOf(t)' = AccountOf(t)
  <2>1. PICK s \in imported : s.ref = bankTx[t].statement
    BY DEF Booked
  <2>2. s \in imported' /\ bankTx'[t] = bankTx[t]
    BY DEF Grown
  <2>3. /\ \A a \in imported : a.ref = bankTx[t].statement <=> a = s
        /\ \A a \in imported' : a.ref = bankTx'[t].statement <=> a = s
    BY <2>1, <2>2 DEF Booked
  <2>4. (CHOOSE a \in imported : a.ref = bankTx[t].statement) = s
    BY <2>1, <2>3
  <2>5. (CHOOSE a \in imported' : a.ref = bankTx'[t].statement) = s
    BY <2>2, <2>3
  <2> QED
    BY <2>4, <2>5 DEF AccountOf
<1>2. ASSUME NEW t \in DOMAIN bankTx, NEW e \in DOMAIN bankEntry
      PROVE  Distance(t, e)' = Distance(t, e) /\ (Agrees(t, e)' <=> Agrees(t, e))
  <2>1. bankTx'[t] = bankTx[t] /\ bankEntry'[e] = bankEntry[e]
    BY DEF Grown
  <2>2. Distance(t, e)' = Distance(t, e)
    BY <2>1 DEF Distance
  <2> QED
    BY <2>1, <2>2 DEF Agrees
<1> QED
  BY <1>1, <1>2

\* So is what a run of the engine was.
LEMMA RunStays ==
  ASSUME Booked, Booked', Grown, NEW run, Placed(run), ClearRun(run)
  PROVE  Placed(run)' /\ ClearRun(run)'
<1>1. /\ \A t \in DOMAIN bankTx : AccountOf(t)' = AccountOf(t)
      /\ \A t \in DOMAIN bankTx, e \in DOMAIN bankEntry :
            Distance(t, e)' = Distance(t, e) /\ (Agrees(t, e)' <=> Agrees(t, e))
  BY RowsStay
<1>2. run.tx \subseteq DOMAIN bankTx /\ run.entries \subseteq DOMAIN bankEntry
  BY DEF Placed
<1>3. \A q \in Pairs(run) : q.tx \in DOMAIN bankTx /\ q.entry \in DOMAIN bankEntry
  <2> DEFINE R == [tx : run.tx, entry : run.entries]
  <2>1. run.proposals \in Seq(R) /\ \A x \in R : x.tx \in run.tx /\ x.entry \in run.entries
    BY DEF Placed
  <2> HIDE DEF R
  <2>2. \A i \in DOMAIN run.proposals : run.proposals[i] \in R
    BY <2>1
  <2> QED
    BY <1>2, <2>1, <2>2 DEF Pairs
<1>4. Placed(run)'
  <2>1. run.tx \subseteq DOMAIN bankTx' /\ run.entries \subseteq DOMAIN bankEntry'
    BY <1>2 DEF Grown
  <2>2. ASSUME NEW t \in run.tx, NEW e \in run.entries PROVE AccountOf(t)' = bankEntry'[e].account
    <3>1. AccountOf(t) = bankEntry[e].account
      BY DEF Placed
    <3>2. bankEntry'[e] = bankEntry[e] /\ AccountOf(t)' = AccountOf(t)
      BY <1>1, <1>2 DEF Grown
    <3> QED
      BY <3>1, <3>2
  <2> QED
    BY <2>1, <2>2 DEF Placed
<1>5. ASSUME NEW q \in Pairs(run) PROVE Unrivalled(run, q)'
  <2>1. Unrivalled(run, q)
    BY DEF ClearRun
  <2> QED
    BY <1>1, <1>2, <1>3, <2>1 DEF Unrivalled, TakenIn
<1>6. ASSUME NEW t \in run.tx \ {q.tx : q \in Pairs(run)} PROVE Unclear(run, t)'
  <2>1. Unclear(run, t)
    BY DEF ClearRun
  <2> QED
    BY <1>1, <1>2, <2>1 DEF Unclear, TakenIn
<1> QED
  BY <1>4, <1>5, <1>6 DEF ClearRun, Pairs

\* What stays when the tables have grown.
Stays ==
    /\ \A run \in engineRuns : Placed(run)' /\ ClearRun(run)'
    /\ \A i : Underway(i) => Underway(i)'
    /\ \A m : Proposal(m) => Proposal(m)'

LEMMA GrownStays == ASSUME BankInv, Booked', Grown PROVE Stays
<1>1. Booked /\ \A run \in engineRuns : Placed(run) /\ ClearRun(run)
  BY DEF BankInv
<1>2. \A run \in engineRuns : Placed(run)' /\ ClearRun(run)'
  BY <1>1, RunStays
<1>3. engineRuns \subseteq engineRuns' /\ \A t \in DOMAIN bankTx : t \in DOMAIN bankTx'
  BY DEF Grown
<1>4. ASSUME NEW i, Underway(i) PROVE Underway(i)'
  <2>1. \A t \in DOMAIN bankTx : AccountOf(t)' = AccountOf(t)
    BY <1>1, RowsStay
  <2>2. ASSUME i.pc = "entries"
        PROVE  i.tx \subseteq DOMAIN bankTx' /\ \A t \in i.tx : AccountOf(t)' = i.account
    BY <1>3, <1>4, <2>1, <2>2 DEF Underway
  <2>3. ASSUME i.pc = "insert" PROVE \E run \in engineRuns' : i.todo \in Seq(Pairs(run))
    BY <1>3, <1>4, <2>3 DEF Underway
  <2> QED
    BY <2>2, <2>3 DEF Underway, Pairs
<1>5. ASSUME NEW m, Proposal(m) PROVE Proposal(m)'
  BY <1>3, <1>5 DEF Proposal, Pairs
<1> QED
  BY <1>2, <1>4, <1>5 DEF Stays

\* One import moves on.
LEMMA ImportMoves ==
  ASSUME BankInv, Stays, NEW p \in Person, NEW i \in Importing, Underway(i)',
         importing' = [importing EXCEPT ![p] = i]
  PROVE  importing' \in [Person -> Importing] /\ \A q \in Person : Underway(importing[q])'
<1>1. importing \in [Person -> Importing] /\ \A q \in Person : Underway(importing[q])
  BY DEF BankInv
<1>2. importing' \in [Person -> Importing]
  BY <1>1
<1>3. ASSUME NEW q \in Person PROVE Underway(importing[q])'
  <2>1. CASE q = p
    <3>1. importing'[q] = i
      BY <1>1, <2>1
    <3> QED
      BY <3>1 DEF Underway, Pairs, AccountOf
  <2>2. CASE q # p
    <3> DEFINE k == importing[q]
    <3>1. importing'[q] = importing[q]
      BY <1>1, <2>2
    <3>2. PICK j : j = importing[q]
      OBVIOUS
    <3>3. Underway(j)'
      BY <1>1, <3>2 DEF Stays
    <3> QED
      BY <3>1, <3>2, <3>3 DEF Underway, Pairs, AccountOf
  <2> QED
    BY <2>1, <2>2
<1> QED
  BY <1>2, <1>3

-----------------------------------------------------------------------------
LEMMA IdleFits == NotImporting \in Importing /\ Underway(NotImporting) /\ Underway(NotImporting)'
<1>1. << >> \in Seq([tx : Nat, entry : Nat])
  OBVIOUS
<1> QED
  BY <1>1 DEF NotImporting, Importing, Underway

LEMMA InitBankInv == InitBank => BankInv
<1> SUFFICES ASSUME InitBank PROVE BankInv
  OBVIOUS
<1>1. Booked
  <2>1. << >> \in Seq(BankPosting) /\ << >> \in Seq(BankLine) /\ DOMAIN << >> = {}
    OBVIOUS
  <2> QED
    BY <2>1 DEF InitBank, Booked
<1>2. importing \in [Person -> Importing] /\ \A p \in Person : Underway(importing[p])
  BY IdleFits DEF InitBank
<1> QED
  BY <1>1, <1>2 DEF BankInv, InitBank

\* When no table changes.
LEMMA TablesStay ==
  ASSUME BankInv, UNCHANGED << bankEntry, imported, bankTx, engineRuns >>
  PROVE  Booked' /\ Stays
<1>1. Booked' /\ Grown
  BY DEF BankInv, Booked, Grown
<1> QED
  BY <1>1, GrownStays

\* Something is posted to a bank account.
LEMMA PostBankInv ==
  ASSUME BankInv, NEW row \in BankPosting, PostToBank(row)
  PROVE  BankInv'
<1>1. /\ bankEntry' = Append(bankEntry, row) /\ bankEntry \in Seq(BankPosting)
      /\ UNCHANGED << imported, bankTx, bankMatch, importing, engineRuns >>
  BY DEF PostToBank, BankInv, Booked
<1>2. /\ bankEntry' \in Seq(BankPosting)
      /\ \A e \in DOMAIN bankEntry : e \in DOMAIN bankEntry' /\ bankEntry'[e] = bankEntry[e]
  BY <1>1
<1>3. Booked' /\ Grown
  BY <1>1, <1>2 DEF BankInv, Booked, Grown
<1>4. Stays
  BY <1>3, GrownStays
<1>5. ASSUME NEW p \in Person PROVE Underway(importing[p])'
  <2>1. Underway(importing[p]) /\ importing' = importing
    BY <1>1 DEF BankInv
  <2>2. PICK i : i = importing[p]
    OBVIOUS
  <2>3. Underway(i)'
    BY <1>4, <2>1, <2>2 DEF Stays
  <2> QED
    BY <2>1, <2>2, <2>3 DEF Underway, Pairs, AccountOf
<1>6. (\A run \in engineRuns : Placed(run) /\ ClearRun(run))'
  BY <1>1, <1>4 DEF Stays
<1>7. (\A m \in bankMatch : m.method = "auto" => Proposal(m))'
  BY <1>1, <1>4 DEF Stays, BankInv
<1>8. (importing \in [Person -> Importing])'
  BY <1>1 DEF BankInv
<1> QED
  BY <1>3, <1>5, <1>6, <1>7, <1>8 DEF BankInv

\* A statement comes in.
LEMMA StatementBankInv ==
  ASSUME BankAssumption, BankInv, NEW p \in Person, NEW s \in Statement, NEW account \in BankAccount,
         ImportStatement(p, s, account)
  PROVE  BankInv'
<1> DEFINE lines == [i \in DOMAIN s.lines |->
             [statement |-> s.ref, day |-> s.lines[i].day, amount |-> s.lines[i].amount]]
           row == [ref |-> s.ref, account |-> account]
           i == [NotImporting EXCEPT !.pc = "lines", !.account = account]
<1>1. /\ \A r \in imported : r.ref # s.ref
      /\ imported' = imported \cup {row}
      /\ bankTx' = bankTx \o lines
      /\ importing' = [importing EXCEPT ![p] = i]
      /\ UNCHANGED << bankEntry, bankMatch, engineRuns >>
  BY DEF ImportStatement
<1>2. lines \in Seq(BankLine) /\ \A l \in DOMAIN lines : lines[l].statement = s.ref
  <2> DEFINE R == [day : Int, amount : Int \ {0}]
  <2>1. s.lines \in Seq(R)
    BY DEF BankAssumption
  <2>2. \A x \in R : x.day \in Int /\ x.amount \in Int \ {0}
    OBVIOUS
  <2> HIDE DEF R
  <2>3. DOMAIN s.lines = 1..Len(s.lines) /\ Len(s.lines) \in Nat /\ \A l \in DOMAIN s.lines : s.lines[l] \in R
    BY <2>1
  <2>4. \A l \in DOMAIN s.lines : lines[l] \in BankLine
    BY <2>2, <2>3 DEF BankLine, StatementRef
  <2>5. lines = [l \in 1..Len(s.lines) |-> lines[l]]
    BY <2>3
  <2>6. \A l \in DOMAIN lines : lines[l].statement = s.ref
    OBVIOUS
  <2>7. lines \in Seq(BankLine)
    <3>1. PICK n \in Nat : n = Len(s.lines)
      BY <2>3
    <3> HIDE DEF lines
    <3>2. lines \in [1..n -> BankLine]
      BY <2>3, <2>4, <2>5, <3>1
    <3> QED
      BY <3>2
  <2> QED
    BY <2>6, <2>7
<1> HIDE DEF lines
<1>3. bankTx \in Seq(BankLine)
  BY DEF BankInv, Booked
<1>4. /\ bankTx' \in Seq(BankLine)
      /\ \A t \in DOMAIN bankTx : t \in DOMAIN bankTx' /\ bankTx'[t] = bankTx[t]
      /\ \A t \in DOMAIN bankTx' \ DOMAIN bankTx : bankTx'[t].statement = s.ref
  <2>1. bankTx' \in Seq(BankLine)
    BY <1>1, <1>2, <1>3
  <2>2. /\ Len(bankTx') = Len(bankTx) + Len(lines) /\ Len(bankTx) \in Nat /\ Len(lines) \in Nat
        /\ \A t \in 1..Len(bankTx') : bankTx'[t] = IF t <= Len(bankTx) THEN bankTx[t] ELSE lines[t - Len(bankTx)]
        /\ DOMAIN bankTx' = 1..Len(bankTx') /\ DOMAIN bankTx = 1..Len(bankTx) /\ DOMAIN lines = 1..Len(lines)
    BY <1>1, <1>2, <1>3
  <2>3. ASSUME NEW t \in DOMAIN bankTx PROVE t \in DOMAIN bankTx' /\ bankTx'[t] = bankTx[t]
    BY <2>2
  <2>4. ASSUME NEW t \in DOMAIN bankTx' \ DOMAIN bankTx PROVE bankTx'[t].statement = s.ref
    <3>1. t - Len(bankTx) \in DOMAIN lines /\ bankTx'[t] = lines[t - Len(bankTx)]
      BY <2>2
    <3> QED
      BY <1>2, <3>1
  <2> QED
    BY <2>1, <2>3, <2>4
<1>5. Booked'
  <2>1. \A a, b \in imported' : a.ref = b.ref => a = b
    <3>1. row.ref = s.ref
      OBVIOUS
    <3> HIDE DEF row
    <3>2. \A a, b \in imported : a.ref = b.ref => a = b
      BY DEF BankInv, Booked
    <3> QED
      BY <1>1, <3>1, <3>2
  <2>2. ASSUME NEW t \in DOMAIN bankTx' PROVE \E r \in imported' : r.ref = bankTx'[t].statement
    <3>1. CASE t \in DOMAIN bankTx
      <4>1. PICK r \in imported : r.ref = bankTx[t].statement
        BY <3>1 DEF BankInv, Booked
      <4> QED
        BY <1>1, <1>4, <3>1, <4>1
    <3>2. CASE t \notin DOMAIN bankTx
      <4>1. bankTx'[t].statement = s.ref
        BY <1>4, <3>2
      <4>2. row \in imported' /\ row.ref = s.ref
        BY <1>1
      <4> QED
        BY <4>1, <4>2
    <3> QED
      BY <3>1, <3>2
  <2> QED
    BY <1>1, <1>4, <2>1, <2>2 DEF BankInv, Booked
<1>6. Grown
  BY <1>1, <1>4 DEF Grown
<1>7. Stays
  BY <1>5, <1>6, GrownStays
<1>8. i \in Importing /\ Underway(i)'
  BY IdleFits DEF NotImporting, Importing, Underway
<1> HIDE DEF i
<1>9. importing' \in [Person -> Importing] /\ \A q \in Person : Underway(importing[q])'
  BY <1>1, <1>7, <1>8, ImportMoves
<1> QED
  BY <1>1, <1>5, <1>7, <1>9 DEF BankInv, Stays

\* auto_match reads the lines.
LEMMA LinesBankInv ==
  ASSUME BankInv, NEW p \in Person, UnmatchedBankRows(p)
  PROVE  BankInv'
<1>1. PICK read : read = {t \in DOMAIN bankTx : AccountOf(t) = importing[p].account /\ t \notin MatchedTx}
  OBVIOUS
<1>2. PICK i : i = [importing[p] EXCEPT !.pc = "entries", !.tx = read]
  OBVIOUS
<1>3. /\ importing' = [importing EXCEPT ![p] = i]
      /\ UNCHANGED << bankEntry, imported, bankTx, bankMatch, engineRuns >>
  BY <1>1, <1>2 DEF UnmatchedBankRows
<1>4. Booked' /\ Stays
  BY <1>3, TablesStay
<1>5. read \subseteq Nat
  <2>1. DOMAIN bankTx = 1..Len(bankTx) /\ Len(bankTx) \in Nat
    BY DEF BankInv, Booked
  <2> QED
    BY <1>1, <2>1
<1>6. i \in Importing /\ i.pc = "entries" /\ i.tx = read /\ i.account = importing[p].account
  <2>1. importing[p] \in Importing
    BY DEF BankInv
  <2> QED
    BY <1>2, <1>5, <2>1 DEF Importing
<1>7. Underway(i)
  BY <1>1, <1>6 DEF Underway
<1>8. Underway(i)'
  BY <1>4, <1>7 DEF Stays
<1>9. importing' \in [Person -> Importing] /\ \A q \in Person : Underway(importing[q])'
  BY <1>3, <1>4, <1>6, <1>8, ImportMoves
<1> QED
  BY <1>3, <1>4, <1>9 DEF BankInv, Stays

\* It reads the entries, and the engine proposes.
LEMMA EngineBankInv ==
  ASSUME BankAssumption, BankInv, NEW p \in Person, AutoMatch(p)
  PROVE  BankInv'
<1>1. PICK i : i = importing[p]
  OBVIOUS
<1>2. PICK free : free = {e \in DOMAIN bankEntry : bankEntry[e].account = i.account /\ e \notin MatchedEntry}
  OBVIOUS
<1>3. PICK proposals : proposals = ProposeMatches(i.tx, free)
  OBVIOUS
<1>4. PICK run : run = EngineRun(i.tx, free, proposals)
  OBVIOUS
<1>5. PICK j : j = [i EXCEPT !.pc = "insert", !.todo = proposals]
  OBVIOUS
<1>6. /\ i.pc = "entries"
      /\ importing' = [importing EXCEPT ![p] = j]
      /\ engineRuns' = engineRuns \cup {run}
      /\ UNCHANGED << bankEntry, imported, bankTx, bankMatch >>
  BY <1>1, <1>2, <1>3, <1>4, <1>5 DEF AutoMatch, EngineRun
<1>7. /\ Booked /\ i \in Importing
      /\ i.tx \subseteq DOMAIN bankTx /\ \A t \in i.tx : AccountOf(t) = i.account
  <2>1. Booked /\ importing[p] \in Importing /\ Underway(importing[p])
    BY DEF BankInv
  <2> QED
    BY <1>1, <1>6, <2>1 DEF Underway
<1>8. Booked' /\ Grown
  BY <1>6, <1>7 DEF Booked, Grown
<1>9. Stays
  BY <1>8, GrownStays
<1>10. /\ free \subseteq DOMAIN bankEntry
       /\ proposals \in Done(i.tx, free) /\ ClearRun(run)
  <2>1. free \subseteq DOMAIN bankEntry
    BY <1>2
  <2> QED
    BY <1>3, <1>4, <1>7, <2>1, EngineIsClear
<1>11. run.tx = i.tx /\ run.entries = free /\ run.proposals = proposals
  BY <1>4 DEF EngineRun
<1>12. Placed(run)
  <2>1. \A t \in i.tx, e \in free : AccountOf(t) = bankEntry[e].account
    BY <1>2, <1>7
  <2> QED
    BY <1>7, <1>10, <1>11, <2>1 DEF Placed, Done
<1>13. Placed(run)' /\ ClearRun(run)'
  BY <1>7, <1>8, <1>10, <1>12, RunStays
<1>14. j \in Importing /\ Underway(j)'
  <2>1. proposals \in Seq(Pairs(run)) /\ proposals \in Seq([tx : Nat, entry : Nat])
    <3> DEFINE R == [tx : i.tx, entry : free]
               N == [tx : Nat, entry : Nat]
    <3>1. proposals \in Seq(R)
      BY <1>10 DEF Done
    <3>2. R \subseteq N
      <4>1. /\ DOMAIN bankTx = 1..Len(bankTx) /\ Len(bankTx) \in Nat
            /\ DOMAIN bankEntry = 1..Len(bankEntry) /\ Len(bankEntry) \in Nat
        BY <1>7 DEF Booked
      <4>2. i.tx \subseteq Nat /\ free \subseteq Nat
        BY <1>7, <1>10, <4>1
      <4> QED
        BY <4>2
    <3> HIDE DEF R, N
    <3>3. proposals \in Seq(N)
      BY <3>1, <3>2
    <3>4. \A n \in DOMAIN proposals : proposals[n] \in Pairs(run)
      BY <1>11 DEF Pairs
    <3>5. proposals \in Seq(Pairs(run))
      BY <3>1, <3>4
    <3> QED
      BY <3>3, <3>5 DEF N
  <2>2. j.pc = "insert" /\ j.todo = proposals /\ j \in Importing
    BY <1>5, <1>7, <2>1 DEF Importing
  <2>3. run \in engineRuns'
    BY <1>6
  <2>4. \E r \in engineRuns' : j.todo \in Seq(Pairs(r))
    BY <2>1, <2>2, <2>3
  <2> QED
    BY <2>2, <2>4 DEF Underway, Pairs
<1>15. importing' \in [Person -> Importing] /\ \A q \in Person : Underway(importing[q])'
  BY <1>6, <1>9, <1>14, ImportMoves
<1>16. (\A r \in engineRuns : Placed(r) /\ ClearRun(r))'
  <2>1. ASSUME NEW r \in engineRuns' PROVE Placed(r)' /\ ClearRun(r)'
    BY <1>6, <1>9, <1>13 DEF Stays
  <2> QED
    BY <2>1
<1>17. (\A m \in bankMatch : m.method = "auto" => Proposal(m))'
  BY <1>6, <1>9 DEF Stays, BankInv
<1> QED
  BY <1>8, <1>15, <1>16, <1>17 DEF BankInv

\* A proposal goes in, or meets a match of somebody else.
LEMMA InsertBankInv ==
  ASSUME BankInv, NEW p \in Person, InsertProposal(p)
  PROVE  BankInv'
<1>1. PICK i : i = importing[p]
  OBVIOUS
<1>2. PICK row : row = Head(i.todo)
  OBVIOUS
<1>3. PICK m : m = [tx |-> row.tx, entry |-> row.entry, method |-> "auto"]
  OBVIOUS
<1>4. PICK j : j = [i EXCEPT !.todo = Tail(@)]
  OBVIOUS
<1>5. /\ i.pc = "insert" /\ i.todo # << >>
      /\ bankMatch' \subseteq bankMatch \cup {m}
      /\ importing' = [importing EXCEPT ![p] = j] \/ importing' = [importing EXCEPT ![p] = NotImporting]
      /\ UNCHANGED << bankEntry, imported, bankTx, engineRuns >>
  BY <1>1, <1>2, <1>3, <1>4 DEF InsertProposal
<1>6. Booked' /\ Stays
  BY <1>5, TablesStay
<1>7. i \in Importing /\ Underway(i)
  BY <1>1 DEF BankInv
<1>8. PICK run \in engineRuns : i.todo \in Seq(Pairs(run))
  BY <1>5, <1>7 DEF Underway
<1>9. row \in Pairs(run) /\ Tail(i.todo) \in Seq(Pairs(run))
  BY <1>2, <1>5, <1>8
<1>10. j \in Importing /\ Underway(j)
  <2>1. Tail(i.todo) \in Seq([tx : Nat, entry : Nat])
    <3> DEFINE N == [tx : Nat, entry : Nat]
    <3>1. i.todo \in Seq(N)
      BY <1>7 DEF Importing
    <3> HIDE DEF N
    <3>2. Tail(i.todo) \in Seq(N)
      BY <1>5, <3>1
    <3> QED
      BY <3>2 DEF N
  <2>2. j \in Importing /\ j.pc = "insert" /\ j.todo = Tail(i.todo)
    BY <1>4, <1>5, <1>7, <2>1 DEF Importing
  <2> QED
    BY <1>8, <1>9, <2>2 DEF Underway
<1>11. Underway(j)'
  BY <1>6, <1>10 DEF Stays
<1>12. importing' \in [Person -> Importing] /\ \A q \in Person : Underway(importing[q])'
  <2>1. CASE importing' = [importing EXCEPT ![p] = j]
    BY <1>6, <1>10, <1>11, <2>1, ImportMoves
  <2>2. CASE importing' = [importing EXCEPT ![p] = NotImporting]
    BY <1>6, <2>2, IdleFits, ImportMoves
  <2> QED
    BY <1>5, <2>1, <2>2
<1>13. Proposal(m)
  <2>1. row = [tx |-> row.tx, entry |-> row.entry]
    <3> DEFINE R == [tx : run.tx, entry : run.entries]
    <3>1. Placed(run)
      BY DEF BankInv
    <3>2. run.proposals \in Seq(R)
      BY <3>1 DEF Placed
    <3>3. \A x \in R : x = [tx |-> x.tx, entry |-> x.entry]
      OBVIOUS
    <3> HIDE DEF R
    <3>4. \A n \in DOMAIN run.proposals : run.proposals[n] \in R
      BY <3>2
    <3>5. row \in R
      BY <1>9, <3>4 DEF Pairs
    <3> QED
      BY <3>3, <3>5
  <2>2. m.tx = row.tx /\ m.entry = row.entry
    BY <1>3
  <2>3. [tx |-> m.tx, entry |-> m.entry] \in Pairs(run)
    BY <1>9, <2>1, <2>2
  <2> QED
    BY <2>3 DEF Proposal
<1>14. ASSUME NEW x \in bankMatch', x.method = "auto" PROVE Proposal(x)'
  <2>1. x \in bankMatch \/ x = m
    BY <1>5
  <2>2. Proposal(x)
    BY <1>13, <1>14, <2>1 DEF BankInv
  <2> QED
    BY <1>6, <2>2 DEF Stays
<1> QED
  BY <1>5, <1>6, <1>12, <1>14 DEF BankInv, Stays

\* An import ends, or is cut off.
LEMMA LeavingBankInv ==
  ASSUME BankInv, NEW p \in Person, FinishImport(p) \/ CutOffImport(p)
  PROVE  BankInv'
<1>1. /\ importing' = [importing EXCEPT ![p] = NotImporting]
      /\ UNCHANGED << bankEntry, imported, bankTx, bankMatch, engineRuns >>
  BY DEF FinishImport, CutOffImport
<1>2. Booked' /\ Stays
  BY <1>1, TablesStay
<1>3. importing' \in [Person -> Importing] /\ \A q \in Person : Underway(importing[q])'
  BY <1>1, <1>2, IdleFits, ImportMoves
<1> QED
  BY <1>1, <1>2, <1>3 DEF BankInv, Stays

\* People match and unmatch; the rows that are not theirs stay or go.
LEMMA PeopleBankInv ==
  ASSUME BankInv, UNCHANGED << bankEntry, imported, bankTx, importing, engineRuns >>,
         \A m \in bankMatch' : m \in bankMatch \/ m.method = "manual"
  PROVE  BankInv'
<1>1. Booked' /\ Stays
  BY TablesStay
<1>2. ASSUME NEW q \in Person PROVE Underway(importing[q])'
  <2>1. PICK i : i = importing[q]
    OBVIOUS
  <2>2. Underway(i)'
    BY <1>1, <2>1 DEF Stays, BankInv
  <2> QED
    BY <2>1, <2>2 DEF Underway, Pairs, AccountOf
<1>3. ASSUME NEW m \in bankMatch', m.method = "auto" PROVE Proposal(m)'
  <2>1. Proposal(m)
    BY <1>3 DEF BankInv
  <2> QED
    BY <1>1, <2>1 DEF Stays
<1> QED
  BY <1>1, <1>2, <1>3 DEF BankInv, Stays

LEMMA OcrBankInv == ASSUME BankInv, UNCHANGED varsReconcile PROVE BankInv'
<1>1. UNCHANGED << bankEntry, imported, bankTx, bankMatch, importing, engineRuns >>
  BY DEF varsReconcile
<1> QED
  BY <1>1, PeopleBankInv

LEMMA NextBankInv ==
  ASSUME BankAssumption, BankInv, [NextReconcile \/ NextOcr]_varsBank
  PROVE  BankInv'
<1>1. CASE NextOcr \/ UNCHANGED varsBank
  BY <1>1, OcrBankInv DEF NextOcr, varsBank
<1>2. ASSUME NEW row \in BankPosting, PostToBank(row) PROVE BankInv'
  BY <1>2, PostBankInv
<1>3. ASSUME NEW p \in Person, NEW s \in Statement, NEW account \in BankAccount, ImportStatement(p, s, account)
      PROVE  BankInv'
  BY <1>3, StatementBankInv
<1>4. ASSUME NEW p \in Person, UnmatchedBankRows(p) PROVE BankInv'
  BY <1>4, LinesBankInv
<1>5. ASSUME NEW p \in Person, AutoMatch(p) PROVE BankInv'
  BY <1>5, EngineBankInv
<1>6. ASSUME NEW p \in Person, InsertProposal(p) PROVE BankInv'
  BY <1>6, InsertBankInv
<1>7. ASSUME NEW p \in Person, FinishImport(p) \/ CutOffImport(p) PROVE BankInv'
  BY <1>7, LeavingBankInv
<1>8. ASSUME NEW p \in Person, NEW t \in DOMAIN bankTx, NEW e \in DOMAIN bankEntry, ManualMatch(p, t, e)
      PROVE  BankInv'
  <2>1. /\ bankMatch' = bankMatch \cup {[tx |-> t, entry |-> e, method |-> "manual"]}
        /\ UNCHANGED << bankEntry, imported, bankTx, importing, engineRuns >>
    BY <1>8 DEF ManualMatch
  <2>2. \A m \in bankMatch' : m \in bankMatch \/ m.method = "manual"
    BY <2>1
  <2> QED
    BY <2>1, <2>2, PeopleBankInv
<1>9. ASSUME NEW p \in Person, NEW t \in DOMAIN bankTx, UnmatchBank(p, t) PROVE BankInv'
  <2>1. /\ bankMatch' \subseteq bankMatch
        /\ UNCHANGED << bankEntry, imported, bankTx, importing, engineRuns >>
    BY <1>9 DEF UnmatchBank
  <2> QED
    BY <2>1, PeopleBankInv
<1>10. CASE NextReconcile
  BY <1>2, <1>3, <1>4, <1>5, <1>6, <1>7, <1>8, <1>9, <1>10 DEF NextReconcile
<1> QED
  BY <1>1, <1>10

-----------------------------------------------------------------------------
LEMMA BankInvClear == ASSUME BankInv PROVE AutoMatchIsClear
<1>1. ASSUME NEW run \in engineRuns
      PROVE  \A q \in Pairs(run) : q.tx \in run.tx /\ q.entry \in run.entries
  <2> DEFINE R == [tx : run.tx, entry : run.entries]
  <2>1. Placed(run)
    BY DEF BankInv
  <2>2. run.proposals \in Seq(R) /\ \A x \in R : x.tx \in run.tx /\ x.entry \in run.entries
    BY <2>1 DEF Placed
  <2> HIDE DEF R
  <2>3. \A n \in DOMAIN run.proposals : run.proposals[n] \in R
    BY <2>2
  <2> QED
    BY <2>2, <2>3 DEF Pairs
<1>2. ASSUME NEW m \in bankMatch, m.method = "auto"
      PROVE  /\ AccountOf(m.tx) = bankEntry[m.entry].account
             /\ Agrees(m.tx, m.entry)
             /\ \E run \in engineRuns :
                   /\ [tx |-> m.tx, entry |-> m.entry] \in Pairs(run)
                   /\ \A e \in run.entries \ {m.entry} :
                         Agrees(m.tx, e) /\ Distance(m.tx, e) <= Distance(m.tx, m.entry)
                            => TakenIn(run, e, m.tx)
  <2>1. Proposal(m)
    BY <1>2 DEF BankInv
  <2>2. PICK run \in engineRuns : [tx |-> m.tx, entry |-> m.entry] \in Pairs(run)
    BY <2>1 DEF Proposal
  <2>3. PICK q : q = [tx |-> m.tx, entry |-> m.entry]
    OBVIOUS
  <2>4. q \in Pairs(run) /\ q.tx = m.tx /\ q.entry = m.entry
    BY <2>2, <2>3
  <2>5. Unrivalled(run, q)
    BY <2>4 DEF BankInv, ClearRun
  <2>6. AccountOf(m.tx) = bankEntry[m.entry].account
    <3>1. m.tx \in run.tx /\ m.entry \in run.entries
      BY <1>1, <2>4
    <3> QED
      BY <3>1 DEF BankInv, Placed
  <2> QED
    BY <2>2, <2>4, <2>5, <2>6 DEF Unrivalled
<1>3. ASSUME NEW run \in engineRuns, NEW t \in run.tx \ {q.tx : q \in Pairs(run)}, NEW e \in run.entries, Agrees(t, e)
      PROVE  TakenIn(run, e, t) \/ \E f \in run.entries \ {e} : Agrees(t, f)
  <2>1. Unclear(run, t)
    BY DEF BankInv, ClearRun
  <2> QED
    BY <1>3, <2>1 DEF Unclear
<1> QED
  BY <1>2, <1>3 DEF AutoMatchIsClear

(***************************************************************************)
(* Ties are never guessed and nothing clear is left: behind every row the  *)
(* engine put in, whoever matched beside it, is a run in which every other *)
(* entry at least as near went to another line; and a line passed over had *)
(* no candidate left to itself.                                            *)
(***************************************************************************)
THEOREM MatchesAreClear == SpecBank => []AutoMatchIsClear
<1>1. InitBank => BankInv
  BY InitBankInv
<1>2. BankInv /\ [NextReconcile \/ NextOcr]_varsBank => BankInv'
  BY BankAssumption, NextBankInv
<1>3. BankInv => AutoMatchIsClear
  BY BankInvClear
<1> QED
  BY <1>1, <1>2, <1>3, PTL DEF SpecBank

-----------------------------------------------------------------------------
(***************************************************************************)
(* Migration.                                                              *)
(***************************************************************************)
Voucher == [journal : {"IMP", "GL"}, date : Int, lines : Seq(LedgerLine)]
PartyRow == [no : Nat \ {NoParty}, kind : Kind, name : STRING]
Import == [pc : {"idle", "reconcile", "post", "items", "find", "number", "insert", "details"},
           file : {0} \cup DOMAIN HistoryFile \cup DOMAIN ItemsFile \cup DOMAIN ContactsFile,
           followUp : BOOLEAN, base : Nat, row : Nat, no : Nat]
Arrival == [what : {"saft", "items"}, file : DOMAIN HistoryFile \cup DOMAIN ItemsFile,
            read : Nat, from : Nat, to : Nat]

Books == hist \in Seq(Voucher) /\ chart \in [Account -> {Absent, Plain} \cup Kind]

\* The table of parties, unique (company_id, party_no).
PartyTable(rows) == IsFiniteSet(rows) /\ rows \subseteq PartyRow /\ \A x, y \in rows : x.no = y.no => x = y

Parties ==
    /\ PartyTable(party) /\ collided \subseteq party
    /\ \A c \in contactOf : Taken(party, c[1]) /\ c[2] \in ContactField

\* What an import has read holds until a voucher comes between.
HistoryAhead(m) ==
    /\ m.file \in DOMAIN HistoryFile /\ m.base <= Len(hist)
    /\ IF m.followUp THEN \A i \in 1..m.base : hist[i].journal = "IMP" ELSE m.base = 0
    /\ m.pc = "post" /\ m.followUp /\ m.base = Len(hist) =>
          \A a \in BalanceAccount : OpeningIn(HistoryFile[m.file], a) = Turnover(hist, a)

ItemsAhead(m) ==
    /\ m.file \in DOMAIN ItemsFile /\ m.base <= Len(hist)
    /\ m.base = Len(hist) => Turnover(hist, ItemsFile[m.file].account) = 0

ContactsAhead(m) ==
    /\ m.file \in DOMAIN ContactsFile /\ m.row \in DOMAIN ContactsFile[m.file]
    /\ m.pc = "insert" => m.no # NoParty
    /\ m.pc = "details" => Taken(party, m.no)

Prepared(m) ==
    /\ m.pc \in {"reconcile", "post"} => HistoryAhead(m)
    /\ m.pc = "items" => ItemsAhead(m)
    /\ m.pc \in {"find", "number", "insert", "details"} => ContactsAhead(m)

Started == migrating \in [Person -> Import] /\ \A p \in Person : Prepared(migrating[p])

Accounted(done) ==
    /\ done \in Arrival /\ done.to <= Len(hist)
    /\ done.what = "saft" => done.file \in DOMAIN HistoryFile /\ BalancesAddUp(done)
    /\ done.what = "items" => done.file \in DOMAIN ItemsFile /\ 1 <= done.to /\ ItemsAddUp(done)

MigInv ==
    /\ Books /\ Parties /\ Started
    /\ saftLog \subseteq {f.content : f \in Range(HistoryFile)}
    /\ \A done \in landed : Accounted(done)
    /\ PartiesRegisteredOnce

-----------------------------------------------------------------------------
(***************************************************************************)
(* Turnover.                                                               *)
(***************************************************************************)
LEMMA SumOfIs == ASSUME NEW g PROVE SumOf(g) = SumOver(g, DOMAIN g)
  BY DEF SumOf, SumOver, Sums, Pick, MapThenSumSet, MapThenFoldSet

Amounts(L) == \A l \in L : l.amount \in Int
Lined(R, L) == \A v \in R : v.lines \in Seq(L)
LineWeight(a, L) == [l \in L |-> IF l.account = a THEN l.amount ELSE 0]
VoucherWeight(a, R) == [v \in R |-> LineSum(v.lines, a)]

\* What a voucher has on an account, and what all of them have, is a weight of the log.
LEMMA LineSumWeighs ==
  ASSUME NEW L, Amounts(L), NEW lines \in Seq(L), NEW a
  PROVE  LineSum(lines, a) = Weight(LineWeight(a, L), lines) /\ LineSum(lines, a) \in Int
<1> DEFINE w == LineWeight(a, L)
           g == [i \in DOMAIN lines |-> IF lines[i].account = a THEN lines[i].amount ELSE 0]
<1>1. LineSum(lines, a) = SumOver(g, DOMAIN lines)
  <2>1. DOMAIN g = DOMAIN lines
    OBVIOUS
  <2> HIDE DEF g
  <2>2. SumOf(g) = SumOver(g, DOMAIN lines)
    BY <2>1, SumOfIs
  <2> QED
    BY <2>2 DEF LineSum, g
<1>2. g = Weighed(w, lines)
  <2>1. \A i \in DOMAIN lines : lines[i] \in L
    BY LogPlaces
  <2> QED
    BY <2>1 DEF Weighed, LineWeight
<1>3. Weights(w, L)
  BY DEF Weights, LineWeight, Amounts
<1> HIDE DEF w, g
<1> QED
  BY <1>1, <1>2, <1>3, WeightIsNumber DEF Weight, w

LEMMA TurnoverWeighs ==
  ASSUME NEW L, Amounts(L), NEW R, Lined(R, L), NEW vouchers \in Seq(R), NEW a
  PROVE  /\ Turnover(vouchers, a) = Weight(VoucherWeight(a, R), vouchers)
         /\ Weights(VoucherWeight(a, R), R) /\ Turnover(vouchers, a) \in Int
<1> DEFINE w == VoucherWeight(a, R)
           g == [i \in DOMAIN vouchers |-> LineSum(vouchers[i].lines, a)]
<1>1. Turnover(vouchers, a) = SumOver(g, DOMAIN vouchers)
  <2>1. DOMAIN g = DOMAIN vouchers
    OBVIOUS
  <2> HIDE DEF g
  <2>2. SumOf(g) = SumOver(g, DOMAIN vouchers)
    BY <2>1, SumOfIs
  <2> QED
    BY <2>2 DEF Turnover, g
<1>2. g = Weighed(w, vouchers)
  <2>1. \A i \in DOMAIN vouchers : vouchers[i] \in R
    BY LogPlaces
  <2> QED
    BY <2>1 DEF Weighed, VoucherWeight
<1>3. Weights(w, R)
  <2> SUFFICES ASSUME NEW v \in R PROVE w[v] \in Int
    BY DEF Weights
  <2>1. w[v] = LineSum(v.lines, a)
    BY DEF VoucherWeight
  <2>2. v.lines \in Seq(L)
    BY DEF Lined
  <2> QED
    BY <2>1, <2>2, LineSumWeighs
<1> HIDE DEF w, g
<1> QED
  BY <1>1, <1>2, <1>3, WeightIsNumber DEF Weight, w

LEMMA TurnoverJoined ==
  ASSUME NEW L, Amounts(L), NEW R, Lined(R, L), NEW vouchers \in Seq(R), NEW more \in Seq(R), NEW a
  PROVE  Turnover(vouchers \o more, a) = Turnover(vouchers, a) + Turnover(more, a)
<1>1. Weights(VoucherWeight(a, R), R)
  BY TurnoverWeighs
<1>2. /\ vouchers \o more \in Seq(R)
      /\ Weight(VoucherWeight(a, R), vouchers \o more)
           = Weight(VoucherWeight(a, R), vouchers) + Weight(VoucherWeight(a, R), more)
  BY <1>1, WeightJoined
<1> QED
  BY <1>2, TurnoverWeighs

LEMMA TurnoverOfNone == ASSUME NEW a PROVE Turnover(<< >>, a) = 0
<1>1. Amounts({}) /\ Lined({}, {}) /\ << >> \in Seq({})
  BY DEF Amounts, Lined
<1> QED
  BY <1>1, TurnoverWeighs, WeightOfNone

LEMMA TurnoverAppended ==
  ASSUME NEW L, Amounts(L), NEW R, Lined(R, L), NEW vouchers \in Seq(R), NEW v \in R, NEW a
  PROVE  /\ Turnover(Append(vouchers, v), a) = Turnover(vouchers, a) + LineSum(v.lines, a)
         /\ LineSum(v.lines, a) \in Int /\ Turnover(vouchers, a) \in Int
<1> DEFINE w == VoucherWeight(a, R)
<1>1. Weights(w, R) /\ w[v] = LineSum(v.lines, a)
  BY TurnoverWeighs DEF VoucherWeight
<1> HIDE DEF w
<1>2. Append(vouchers, v) \in Seq(R) /\ Weight(w, Append(vouchers, v)) = Weight(w, vouchers) + w[v]
  BY <1>1, WeightAppended
<1>3. LineSum(v.lines, a) \in Int
  BY LineSumWeighs DEF Lined
<1> QED
  BY <1>1, <1>2, <1>3, TurnoverWeighs DEF w

LEMMA TurnoverOfOne ==
  ASSUME NEW L, Amounts(L), NEW R, Lined(R, L), NEW v \in R, NEW a
  PROVE  Turnover(<< v >>, a) = LineSum(v.lines, a)
<1>1. PICK none : none = << >>
  OBVIOUS
<1>2. none \in Seq(R)
  BY <1>1
<1>3. Append(none, v) = << v >>
  BY <1>1
<1>4. Turnover(none, a) = 0
  BY <1>1, TurnoverOfNone
<1>5. /\ Turnover(Append(none, v), a) = Turnover(none, a) + LineSum(v.lines, a)
      /\ LineSum(v.lines, a) \in Int
  BY <1>2, TurnoverAppended
<1> QED
  BY <1>3, <1>4, <1>5

\* Only the accounts and the amounts of the lines count.
LEMMA TurnoverAlike ==
  ASSUME NEW vouchers, NEW told, DOMAIN vouchers = DOMAIN told, NEW a,
         \A i \in DOMAIN told : LineSum(vouchers[i].lines, a) = LineSum(told[i].lines, a)
  PROVE  Turnover(vouchers, a) = Turnover(told, a)
BY DEF Turnover

LEMMA LedgerIsLined == Amounts(LedgerLine) /\ Lined(Voucher, LedgerLine)
  BY DEF Amounts, Lined, LedgerLine, Voucher

-----------------------------------------------------------------------------
(***************************************************************************)
(* What a file becomes.                                                    *)
(***************************************************************************)
\* The sequence of a finite set has each of its members at one place.
LEMMA SequenceOfSet ==
  ASSUME NEW S, IsFiniteSet(S)
  PROVE  /\ Cardinality(S) \in Nat /\ SetToSeq(S) \in [1..Cardinality(S) -> S]
         /\ \A i, j \in 1..Cardinality(S) : SetToSeq(S)[i] = SetToSeq(S)[j] => i = j
         /\ \A x \in S : \E i \in 1..Cardinality(S) : SetToSeq(S)[i] = x
<1> DEFINE n == Cardinality(S)
           q == SetToSeq(S)
<1>1. n \in Nat /\ ExistsBijection(1..n, S)
  BY FS_CardinalityType
<1>2. \E f \in [1..n -> S] : IsInjective(f)
  BY <1>1 DEF ExistsBijection, Bijection, Injection
<1>3. q \in [1..n -> S] /\ IsInjective(q)
  BY <1>2 DEF SetToSeq
<1>4. q \in Injection(1..n, S) /\ Cardinality(1..n) = n
  <2> HIDE DEF q
  <2>1. Cardinality(1..n) = n
    BY <1>1, FS_Interval
  <2> QED
    BY <1>3, <2>1 DEF Injection
<1>5. q \in Surjection(1..n, S)
  BY <1>4, FS_Injection
<1> HIDE DEF q, n
<1>6. /\ \A i, j \in 1..n : q[i] = q[j] => i = j
      /\ \A x \in S : \E i \in 1..n : q[i] = x
  BY <1>3, <1>5 DEF IsInjective, Surjection
<1> QED
  BY <1>1, <1>3, <1>6 DEF q, n

FileTx == [date : Int, lines : Seq(FileLine)]

\* A parsed file, whatever it says.
FileRead(f) ==
    /\ DOMAIN f.opening \subseteq Account /\ IsFiniteSet(DOMAIN f.opening)
    /\ \A a \in DOMAIN f.opening : f.opening[a] \in Int
    /\ f.start \in Int /\ f.txs \in Seq(FileTx) /\ f.parties \in Seq(FileParty)

LEMMA FilesAreRead == \A n \in DOMAIN HistoryFile : FileRead(HistoryFile[n]) /\ HistoryFile[n] \in Range(HistoryFile)
  BY MigrationAssumption DEF FileRead, FileTx, Range

LEMMA FileIsLined == Amounts(FileLine) /\ Lined(FileTx, FileLine)
  BY DEF Amounts, Lined, FileLine, FileTx

\* The opening voucher has on every account what the file opens it with.
LEMMA OpeningOpens ==
  ASSUME NEW f, FileRead(f), NEW a
  PROVE  /\ OpeningVoucher(f) \in Voucher /\ OpeningVoucher(f).journal = "IMP"
         /\ LineSum(OpeningVoucher(f).lines, a) = OpeningIn(f, a) /\ OpeningIn(f, a) \in Int
<1> DEFINE S == Opened(f)
           n == Cardinality(S)
           q == SetToSeq(S)
           lines == [i \in 1..n |-> [account |-> q[i], amount |-> f.opening[q[i]], party |-> NoParty]]
           g == [i \in 1..n |-> IF lines[i].account = a THEN lines[i].amount ELSE 0]
<1>1. IsFiniteSet(S) /\ S \subseteq Account /\ \A b \in S : f.opening[b] \in Int
  BY FS_Subset DEF Opened, FileRead
<1>2. /\ n \in Nat /\ q \in [1..n -> S]
      /\ \A i, j \in 1..n : q[i] = q[j] => i = j
      /\ \A x \in S : \E i \in 1..n : q[i] = x
  <2> HIDE DEF S
  <2> QED
    BY <1>1, SequenceOfSet
<1>3. OpeningVoucher(f) = [journal |-> "IMP", date |-> f.start - 1, lines |-> lines]
  <2> HIDE DEF n
  <2>1. DOMAIN q = 1..n
    BY <1>2
  <2> QED
    BY <2>1 DEF OpeningVoucher
<1> HIDE DEF q, n, S
<1>4. \A i \in 1..n : lines[i] \in LedgerLine
  BY <1>1, <1>2 DEF LedgerLine, NoParty
<1>5. lines \in Seq(LedgerLine)
  <2> HIDE DEF lines
  <2>1. lines = [i \in 1..n |-> lines[i]]
    BY DEF lines
  <2> QED
    BY <1>2, <1>4, <2>1
<1>6. LineSum(lines, a) = SumOver(g, 1..n)
  <2>1. DOMAIN lines = 1..n /\ DOMAIN g = 1..n
    OBVIOUS
  <2> HIDE DEF lines
  <2>2. LineSum(lines, a) = SumOf(g)
    BY <2>1 DEF LineSum
  <2> HIDE DEF g
  <2> QED
    BY <2>1, <2>2, SumOfIs
<1>7. IsFiniteSet(1..n) /\ \A i \in 1..n : g[i] = IF q[i] = a THEN f.opening[a] ELSE 0
  <2>1. IsFiniteSet(1..n)
    BY <1>2, FS_Interval
  <2>2. \A i \in 1..n : lines[i].account = q[i] /\ lines[i].amount = f.opening[q[i]]
    OBVIOUS
  <2> HIDE DEF lines
  <2>3. \A i \in 1..n : g[i] = IF q[i] = a THEN f.opening[a] ELSE 0
    BY <2>2
  <2> QED
    BY <2>1, <2>3
<1> HIDE DEF lines, g
<1>8. CASE a \in S
  <2>1. PICK i \in 1..n : q[i] = a
    BY <1>2, <1>8
  <2>2. g[i] = f.opening[a] /\ f.opening[a] \in Int /\ \A j \in 1..n : j # i => g[j] = 0
    BY <1>1, <1>2, <1>7, <1>8, <2>1
  <2>3. SumOver(g, 1..n) = g[i]
    BY <1>7, <2>2, TotalOfOne
  <2>4. OpeningIn(f, a) = f.opening[a]
    BY <1>8 DEF OpeningIn, Opened, S
  <2> QED
    BY <1>3, <1>5, <1>6, <2>2, <2>3, <2>4 DEF Voucher, FileRead
<1>9. CASE a \notin S
  <2>1. \A j \in 1..n : g[j] = 0
    BY <1>2, <1>7, <1>9
  <2>2. SumOver(g, 1..n) = 0
    BY <1>7, <2>1, TotalOfNothing
  <2>3. OpeningIn(f, a) = 0
    BY <1>9 DEF OpeningIn, Opened, S
  <2> QED
    BY <1>3, <1>5, <1>6, <2>2, <2>3 DEF Voucher, FileRead
<1> QED
  BY <1>8, <1>9

LEMMA MakesSequence ==
  ASSUME NEW R, NEW n \in Nat, NEW s, s = [i \in 1..n |-> s[i]], \A i \in 1..n : s[i] \in R
  PROVE  s \in Seq(R) /\ Len(s) = n
OBVIOUS

\* A line that may be posted names a party that is there, or none.
LEMMA PostableNames ==
  ASSUME NEW v, NEW accounts, NEW parties, PartyTable(parties), Postable(v, accounts, parties),
         NEW i \in DOMAIN v.lines
  PROVE  v.lines[i].party \in Nat
BY DEF Postable, PartyTable, PartyRow, NoParty

OpeningPart(f, followUp) == IF ~followUp /\ Opened(f) # {} THEN << OpeningVoucher(f) >> ELSE << >>
HistoryPart(f, followUp) == [i \in DOMAIN f.txs |-> HistoryVoucher(f, f.txs[i], FlagsFor(f, followUp))]

\* Imported, and every line with its account and its amount.
TakenOver(v, tx) ==
    v \in Voucher /\ v.journal = "IMP" /\ \A a : LineSum(v.lines, a) = LineSum(tx.lines, a)

\* A transaction of the file, as it was.
LEMMA HistoryVoucherIs ==
  ASSUME NEW f, NEW tx \in FileTx, NEW flags, NEW accounts, NEW parties, PartyTable(parties),
         Postable(HistoryVoucher(f, tx, flags), accounts, parties)
  PROVE  TakenOver(HistoryVoucher(f, tx, flags), tx)
<1> DEFINE v == HistoryVoucher(f, tx, flags)
<1>1. tx.lines \in Seq(FileLine) /\ tx.date \in Int
  BY DEF FileTx
<1>2. /\ v = [journal |-> "IMP", date |-> tx.date, lines |-> v.lines]
      /\ DOMAIN v.lines = DOMAIN tx.lines /\ v.lines = [i \in DOMAIN tx.lines |-> v.lines[i]]
      /\ \A i \in DOMAIN tx.lines :
            /\ v.lines[i].account = tx.lines[i].account /\ v.lines[i].amount = tx.lines[i].amount
            /\ v.lines[i] = [account |-> v.lines[i].account, amount |-> v.lines[i].amount, party |-> v.lines[i].party]
  BY DEF HistoryVoucher
<1>3. \A i \in DOMAIN tx.lines : v.lines[i].party \in Nat
  BY <1>2, PostableNames
<1> HIDE DEF v
<1>4. \A i \in DOMAIN tx.lines : v.lines[i] \in LedgerLine
  <2> SUFFICES ASSUME NEW i \in DOMAIN tx.lines PROVE v.lines[i] \in LedgerLine
    OBVIOUS
  <2>1. tx.lines[i] \in FileLine
    BY <1>1, LogPlaces
  <2>2. tx.lines[i].account \in Account /\ tx.lines[i].amount \in Int
    BY <2>1 DEF FileLine
  <2>3. \A x \in Account, y \in Int, z \in Nat : [account |-> x, amount |-> y, party |-> z] \in LedgerLine
    BY DEF LedgerLine
  <2> QED
    BY <1>2, <1>3, <2>2, <2>3
<1>5. v.lines \in Seq(LedgerLine)
  <2>1. DOMAIN tx.lines = 1..Len(tx.lines) /\ Len(tx.lines) \in Nat
    BY <1>1, LogPlaces
  <2> QED
    BY <1>2, <1>4, <2>1, MakesSequence
<1>6. v \in Voucher /\ v.journal = "IMP"
  BY <1>1, <1>2, <1>5 DEF Voucher
<1>7. ASSUME NEW a PROVE LineSum(v.lines, a) = LineSum(tx.lines, a)
  BY <1>2 DEF LineSum
<1> QED
  BY <1>6, <1>7 DEF v, TakenOver

\* All the vouchers of a file are imported history, and add its opening and its turnover to what was.
LEMMA FileAddsUp ==
  ASSUME NEW f, FileRead(f), NEW followUp \in BOOLEAN, NEW accounts, NEW parties, PartyTable(parties),
         AllPostable(VouchersOf(f, followUp), accounts, parties)
  PROVE  /\ VouchersOf(f, followUp) \in Seq(Voucher)
         /\ \A i \in DOMAIN VouchersOf(f, followUp) : VouchersOf(f, followUp)[i].journal = "IMP"
         /\ \A a : /\ Turnover(VouchersOf(f, followUp), a)
                         = (IF followUp THEN 0 ELSE OpeningIn(f, a)) + Turnover(f.txs, a)
                   /\ OpeningIn(f, a) \in Int /\ Turnover(f.txs, a) \in Int
<1> DEFINE first == OpeningPart(f, followUp)
           rest == HistoryPart(f, followUp)
<1>1. VouchersOf(f, followUp) = first \o rest
  BY DEF VouchersOf, OpeningPart, HistoryPart
<1>2. first \in Seq(Voucher) /\ \A i \in DOMAIN first : first[i].journal = "IMP"
  BY OpeningOpens DEF OpeningPart
<1>3. /\ f.txs \in Seq(FileTx) /\ DOMAIN f.txs = 1..Len(f.txs) /\ Len(f.txs) \in Nat
      /\ DOMAIN rest = DOMAIN f.txs /\ Len(rest) = Len(f.txs)
  <2>1. f.txs \in Seq(FileTx)
    BY DEF FileRead
  <2>2. DOMAIN f.txs = 1..Len(f.txs) /\ Len(f.txs) \in Nat
    BY <2>1, LogPlaces
  <2> QED
    BY <2>1, <2>2 DEF HistoryPart
<1>4. ASSUME NEW i \in DOMAIN f.txs
      PROVE  TakenOver(rest[i], f.txs[i])
  <2>1. rest[i] = HistoryVoucher(f, f.txs[i], FlagsFor(f, followUp)) /\ f.txs[i] \in FileTx
    BY <1>3, LogPlaces DEF HistoryPart
  <2>2. Len(first) + i \in DOMAIN (first \o rest) /\ (first \o rest)[Len(first) + i] = rest[i]
    <3>1. Len(first) \in Nat
      BY <1>2, LogPlaces
    <3> HIDE DEF first, rest
    <3> QED
      BY <1>3, <3>1
  <2>3. Postable(rest[i], accounts, parties)
    BY <1>1, <2>2 DEF AllPostable
  <2> HIDE DEF rest
  <2> QED
    BY <2>1, <2>3, HistoryVoucherIs
<1>5. rest \in Seq(Voucher)
  <2>1. rest = [i \in 1..Len(f.txs) |-> rest[i]]
    BY <1>3 DEF HistoryPart
  <2> HIDE DEF rest
  <2> QED
    BY <1>3, <1>4, <2>1, MakesSequence DEF TakenOver
<1> HIDE DEF first, rest
<1>6. first \o rest \in Seq(Voucher)
  BY <1>2, <1>5
<1>7. ASSUME NEW i \in DOMAIN (first \o rest) PROVE (first \o rest)[i].journal = "IMP"
  <2>1. Len(first) \in Nat /\ DOMAIN first = 1..Len(first) /\ DOMAIN rest = 1..Len(rest) /\ Len(rest) \in Nat
    BY <1>2, <1>5, LogPlaces
  <2>2. CASE i <= Len(first)
    <3>1. i \in DOMAIN first /\ (first \o rest)[i] = first[i]
      BY <2>1, <2>2
    <3> QED
      BY <1>2, <3>1
  <2>3. CASE i > Len(first)
    <3>1. i - Len(first) \in DOMAIN rest /\ (first \o rest)[i] = rest[i - Len(first)]
      BY <2>1, <2>3
    <3> QED
      BY <1>3, <1>4, <3>1 DEF TakenOver
  <2> QED
    BY <2>1, <2>2, <2>3
<1>8. ASSUME NEW a
      PROVE  /\ Turnover(first \o rest, a) = (IF followUp THEN 0 ELSE OpeningIn(f, a)) + Turnover(f.txs, a)
             /\ OpeningIn(f, a) \in Int /\ Turnover(f.txs, a) \in Int
  <2>1. Turnover(first \o rest, a) = Turnover(first, a) + Turnover(rest, a)
    BY <1>2, <1>5, LedgerIsLined, TurnoverJoined
  <2>2. Turnover(rest, a) = Turnover(f.txs, a)
    <3>1. \A i \in DOMAIN f.txs : LineSum(rest[i].lines, a) = LineSum(f.txs[i].lines, a)
      BY <1>4 DEF TakenOver
    <3>2. DOMAIN rest = DOMAIN f.txs
      BY <1>3
    <3> QED
      BY <3>1, <3>2, TurnoverAlike
  <2>3. Turnover(f.txs, a) \in Int
    BY <1>3, FileIsLined, TurnoverWeighs
  <2>4. OpeningIn(f, a) \in Int
    BY OpeningOpens
  <2>5. Turnover(first, a) = IF followUp THEN 0 ELSE OpeningIn(f, a)
    <3>1. CASE ~followUp /\ Opened(f) # {}
      <4>1. OpeningVoucher(f) \in Voucher /\ LineSum(OpeningVoucher(f).lines, a) = OpeningIn(f, a)
        BY OpeningOpens
      <4>2. Turnover(<< OpeningVoucher(f) >>, a) = OpeningIn(f, a)
        BY <4>1, LedgerIsLined, TurnoverOfOne
      <4> QED
        BY <3>1, <4>2 DEF first, OpeningPart
    <3>2. CASE ~followUp /\ Opened(f) = {}
      <4>1. OpeningIn(f, a) = 0
        BY <3>2 DEF OpeningIn, Opened
      <4> QED
        BY <3>2, <4>1, TurnoverOfNone DEF first, OpeningPart
    <3>3. CASE followUp
      BY <3>3, TurnoverOfNone DEF first, OpeningPart
    <3> QED
      BY <3>1, <3>2, <3>3
  <2> QED
    BY <2>1, <2>2, <2>3, <2>4, <2>5
<1> QED
  BY <1>1, <1>6, <1>7, <1>8

-----------------------------------------------------------------------------
(***************************************************************************)
(* The chart and the parties a file brings.                                *)
(***************************************************************************)
LEMMA PlacesAreFinite ==
  ASSUME NEW R, NEW s \in Seq(R)
  PROVE  IsFiniteSet(DOMAIN s) /\ DOMAIN s \subseteq Int /\ \A i \in DOMAIN s : i \in Nat /\ i >= 1
<1>1. DOMAIN s = 1..Len(s) /\ Len(s) \in Nat
  BY LogPlaces
<1>2. IsFiniteSet(1..Len(s))
  BY <1>1, FS_Interval
<1> QED
  BY <1>1, <1>2

LEMMA MaxIn ==
  ASSUME NEW S, IsFiniteSet(S), S \subseteq Int, S # {}
  PROVE  Max(S) \in S /\ \A y \in S : Max(S) >= y
<1>1. WholeNumbers(S)
  BY DEF WholeNumbers
<1>2. \E x \in S : \A y \in S : x >= y
  BY <1>1, HasGreatest
<1> QED
  BY <1>2 DEF Max

\* Lines on an account give it no kind but their own.
LEMMA FlagIsKind ==
  ASSUME NEW f, FileRead(f), NEW a
  PROVE  FlagIn(f, a) \in {Plain} \cup Kind
<1> DEFINE on == OnAccount(f, a)
           tx == Max({at[1] : at \in on})
           line == Max({at[2] : at \in {o \in on : o[1] = tx}})
<1>1. \A at \in on : /\ at[1] \in DOMAIN f.txs /\ at[2] \in DOMAIN f.txs[at[1]].lines
  BY DEF OnAccount
<1>2. /\ \A i \in DOMAIN f.txs : f.txs[i].lines \in Seq(FileLine)
      /\ f.txs \in Seq(FileTx)
  <2>1. f.txs \in Seq(FileTx)
    BY DEF FileRead
  <2>2. \A i \in DOMAIN f.txs : f.txs[i] \in FileTx
    BY <2>1, LogPlaces
  <2> QED
    BY <2>1, <2>2 DEF FileTx
<1>3. ASSUME on # {} PROVE KindAt(f, tx, line) \in {Plain} \cup Kind
  <2> DEFINE F == {at[1] : at \in on}
             T == {at[2] : at \in {o \in on : o[1] = tx}}
  <2> HIDE DEF on
  <2>1. F \subseteq DOMAIN f.txs /\ F # {}
    BY <1>1, <1>3
  <2>2. DOMAIN f.txs \subseteq Int /\ IsFiniteSet(DOMAIN f.txs)
    BY <1>2, PlacesAreFinite
  <2>3. tx \in F
    <3>1. IsFiniteSet(F) /\ F \subseteq Int
      BY <2>1, <2>2, FS_Subset
    <3> HIDE DEF F
    <3> QED
      BY <2>1, <3>1, MaxIn DEF F
  <2>4. tx \in DOMAIN f.txs
    BY <2>1, <2>3
  <2>5. T # {}
    <3>1. PICK at \in on : at[1] = tx
      BY <2>3
    <3> HIDE DEF tx
    <3> QED
      BY <3>1
  <2> HIDE DEF tx
  <2>6. T \subseteq DOMAIN f.txs[tx].lines
    BY <1>1
  <2>7. DOMAIN f.txs[tx].lines \subseteq Int /\ IsFiniteSet(DOMAIN f.txs[tx].lines)
    <3>1. f.txs[tx].lines \in Seq(FileLine)
      BY <1>2, <2>4
    <3> QED
      BY <3>1, PlacesAreFinite
  <2>8. line \in T
    <3>1. IsFiniteSet(T) /\ T \subseteq Int
      BY <2>6, <2>7, FS_Subset
    <3> HIDE DEF T
    <3> QED
      BY <2>5, <3>1, MaxIn DEF T
  <2>9. f.txs[tx].lines[line] \in FileLine
    <3>1. line \in DOMAIN f.txs[tx].lines
      BY <2>6, <2>8
    <3> HIDE DEF line
    <3> QED
      BY <1>2, <2>4, <3>1, LogPlaces
  <2> HIDE DEF line
  <2> QED
    BY <2>9 DEF KindAt, FileLine
<1> QED
  BY <1>3 DEF FlagIn

LEMMA ChartStaysTyped ==
  ASSUME chart \in [Account -> {Absent, Plain} \cup Kind], NEW f, FileRead(f), NEW followUp \in BOOLEAN
  PROVE  ChartWith(f, followUp) \in [Account -> {Absent, Plain} \cup Kind]
<1>1. \A a \in Account : FlagIn(f, a) \in {Plain} \cup Kind
  BY FlagIsKind
<1> QED
  BY <1>1 DEF ChartWith, FlagsFor

\* Numbers of a file's parties are numbers.
LEMMA NumberIsGiven ==
  ASSUME NEW f, FileRead(f), NEW i \in DOMAIN f.parties
  PROVE  NumberIn(f, i) \in Nat \ {NoParty} /\ PartyIn(f, i) \in PartyRow
<1>1. f.parties \in Seq(FileParty) /\ f.parties[i] \in FileParty /\ i \in Nat /\ i >= 1
  BY LogPlaces DEF FileRead
<1> DEFINE C == {j \in 1 .. i : f.parties[j].no = NoParty}
<1>2. IsFiniteSet(C)
  <2>1. IsFiniteSet(1..i) /\ C \subseteq 1..i
    BY <1>1, FS_Interval
  <2> HIDE DEF C
  <2> QED
    BY <2>1, FS_Subset
<1>3. Cardinality(C) \in Nat /\ (i \in C => Cardinality(C) >= 1)
  <2> HIDE DEF C
  <2> QED
    BY <1>2, Counts
<1>4. f.parties[i].no = NoParty => i \in C
  BY <1>1
<1>5. NumberIn(f, i) = IF f.parties[i].no # NoParty THEN f.parties[i].no ELSE RenumberFrom + Cardinality(C)
  BY DEF NumberIn
<1> HIDE DEF C
<1>6. NumberIn(f, i) \in Nat \ {NoParty}
  <2>1. RenumberFrom \in Nat
    BY MigrationAssumption
  <2>2. f.parties[i].no \in Nat
    BY <1>1 DEF FileParty
  <2>3. PICK given : given = f.parties[i].no
    OBVIOUS
  <2>4. given = NoParty => Cardinality(C) \in Nat /\ Cardinality(C) >= 1
    BY <1>3, <1>4, <2>3
  <2>5. given \in Nat /\ NumberIn(f, i) = IF given # NoParty THEN given ELSE RenumberFrom + Cardinality(C)
    BY <1>5, <2>2, <2>3
  <2> QED
    BY <2>1, <2>4, <2>5 DEF NoParty
<1> QED
  BY <1>1, <1>6 DEF PartyIn, PartyRow, FileParty

\* One more row, with a number nobody has.
LEMMA OneMoreParty ==
  ASSUME NEW rows, PartyTable(rows), NEW new \in PartyRow, \A x \in rows : x.no # new.no
  PROVE  PartyTable(rows \cup {new})
<1>1. IsFiniteSet(rows \cup {new})
  BY FS_AddElement DEF PartyTable
<1> QED
  BY <1>1 DEF PartyTable

LEMMA PartiesStayUnique ==
  ASSUME PartyTable(party), NEW f, FileRead(f)
  PROVE  PartyTable(PartiesWith(f)) /\ party \subseteq PartiesWith(f)
<1> DEFINE I == {j \in DOMAIN f.parties : ~Conflicts(f, j)}
           new == {PartyIn(f, i) : i \in I}
           row == [i \in I |-> PartyIn(f, i)]
<1>1. IsFiniteSet(I) /\ \A i \in I : i \in Nat /\ i >= 1 /\ i \in DOMAIN f.parties
  <2>1. f.parties \in Seq(FileParty)
    BY DEF FileRead
  <2>2. IsFiniteSet(DOMAIN f.parties) /\ I \subseteq DOMAIN f.parties
    BY <2>1, PlacesAreFinite
  <2>3. IsFiniteSet(I)
    <3> HIDE DEF I
    <3> QED
      BY <2>2, FS_Subset
  <2> QED
    BY <2>1, <2>3, PlacesAreFinite
<1>2. IsFiniteSet(new)
  <2>1. \A y \in new : \E x \in I : y = row[x]
    OBVIOUS
  <2> HIDE DEF new, I, row
  <2> QED
    BY <1>1, <2>1, FiniteImage
<1>3. new \subseteq PartyRow
  BY NumberIsGiven
<1>4. \A i \in I : PartyIn(f, i).no = NumberIn(f, i) /\ ~Conflicts(f, i)
  BY DEF PartyIn
<1>5. \A i \in I, x \in party : PartyIn(f, i).no # x.no
  BY <1>4 DEF Conflicts
<1>6. \A i, j \in I : PartyIn(f, i).no = PartyIn(f, j).no => i = j
  <2> SUFFICES ASSUME NEW i \in I, NEW j \in I, NumberIn(f, i) = NumberIn(f, j), i # j PROVE FALSE
    BY <1>4
  <2>1. CASE i < j
    BY <1>1, <1>4, <2>1 DEF Conflicts
  <2>2. CASE j < i
    BY <1>1, <1>4, <2>2 DEF Conflicts
  <2> QED
    BY <1>1, <2>1, <2>2
<1>7. PartiesWith(f) = party \cup new
  BY DEF PartiesWith
<1>8. \A x, y \in party \cup new : x.no = y.no => x = y
  <2> HIDE DEF I
  <2>1. \A x \in new : \E i \in I : x = PartyIn(f, i)
    OBVIOUS
  <2> HIDE DEF new
  <2> QED
    BY <1>5, <1>6, <2>1 DEF PartyTable
<1>9. IsFiniteSet(party \cup new)
  BY <1>2, FS_Union DEF PartyTable
<1> HIDE DEF new
<1> QED
  BY <1>3, <1>7, <1>8, <1>9 DEF PartyTable

\* Numbers within a kind go on from the highest of them.
LEMMA NextNoIsNumber ==
  ASSUME NEW parties, IsFiniteSet(parties), parties \subseteq PartyRow, NEW kind, NEW first \in Nat \ {NoParty}
  PROVE  NextNo(parties, kind, first) \in Nat \ {NoParty}
<1> DEFINE of == {y \in parties : y.kind = kind}
           numbers == {x.no : x \in of}
           no == [x \in of |-> x.no]
<1>1. IsFiniteSet(numbers)
  <2>1. IsFiniteSet(of) /\ \A y \in numbers : \E x \in of : y = no[x]
    BY FS_Subset
  <2> HIDE DEF of, numbers, no
  <2> QED
    BY <2>1, FiniteImage
<1>2. numbers \subseteq Nat
  BY DEF PartyRow
<1>3. ASSUME numbers # {} PROVE Max(numbers) \in Nat
  <2>1. numbers \subseteq Int
    BY <1>2
  <2> HIDE DEF numbers
  <2> QED
    BY <1>1, <1>2, <1>3, <2>1, MaxIn
<1>4. NextNo(parties, kind, first) = IF numbers = {} THEN first ELSE Max(numbers) + 1
  BY DEF NextNo
<1> HIDE DEF numbers
<1> QED
  BY <1>3, <1>4 DEF NoParty

-----------------------------------------------------------------------------
(***************************************************************************)
(* A list of open items, row by row.                                       *)
(***************************************************************************)
ListRead(f) ==
    /\ f.account \in Account /\ f.contra \in Account /\ f.account # f.contra
    /\ f.kind \in Kind /\ f.date \in Int /\ f.rows \in Seq(OpenItem) /\ f.rows # << >>

LEMMA ListsAreRead == \A n \in DOMAIN ItemsFile : ListRead(ItemsFile[n])
<1> SUFFICES ASSUME NEW n \in DOMAIN ItemsFile PROVE ListRead(ItemsFile[n])
  OBVIOUS
<1>1. ItemsFile[n] \in Range(ItemsFile)
  BY DEF Range
<1> QED
  BY <1>1, MigrationAssumption DEF ListRead

\* Parties and lines, whether or not they may be posted.
Drafted == [ok : BOOLEAN, parties : {rows \in SUBSET PartyRow : IsFiniteSet(rows)}, lines : Seq(LedgerLine)]

NoItems == [ok |-> TRUE, parties |-> party, lines |-> << >>]

Signed(f, amount) == IF f.kind = "kunde" THEN amount ELSE -amount

\* The party a row is put on: the one found, or one of its own.
ItemParty(f, rows, row) ==
    LET found == Found(rows, f.kind, row.no, row.name) IN
    IF found # {} THEN CHOOSE x \in found : TRUE
    ELSE [no |-> IF row.no # NoParty THEN row.no ELSE NextNo(rows, f.kind, FirstItemPartyNo[f.kind]),
          kind |-> f.kind, name |-> row.name]

ItemLine(f, rows, row) ==
    [account |-> f.account, party |-> ItemParty(f, rows, row).no, amount |-> Signed(f, row.amount)]

LEMMA ItemPartyIs ==
  ASSUME NEW f, ListRead(f), NEW rows, IsFiniteSet(rows), rows \subseteq PartyRow, NEW row \in OpenItem
  PROVE  /\ ItemParty(f, rows, row) \in PartyRow /\ ItemParty(f, rows, row).kind = f.kind
         /\ ItemParty(f, rows, row).no = row.no \/ ItemParty(f, rows, row).name = row.name
         /\ Found(rows, f.kind, row.no, row.name) # {} => ItemParty(f, rows, row) \in rows
<1> DEFINE found == Found(rows, f.kind, row.no, row.name)
<1>1. CASE found # {}
  <2>1. \A x \in found : x \in rows /\ x.kind = f.kind /\ (x.no = row.no \/ x.name = row.name)
    BY DEF Found
  <2> HIDE DEF found
  <2>2. (CHOOSE x \in found : TRUE) \in found
    BY <1>1
  <2> QED
    BY <1>1, <2>1, <2>2 DEF ItemParty, found
<1>2. CASE found = {}
  <2>1. row.no \in Nat /\ row.name \in STRING /\ f.kind \in Kind
    BY DEF OpenItem, ListRead
  <2>2. NextNo(rows, f.kind, FirstItemPartyNo[f.kind]) \in Nat \ {NoParty}
    <3>1. FirstItemPartyNo[f.kind] \in Nat \ {NoParty}
      BY <2>1, MigrationAssumption
    <3> QED
      BY <3>1, NextNoIsNumber
  <2> QED
    BY <1>2, <2>1, <2>2 DEF ItemParty, PartyRow
<1> QED
  BY <1>1, <1>2

LEMMA WithItemIs ==
  ASSUME NEW f, ListRead(f), NEW done \in Drafted, NEW row \in OpenItem
  PROVE  LET x == ItemParty(f, done.parties, row)
             found == Found(done.parties, f.kind, row.no, row.name)
         IN WithItem(f, done, row)
              = [ok |-> done.ok /\ (found # {} \/ ~Taken(done.parties, x.no)),
                 parties |-> IF found # {} THEN done.parties ELSE done.parties \cup {x},
                 lines |-> Append(done.lines, ItemLine(f, done.parties, row))]
<1> DEFINE found == Found(done.parties, f.kind, row.no, row.name)
<1>1. CASE found # {}
  BY <1>1 DEF WithItem, ItemParty, ItemLine, Signed
<1>2. CASE found = {}
  BY <1>2 DEF WithItem, ItemParty, ItemLine, Signed
<1> QED
  BY <1>1, <1>2

LEMMA DraftStaysTyped ==
  ASSUME NEW f, ListRead(f), NEW done \in Drafted, NEW row \in OpenItem
  PROVE  /\ WithItem(f, done, row) \in Drafted
         /\ ItemLine(f, done.parties, row) \in LedgerLine
<1> DEFINE x == ItemParty(f, done.parties, row)
           found == Found(done.parties, f.kind, row.no, row.name)
           line == ItemLine(f, done.parties, row)
<1>1. /\ done.ok \in BOOLEAN /\ IsFiniteSet(done.parties) /\ done.parties \subseteq PartyRow
      /\ done.lines \in Seq(LedgerLine)
  BY DEF Drafted
<1>2. x \in PartyRow
  BY <1>1, ItemPartyIs
<1>3. line \in LedgerLine
  <2>1. x.no \in Nat
    BY <1>2 DEF PartyRow
  <2>2. f.account \in Account /\ Signed(f, row.amount) \in Int
    BY DEF ListRead, OpenItem, Signed
  <2> HIDE DEF x
  <2> QED
    BY <2>1, <2>2 DEF ItemLine, LedgerLine, x
<1>4. IsFiniteSet(done.parties \cup {x}) /\ done.parties \cup {x} \subseteq PartyRow
  BY <1>1, <1>2, FS_AddElement
<1>5. Append(done.lines, line) \in Seq(LedgerLine)
  <2> HIDE DEF line
  <2> QED
    BY <1>1, <1>3
<1>6. WithItem(f, done, row) = [ok |-> done.ok /\ (found # {} \/ ~Taken(done.parties, x.no)),
                                parties |-> IF found # {} THEN done.parties ELSE done.parties \cup {x},
                                lines |-> Append(done.lines, line)]
  BY WithItemIs
<1> HIDE DEF x, line, found
<1>7. (done.ok /\ (found # {} \/ ~Taken(done.parties, x.no))) \in BOOLEAN
  OBVIOUS
<1> QED
  BY <1>1, <1>3, <1>4, <1>5, <1>6, <1>7 DEF Drafted, line

Taking(k, f) ==
    /\ k[{}] = NoItems
    /\ \A j \in 1..Len(f.rows) : k[1..j] = WithItem(f, k[1..(j - 1)], f.rows[j])

\* The list is the last of a chain, one row after the other.
LEMMA ItemsChain ==
  ASSUME NEW f, ListRead(f), PartyTable(party)
  PROVE  \E k : ItemsOf(f) = k[1..Len(f.rows)] /\ Taking(k, f) /\ NoItems \in Drafted
<1> DEFINE rows == f.rows
           n == Len(rows)
           S == 1..n
           chain(k) == k = [s \in SUBSET S |-> IF s = {} THEN NoItems
                                               ELSE WithItem(f, k[s \ {Max(s)}], rows[Max(s)])]
           step == [i \in S |-> [v \in Drafted |-> WithItem(f, v, rows[i])]]
<1>1. rows \in Seq(OpenItem)
  BY DEF ListRead
<1>2. n \in Nat /\ Positions(S) /\ DOMAIN rows = S /\ \A i \in S : rows[i] \in OpenItem
  <2>1. n \in Nat /\ DOMAIN rows = S /\ \A i \in S : rows[i] \in OpenItem
    BY <1>1, LogPlaces
  <2>2. IsFiniteSet(S) /\ \A x \in S : x \in Int
    BY <1>1, <2>1, PlacesAreFinite
  <2> QED
    BY <2>1, <2>2 DEF Positions
<1>3. \A i \in S : \A v \in Drafted : step[i][v] \in Drafted
  <2> SUFFICES ASSUME NEW i \in S, NEW v \in Drafted PROVE WithItem(f, v, rows[i]) \in Drafted
    OBVIOUS
  <2> QED
    BY <1>2, DraftStaysTyped
<1>4. NoItems \in Drafted
  BY DEF NoItems, Drafted, PartyTable
<1> HIDE DEF rows, n
<1>5. PICK k0 : Folding(k0, step, NoItems, S)
  <2> HIDE DEF step, S
  <2> QED
    BY <1>2, FoldsExist
<1>6. ASSUME NEW s \in SUBSET S PROVE k0[s] \in Drafted
  <2> HIDE DEF step, S
  <2> QED
    BY <1>2, <1>3, <1>4, <1>5, <1>6, FoldStays
<1>7. ASSUME NEW s \in SUBSET S, s # {}
      PROVE  step[Greatest(s)][k0[s \ {Greatest(s)}]] = WithItem(f, k0[s \ {Max(s)}], rows[Max(s)])
  <2>1. Greatest(s) = Max(s)
    BY DEF Greatest, Max
  <2>2. Greatest(s) \in s
    <3> HIDE DEF S
    <3> QED
      BY <1>2, <1>7, GreatestIn
  <2>3. k0[s \ {Greatest(s)}] \in Drafted
    BY <1>6
  <2> QED
    BY <2>1, <2>2, <2>3
<1>8. chain(k0)
  <2> HIDE DEF step, S
  <2> QED
    BY <1>5, <1>7 DEF Folding
<1> DEFINE k == CHOOSE c : chain(c)
<1>9. chain(k)
  <2> HIDE DEF chain
  <2> QED
    BY <1>8
<1>10. ItemsOf(f) = k[S]
  <2> HIDE DEF S
  <2> QED
    BY <1>2 DEF ItemsOf, FoldLeft, MapThenFoldSet, NoItems, rows
<1> DEFINE body(s) == IF s = {} THEN NoItems ELSE WithItem(f, k[s \ {Max(s)}], rows[Max(s)])
<1>11. k = [s \in SUBSET S |-> body(s)]
  <2> HIDE DEF k, S
  <2> QED
    BY <1>9
<1>12. ASSUME NEW s \in SUBSET S PROVE k[s] = body(s)
  <2> HIDE DEF k, body, S
  <2> QED
    BY <1>11
<1>13. k[{}] = NoItems
  <2> HIDE DEF k
  <2> QED
    BY <1>12
<1>14. ASSUME NEW j \in S PROVE k[1..j] = WithItem(f, k[1..(j - 1)], rows[j])
  <2>1. j \in Nat \ {0} /\ 1..j \in SUBSET S
    BY <1>2
  <2>2. 1..j # {} /\ Max(1..j) = j /\ (1..j) \ {j} = 1..(j - 1)
    BY <2>1, GreatestUpTo DEF Greatest, Max
  <2>3. k[1..j] = body(1..j)
    BY <1>12, <2>1
  <2> HIDE DEF k, S
  <2> QED
    BY <2>2, <2>3
<1> HIDE DEF k
<1> QED
  BY <1>4, <1>10, <1>13, <1>14 DEF Taking, rows, n

\* The line is on its account, with its row's amount, and on a party of its row.
LineOfRow(f, rows, line, row) ==
    /\ line.account = f.account /\ line.amount = Signed(f, row.amount)
    /\ \E x \in rows : x.no = line.party /\ x.kind = f.kind /\ (x.no = row.no \/ x.name = row.name)

\* A name once within its kind, but for those two imports created at a time.
NamedOnce(rows) == \A x, y \in rows \ collided : x.kind = y.kind /\ x.name = y.name => x = y

\* After j rows.
Drawn(f, j, done) ==
    /\ done \in Drafted /\ Len(done.lines) = j
    /\ done.ok =>
          /\ party \subseteq done.parties /\ PartyTable(done.parties)
          /\ NamedOnce(party) => NamedOnce(done.parties)
          /\ \A i \in 1..j : LineOfRow(f, done.parties, done.lines[i], f.rows[i])

LEMMA DrawnFromNothing ==
  ASSUME NEW f, PartyTable(party), NoItems \in Drafted
  PROVE  Drawn(f, 0, NoItems)
<1>1. Len(NoItems.lines) = 0 /\ 1..0 = {} /\ NoItems.parties = party
  BY DEF NoItems
<1> QED
  BY <1>1 DEF Drawn

LEMMA DrawnFurther ==
  ASSUME NEW f, ListRead(f), PartyTable(party), NEW j \in 1..Len(f.rows), NEW done, Drawn(f, j - 1, done)
  PROVE  Drawn(f, j, WithItem(f, done, f.rows[j]))
<1> DEFINE row == f.rows[j]
           x == ItemParty(f, done.parties, row)
           found == Found(done.parties, f.kind, row.no, row.name)
           line == ItemLine(f, done.parties, row)
           new == WithItem(f, done, row)
<1>1. row \in OpenItem /\ done \in Drafted /\ j \in Nat /\ j >= 1
  <2>1. f.rows \in Seq(OpenItem)
    BY DEF ListRead
  <2>2. j \in DOMAIN f.rows
    BY <2>1, LogPlaces
  <2> QED
    BY <2>1, <2>2, LogPlaces, PlacesAreFinite DEF Drawn
<1> HIDE DEF row
<1>2. new = [ok |-> done.ok /\ (found # {} \/ ~Taken(done.parties, x.no)),
             parties |-> IF found # {} THEN done.parties ELSE done.parties \cup {x},
             lines |-> Append(done.lines, line)]
  BY <1>1, WithItemIs
<1>3. new \in Drafted /\ line \in LedgerLine
  BY <1>1, DraftStaysTyped
<1>4. done.lines \in Seq(LedgerLine) /\ IsFiniteSet(done.parties) /\ done.parties \subseteq PartyRow /\ done.ok \in BOOLEAN
  BY <1>1 DEF Drafted
<1>5. /\ x \in PartyRow /\ x.kind = f.kind /\ (x.no = row.no \/ x.name = row.name)
      /\ found # {} => x \in done.parties
      /\ found = {} => x.name = row.name
  <2>1. found = {} => x.name = row.name
    BY DEF ItemParty
  <2> QED
    BY <1>1, <1>4, <2>1, ItemPartyIs
<1>6. line.account = f.account /\ line.amount = Signed(f, row.amount) /\ line.party = x.no
  BY DEF ItemLine
<1>7. \A y \in done.parties : found = {} => ~(y.kind = f.kind /\ y.name = row.name)
  BY DEF Found
<1> HIDE DEF x, found, line, new
<1>8. /\ Len(new.lines) = j /\ new.lines[j] = line
      /\ \A i \in 1..(j - 1) : new.lines[i] = done.lines[i]
  <2>1. Len(done.lines) = j - 1
    BY DEF Drawn
  <2> QED
    BY <1>1, <1>2, <1>3, <1>4, <2>1
<1>9. ASSUME new.ok
      PROVE  /\ party \subseteq new.parties /\ PartyTable(new.parties)
             /\ NamedOnce(party) => NamedOnce(new.parties)
             /\ \A i \in 1..j : LineOfRow(f, new.parties, new.lines[i], f.rows[i])
  <2>1. /\ done.ok /\ (found # {} \/ ~Taken(done.parties, x.no))
        /\ new.parties = IF found # {} THEN done.parties ELSE done.parties \cup {x}
    BY <1>2, <1>9
  <2>2. /\ party \subseteq done.parties /\ PartyTable(done.parties)
        /\ NamedOnce(party) => NamedOnce(done.parties)
        /\ \A i \in 1..(j - 1) : LineOfRow(f, done.parties, done.lines[i], f.rows[i])
    BY <2>1 DEF Drawn
  <2>3. x \in new.parties /\ done.parties \subseteq new.parties
    BY <1>5, <2>1
  <2>4. PartyTable(new.parties)
    <3>1. CASE found # {}
      BY <2>1, <2>2, <3>1
    <3>2. CASE found = {}
      <4>1. \A y \in done.parties : y.no # x.no
        BY <2>1, <3>2 DEF Taken
      <4> QED
        BY <1>5, <2>1, <2>2, <3>2, <4>1, OneMoreParty
    <3> QED
      BY <3>1, <3>2
  <2>5. NamedOnce(done.parties) => NamedOnce(new.parties)
    <3>1. CASE found # {}
      BY <2>1, <3>1
    <3>2. CASE found = {}
      BY <1>5, <1>7, <2>1, <3>2 DEF NamedOnce
    <3> QED
      BY <3>1, <3>2
  <2>6. ASSUME NEW i \in 1..j PROVE LineOfRow(f, new.parties, new.lines[i], f.rows[i])
    <3>1. CASE i = j
      BY <1>5, <1>6, <1>8, <2>3, <3>1 DEF LineOfRow, row
    <3>2. CASE i # j
      <4>1. i \in 1..(j - 1)
        BY <1>1, <3>2
      <4>2. LineOfRow(f, done.parties, done.lines[i], f.rows[i]) /\ new.lines[i] = done.lines[i]
        BY <1>8, <2>2, <4>1
      <4> QED
        BY <2>3, <4>2 DEF LineOfRow
    <3> QED
      BY <3>1, <3>2
  <2> QED
    BY <2>2, <2>3, <2>4, <2>5, <2>6
<1> QED
  BY <1>3, <1>8, <1>9 DEF Drawn, new, row

LEMMA ListIsDrawn ==
  ASSUME NEW f, ListRead(f), PartyTable(party)
  PROVE  Drawn(f, Len(f.rows), ItemsOf(f)) /\ Len(f.rows) \in Nat
<1>1. PICK k : ItemsOf(f) = k[1..Len(f.rows)] /\ Taking(k, f) /\ NoItems \in Drafted
  BY ItemsChain
<1> DEFINE n == Len(f.rows)
           B == {j \in 0..n : Drawn(f, j, k[1..j])}
<1>2. n \in Nat /\ 1..0 = {}
  BY LogPlaces DEF ListRead
<1>3. 0 \in B
  BY <1>1, <1>2, DrawnFromNothing DEF Taking
<1>4. ASSUME NEW j \in 1..n, j - 1 \in B PROVE j \in B
  <2>1. Drawn(f, j - 1, k[1..(j - 1)]) /\ k[1..j] = WithItem(f, k[1..(j - 1)], f.rows[j])
    BY <1>1, <1>4 DEF Taking
  <2>2. Drawn(f, j, k[1..j])
    BY <2>1, DrawnFurther
  <2> QED
    BY <1>2, <2>2
<1>5. n \in B
  <2>1. \A j \in 0..n : j \in B
    <3> HIDE DEF B, n
    <3> QED
      BY <1>2, <1>3, <1>4, ReachesLast
  <2> QED
    BY <1>2, <2>1
<1> QED
  BY <1>1, <1>2, <1>5

Told(f) == SumOf([i \in DOMAIN f.rows |-> f.rows[i].amount])

LEMMA LineSumAppended ==
  ASSUME NEW lines \in Seq(LedgerLine), NEW line \in LedgerLine, NEW a
  PROVE  /\ Append(lines, line) \in Seq(LedgerLine)
         /\ LineSum(Append(lines, line), a) = LineSum(lines, a) + (IF line.account = a THEN line.amount ELSE 0)
<1> DEFINE w == LineWeight(a, LedgerLine)
<1>1. Amounts(LedgerLine)
  BY LedgerIsLined
<1>2. Weights(w, LedgerLine) /\ w[line] = IF line.account = a THEN line.amount ELSE 0
  BY <1>1 DEF Weights, LineWeight, Amounts
<1> HIDE DEF w
<1>3. Append(lines, line) \in Seq(LedgerLine) /\ Weight(w, Append(lines, line)) = Weight(w, lines) + w[line]
  BY <1>2, WeightAppended
<1> QED
  BY <1>1, <1>2, <1>3, LineSumWeighs DEF w

\* What the lines of a list have on their account is what the list told.
LEMMA ListTotals ==
  ASSUME NEW f, ListRead(f), NEW lines \in Seq(LedgerLine), Len(lines) = Len(f.rows),
         \A i \in 1..Len(f.rows) : lines[i].account = f.account /\ lines[i].amount = Signed(f, f.rows[i].amount)
  PROVE  /\ LineSum(lines, f.account) = Signed(f, Told(f))
         /\ SumOf([i \in DOMAIN lines |-> lines[i].amount]) \in Int
<1> DEFINE n == Len(f.rows)
           S == 1..n
           g == [i \in DOMAIN lines |-> IF lines[i].account = f.account THEN lines[i].amount ELSE 0]
           h == [i \in DOMAIN f.rows |-> f.rows[i].amount]
           m == [i \in DOMAIN lines |-> lines[i].amount]
           c == IF f.kind = "kunde" THEN 1 ELSE -1
<1>1. f.rows \in Seq(OpenItem) /\ DOMAIN f.rows = S /\ DOMAIN lines = S /\ IsFiniteSet(S)
  <2>1. f.rows \in Seq(OpenItem)
    BY DEF ListRead
  <2> QED
    BY <2>1, LogPlaces, PlacesAreFinite
<1>2. \A i \in S : /\ f.rows[i].amount \in Int /\ lines[i].amount = Signed(f, f.rows[i].amount)
                   /\ lines[i].account = f.account
  <2>1. \A i \in S : f.rows[i] \in OpenItem
    BY <1>1, LogPlaces
  <2> QED
    BY <2>1 DEF OpenItem
<1>3. DOMAIN g = S /\ DOMAIN h = S /\ DOMAIN m = S
  BY <1>1
<1>4. \A i \in S : h[i] = f.rows[i].amount /\ g[i] = lines[i].amount /\ m[i] = lines[i].amount
  BY <1>1, <1>2
<1>5. LineSum(lines, f.account) = SumOf(g) /\ Told(f) = SumOf(h)
  BY DEF LineSum, Told
<1>6. SumOf([i \in DOMAIN lines |-> lines[i].amount]) = SumOf(m)
  OBVIOUS
<1> HIDE DEF g, h, m, n, S
<1>7. Numbers(h, S) /\ Numbers(m, S)
  BY <1>2, <1>4 DEF Numbers, Signed
<1>8. \A i \in S : g[i] = h[i] * c
  BY <1>2, <1>4 DEF Signed
<1>9. SumOver(g, S) = SumOver(h, S) * c
  <2>1. c \in Int
    OBVIOUS
  <2> HIDE DEF c
  <2> QED
    BY <1>1, <1>7, <1>8, <2>1, TotalScaled
<1>10. SumOver(h, S) \in Int /\ SumOver(m, S) \in Int
  BY <1>1, <1>7, TotalIsNumber
<1> QED
  BY <1>3, <1>5, <1>6, <1>9, <1>10, SumOfIs DEF Signed

-----------------------------------------------------------------------------
(***************************************************************************)
(* Vouchers are added at the end of the chain, parties are never removed.  *)
(***************************************************************************)
Longer(old, new) == Len(old) <= Len(new) /\ \A i \in 1..Len(old) : new[i] = old[i]

LEMMA LongerWhenJoined ==
  ASSUME NEW R, NEW old \in Seq(R), NEW more \in Seq(R)
  PROVE  /\ old \o more \in Seq(R) /\ Longer(old, old \o more)
         /\ Len(old \o more) = Len(old) + Len(more) /\ Len(old) \in Nat /\ Len(more) \in Nat
         /\ \A i \in DOMAIN (old \o more) : i > Len(old) => i - Len(old) \in DOMAIN more
                                                            /\ (old \o more)[i] = more[i - Len(old)]
BY DEF Longer

LEMMA LongerWhenAppended ==
  ASSUME NEW R, NEW old \in Seq(R), NEW v \in R
  PROVE  /\ Append(old, v) \in Seq(R) /\ Longer(old, Append(old, v)) /\ Len(old) \in Nat
         /\ Len(Append(old, v)) = Len(old) + 1 /\ Append(old, v)[Len(old) + 1] = v
BY DEF Longer

LEMMA SameOrLonger ==
  ASSUME NEW R, NEW old \in Seq(R), NEW new \in Seq(R), Longer(old, new)
  PROVE  /\ Len(new) = Len(old) => new = old
         /\ \A n \in Nat : n <= Len(old) => SubSeq(new, 1, n) = SubSeq(old, 1, n)
         /\ SubSeq(new, 1, Len(new)) = new
<1>1. Len(old) \in Nat /\ Len(new) \in Nat /\ DOMAIN old = 1..Len(old) /\ DOMAIN new = 1..Len(new)
  BY LogPlaces
<1>2. ASSUME NEW n \in Nat, n <= Len(old) PROVE SubSeq(new, 1, n) = SubSeq(old, 1, n)
  <2>1. \A i \in 1..n : new[i] = old[i]
    BY <1>1, <1>2 DEF Longer
  <2>2. SubSeq(new, 1, n) = [i \in 1..n |-> new[i]] /\ SubSeq(old, 1, n) = [i \in 1..n |-> old[i]]
    BY <1>1, <1>2 DEF Longer
  <2> QED
    BY <2>1, <2>2
<1>3. ASSUME Len(new) = Len(old) PROVE new = old
  BY <1>1, <1>3 DEF Longer
<1>4. SubSeq(new, 1, Len(new)) = new
  BY <1>1
<1> QED
  BY <1>2, <1>3, <1>4

Onward == hist \in Seq(Voucher) /\ hist' \in Seq(Voucher) /\ Longer(hist, hist') /\ party \subseteq party'

LEMMA PreparedStays ==
  ASSUME Onward, NEW m \in Import, Prepared(m)
  PROVE  Prepared(m)'
<1>1. Len(hist) \in Nat /\ Len(hist') \in Nat /\ Len(hist) <= Len(hist') /\ \A i \in 1..Len(hist) : hist'[i] = hist[i]
  BY LogPlaces DEF Onward, Longer
<1>2. m.base \in Nat
  BY DEF Import
<1>3. m.base <= Len(hist) /\ m.base = Len(hist') => m.base = Len(hist) /\ hist' = hist
  BY <1>1, <1>2, SameOrLonger DEF Onward
<1>4. ASSUME m.pc \in {"reconcile", "post"} PROVE HistoryAhead(m)'
  <2>1. HistoryAhead(m)
    BY <1>4 DEF Prepared
  <2>2. m.file \in DOMAIN HistoryFile /\ m.base <= Len(hist')
    BY <1>1, <1>2, <2>1 DEF HistoryAhead
  <2>3. IF m.followUp THEN \A i \in 1..m.base : hist'[i].journal = "IMP" ELSE m.base = 0
    BY <1>1, <1>2, <2>1 DEF HistoryAhead
  <2>4. m.pc = "post" /\ m.followUp /\ m.base = Len(hist') =>
          \A a \in BalanceAccount : OpeningIn(HistoryFile[m.file], a) = Turnover(hist', a)
    BY <1>3, <2>1 DEF HistoryAhead
  <2> QED
    BY <2>2, <2>3, <2>4 DEF HistoryAhead
<1>5. ASSUME m.pc = "items" PROVE ItemsAhead(m)'
  <2>1. ItemsAhead(m)
    BY <1>5 DEF Prepared
  <2>2. m.base <= Len(hist')
    BY <1>1, <1>2, <2>1 DEF ItemsAhead
  <2>3. m.base = Len(hist') => Turnover(hist', ItemsFile[m.file].account) = 0
    BY <1>3, <2>1 DEF ItemsAhead
  <2> QED
    BY <2>1, <2>2, <2>3 DEF ItemsAhead
<1>6. ASSUME m.pc \in {"find", "number", "insert", "details"} PROVE ContactsAhead(m)'
  <2>1. ContactsAhead(m)
    BY <1>6 DEF Prepared
  <2> QED
    BY <2>1 DEF ContactsAhead, Taken, Onward
<1> QED
  BY <1>4, <1>5, <1>6 DEF Prepared

LEMMA AccountedStays ==
  ASSUME Onward, NEW done, Accounted(done)
  PROVE  Accounted(done)'
<1>1. Len(hist) \in Nat /\ Len(hist') \in Nat /\ Len(hist) <= Len(hist') /\ \A i \in 1..Len(hist) : hist'[i] = hist[i]
  BY LogPlaces DEF Onward, Longer
<1>2. done \in Arrival /\ done.to \in Nat /\ done.to <= Len(hist) /\ done.to <= Len(hist')
  BY <1>1 DEF Accounted, Arrival
<1>3. FirstPart(done.to)' = FirstPart(done.to)
  BY <1>2, SameOrLonger DEF Onward, FirstPart
<1>4. \A i \in 1..done.to : hist'[i] = hist[i]
  BY <1>1, <1>2
<1>5. ASSUME done.what = "saft" PROVE BalancesAddUp(done)'
  <2>1. BalancesAddUp(done)
    BY <1>5 DEF Accounted
  <2> QED
    BY <1>3, <1>4, <2>1 DEF BalancesAddUp
<1>6. ASSUME done.what = "items" PROVE ItemsAddUp(done)'
  <2>1. ItemsAddUp(done) /\ 1 <= done.to
    BY <1>6 DEF Accounted
  <2>2. hist'[done.to] = hist[done.to]
    BY <1>2, <1>4, <2>1
  <2> QED
    BY <1>3, <2>1, <2>2 DEF ItemsAddUp, Onward
<1> QED
  BY <1>2, <1>5, <1>6 DEF Accounted

-----------------------------------------------------------------------------
(***************************************************************************)
(* The steps.                                                              *)
(***************************************************************************)
LEMMA StartedGoesOn ==
  ASSUME Onward, Started, NEW p \in Person, NEW m \in Import, Prepared(m)',
         migrating' = [migrating EXCEPT ![p] = m]
  PROVE  Started'
<1>1. migrating \in [Person -> Import] /\ migrating' \in [Person -> Import] /\ migrating'[p] = m
  BY DEF Started
<1>2. ASSUME NEW q \in Person PROVE Prepared(migrating[q])'
  <2>1. CASE q = p
    <3>1. migrating'[q] = m
      BY <1>1, <2>1
    <3> QED
      BY <3>1 DEF Prepared, HistoryAhead, ItemsAhead, ContactsAhead
  <2>2. CASE q # p
    <3>1. PICK old \in Import : old = migrating[q]
      BY <1>1
    <3>2. migrating'[q] = old /\ Prepared(old)
      BY <1>1, <2>2, <3>1 DEF Started
    <3>3. Prepared(old)'
      BY <3>2, PreparedStays
    <3> QED
      BY <3>2, <3>3 DEF Prepared, HistoryAhead, ItemsAhead, ContactsAhead
  <2> QED
    BY <2>1, <2>2
<1> QED
  BY <1>1, <1>2 DEF Started

LEMMA StartedStays ==
  ASSUME Onward, Started, migrating' = migrating
  PROVE  Started'
<1>1. ASSUME NEW q \in Person PROVE Prepared(migrating[q])'
  <2>1. PICK old \in Import : old = migrating[q]
    BY DEF Started
  <2>2. migrating'[q] = old /\ Prepared(old)
    BY <2>1 DEF Started
  <2>3. Prepared(old)'
    BY <2>2, PreparedStays
  <2> QED
    BY <2>2, <2>3 DEF Prepared, HistoryAhead, ItemsAhead, ContactsAhead
<1> QED
  BY <1>1 DEF Started

LEMMA HereIsOnward == ASSUME Books, hist' = hist, party \subseteq party' PROVE Onward
  BY LogPlaces DEF Books, Onward, Longer

LEMMA IdleIsPrepared == NotMigrating \in Import /\ Prepared(NotMigrating)
  BY DEF NotMigrating, Import, Prepared

\* A step that only reads.
LEMMA ReadingKeeps ==
  ASSUME MigInv, UNCHANGED << hist, chart, party, contactOf, saftLog, landed, collided >>,
         NEW p \in Person, NEW m \in Import, Prepared(m)', migrating' = [migrating EXCEPT ![p] = m]
  PROVE  MigInv'
<1>1. Onward
  BY HereIsOnward DEF MigInv
<1>2. Started'
  BY <1>1, StartedGoesOn DEF MigInv
<1>3. ASSUME NEW done \in landed' PROVE Accounted(done)'
  BY <1>1, AccountedStays DEF MigInv
<1>4. (Books /\ Parties /\ PartiesRegisteredOnce)'
  BY DEF MigInv, Books, Parties, PartiesRegisteredOnce, Taken
<1> QED
  BY <1>2, <1>3, <1>4 DEF MigInv

LEMMA ReadDoorKeeps ==
  ASSUME MigInv, NEW p \in Person, NEW n \in DOMAIN HistoryFile, ReadDoor(p, n)
  PROVE  MigInv'
<1>1. PICK m : m = [NotMigrating EXCEPT !.pc = IF hist # << >> THEN "reconcile" ELSE "post",
                                         !.file = n, !.followUp = (hist # << >>), !.base = Len(hist)]
  OBVIOUS
<1>2. Len(hist) \in Nat /\ DOMAIN hist = 1..Len(hist) /\ (hist = << >> => Len(hist) = 0)
  BY LogPlaces DEF MigInv, Books
<1>3. /\ m.pc = IF hist # << >> THEN "reconcile" ELSE "post"
      /\ m.file = n /\ m.followUp = (hist # << >>) /\ m.base = Len(hist) /\ m \in Import
  BY <1>1, <1>2 DEF NotMigrating, Import
<1>4. hist' = hist /\ (hist # << >> => \A i \in DOMAIN hist : hist[i].journal = "IMP")
  BY DEF ReadDoor
<1>5. HistoryAhead(m)'
  <2>1. CASE hist = << >>
    <3>1. m.followUp = FALSE /\ m.base = 0
      BY <1>2, <1>3, <2>1
    <3> QED
      BY <1>2, <1>3, <1>4, <3>1 DEF HistoryAhead
  <2>2. CASE hist # << >>
    <3>1. m.followUp = TRUE /\ m.pc = "reconcile" /\ \A i \in 1..m.base : hist'[i].journal = "IMP"
      BY <1>2, <1>3, <1>4, <2>2
    <3> QED
      BY <1>2, <1>3, <1>4, <3>1 DEF HistoryAhead
  <2> QED
    BY <2>1, <2>2
<1>6. Prepared(m)'
  BY <1>3, <1>5 DEF Prepared
<1>7. migrating' = [migrating EXCEPT ![p] = m]
  BY <1>1 DEF ReadDoor
<1> QED
  BY <1>3, <1>6, <1>7, ReadingKeeps DEF ReadDoor

LEMMA ReconcileKeeps ==
  ASSUME MigInv, NEW p \in Person, ReconcileOpenings(p)
  PROVE  MigInv'
<1>1. PICK old \in Import : old = migrating[p] /\ Prepared(old)
  BY DEF MigInv, Started
<1>2. old.pc = "reconcile" /\ HistoryAhead(old) /\ hist' = hist
  BY <1>1 DEF ReconcileOpenings, Prepared
<1>3. CASE Reconciles(HistoryFile[old.file])
  <2>1. PICK m : m = [old EXCEPT !.pc = "post"]
    OBVIOUS
  <2>2. m \in Import /\ m.pc = "post" /\ m.file = old.file /\ m.followUp = old.followUp /\ m.base = old.base
    BY <2>1 DEF Import
  <2>3. \A a \in BalanceAccount : OpeningIn(HistoryFile[old.file], a) = Turnover(hist, a)
    BY <1>3, MigrationAssumption DEF Reconciles
  <2>4. HistoryAhead(m)'
    BY <1>2, <2>2, <2>3 DEF HistoryAhead
  <2>5. Prepared(m)'
    BY <2>2, <2>4 DEF Prepared
  <2>6. migrating' = [migrating EXCEPT ![p] = m]
    BY <1>1, <1>3, <2>1 DEF ReconcileOpenings
  <2> QED
    BY <2>2, <2>5, <2>6, ReadingKeeps DEF ReconcileOpenings
<1>4. CASE ~Reconciles(HistoryFile[old.file])
  <2>1. migrating' = [migrating EXCEPT ![p] = NotMigrating]
    BY <1>1, <1>4 DEF ReconcileOpenings
  <2>2. NotMigrating \in Import /\ Prepared(NotMigrating)'
    BY IdleIsPrepared DEF NotMigrating, Prepared
  <2> QED
    BY <2>1, <2>2, ReadingKeeps DEF ReconcileOpenings
<1> QED
  BY <1>3, <1>4

LEMMA AbandonKeeps ==
  ASSUME MigInv, NEW p \in Person, AbandonMigration(p)
  PROVE  MigInv'
<1>1. NotMigrating \in Import /\ Prepared(NotMigrating)'
  BY IdleIsPrepared DEF NotMigrating, Prepared
<1> QED
  BY <1>1, ReadingKeeps DEF AbandonMigration

LEMMA ReadBalanceKeeps ==
  ASSUME MigInv, NEW p \in Person, NEW n \in DOMAIN ItemsFile, ReadBalance(p, n)
  PROVE  MigInv'
<1>1. PICK m : m = [NotMigrating EXCEPT !.pc = "items", !.file = n, !.base = Len(hist)]
  OBVIOUS
<1>2. Len(hist) \in Nat /\ hist' = hist
  BY LogPlaces DEF MigInv, Books, ReadBalance
<1>3. m.pc = "items" /\ m.file = n /\ m.base = Len(hist) /\ m \in Import
  BY <1>1, <1>2 DEF NotMigrating, Import
<1>4. ItemsAhead(m)'
  BY <1>2, <1>3 DEF ItemsAhead, ReadBalance
<1>5. Prepared(m)'
  BY <1>3, <1>4 DEF Prepared
<1>6. migrating' = [migrating EXCEPT ![p] = m]
  BY <1>1 DEF ReadBalance
<1> QED
  BY <1>3, <1>5, <1>6, ReadingKeeps DEF ReadBalance

\* What a person posts, an import under way or not.
LEMMA PostingKeeps ==
  ASSUME MigInv, NEW v \in Voucher, hist' = Append(hist, v),
         chart' \in [Account -> {Absent, Plain} \cup Kind],
         UNCHANGED << party, contactOf, saftLog, migrating, landed, collided >>
  PROVE  MigInv'
<1>1. hist \in Seq(Voucher) /\ hist' \in Seq(Voucher) /\ Longer(hist, hist')
  <2>1. hist \in Seq(Voucher)
    BY DEF MigInv, Books
  <2> HIDE DEF Voucher
  <2> QED
    BY <2>1, LongerWhenAppended
<1>2. Onward
  BY <1>1 DEF Onward
<1>3. Started'
  BY <1>2, StartedStays DEF MigInv
<1>4. ASSUME NEW done \in landed' PROVE Accounted(done)'
  BY <1>2, AccountedStays DEF MigInv
<1>5. (Books /\ Parties /\ PartiesRegisteredOnce)'
  BY <1>1 DEF MigInv, Books, Parties, PartiesRegisteredOnce, Taken
<1> QED
  BY <1>3, <1>4, <1>5 DEF MigInv

LEMMA PostOpeningKeeps ==
  ASSUME MigInv, NEW p \in Person, NEW lines \in ManualOpening, PostOpeningBalance(p, lines)
  PROVE  MigInv'
<1>1. PICK v : v = [journal |-> "GL", date |-> 1, lines |-> lines]
  OBVIOUS
<1>2. v \in Voucher
  BY <1>1, MigrationAssumption DEF Voucher
<1>3. hist' = Append(hist, v)
  BY <1>1 DEF PostOpeningBalance
<1>4. chart' \in [Account -> {Absent, Plain} \cup Kind]
  BY DEF PostOpeningBalance, MigInv, Books
<1> QED
  BY <1>2, <1>3, <1>4, PostingKeeps DEF PostOpeningBalance

LEMMA PostOrdinaryKeeps ==
  ASSUME MigInv, NEW lines \in OrdinaryPosting, PostOrdinary(lines)
  PROVE  MigInv'
<1>1. PICK v : v = [journal |-> "GL", date |-> 1, lines |-> lines]
  OBVIOUS
<1>2. v \in Voucher
  BY <1>1, MigrationAssumption DEF Voucher
<1>3. hist' = Append(hist, v)
  BY <1>1 DEF PostOrdinary
<1>4. chart' \in [Account -> {Absent, Plain} \cup Kind]
  BY DEF PostOrdinary, MigInv, Books
<1> QED
  BY <1>2, <1>3, <1>4, PostingKeeps DEF PostOrdinary

\* A file is posted whole; met by nobody, it carries every balance account to its close.
LEMMA PostHistoryKeeps ==
  ASSUME MigInv, NEW p \in Person, PostHistory(p)
  PROVE  MigInv'
<1>1. PICK old \in Import : old = migrating[p] /\ Prepared(old)
  BY DEF MigInv, Started
<1>2. old.pc = "post" /\ HistoryAhead(old) /\ old.file \in DOMAIN HistoryFile
  BY <1>1 DEF PostHistory, Prepared, HistoryAhead
<1>3. PICK f : f = HistoryFile[old.file] /\ FileRead(f) /\ f \in Range(HistoryFile)
  BY <1>2, FilesAreRead
<1>4. PICK followUp \in BOOLEAN : followUp = old.followUp
  BY DEF Import
<1>5. PICK more : more = VouchersOf(f, followUp)
  OBVIOUS
<1>6. /\ AllPostable(more, ChartWith(f, followUp), PartiesWith(f))
      /\ hist' = hist \o more /\ chart' = ChartWith(f, followUp) /\ party' = PartiesWith(f)
      /\ saftLog' = saftLog \cup {f.content}
      /\ landed' = landed \cup {[what |-> "saft", file |-> old.file, read |-> old.base,
                                 from |-> Len(hist), to |-> Len(hist) + Len(more)]}
      /\ migrating' = [migrating EXCEPT ![p] = NotMigrating] /\ contactOf' = contactOf /\ collided' = collided
  BY <1>1, <1>3, <1>4, <1>5 DEF PostHistory, Landing
<1>7. PartyTable(PartiesWith(f)) /\ party \subseteq PartiesWith(f)
  BY <1>3, PartiesStayUnique DEF MigInv, Parties
<1>8. /\ more \in Seq(Voucher) /\ \A i \in DOMAIN more : more[i].journal = "IMP"
      /\ \A a : /\ Turnover(more, a) = (IF followUp THEN 0 ELSE OpeningIn(f, a)) + Turnover(f.txs, a)
                /\ OpeningIn(f, a) \in Int /\ Turnover(f.txs, a) \in Int
  BY <1>3, <1>5, <1>6, <1>7, FileAddsUp
<1>9. /\ hist \in Seq(Voucher) /\ hist' \in Seq(Voucher) /\ Longer(hist, hist')
      /\ Len(hist') = Len(hist) + Len(more) /\ Len(hist) \in Nat /\ Len(more) \in Nat
      /\ \A i \in DOMAIN hist' : i > Len(hist) => i - Len(hist) \in DOMAIN more
                                                  /\ hist'[i] = more[i - Len(hist)]
  <2>1. hist \in Seq(Voucher)
    BY DEF MigInv, Books
  <2> HIDE DEF Voucher
  <2> QED
    BY <1>6, <1>8, <2>1, LongerWhenJoined
<1>10. Onward
  BY <1>6, <1>7, <1>9 DEF Onward
<1>11. Started'
  <2>1. NotMigrating \in Import /\ Prepared(NotMigrating)'
    BY IdleIsPrepared DEF NotMigrating, Prepared
  <2> QED
    BY <1>6, <1>10, <2>1, StartedGoesOn DEF MigInv
<1>12. PICK new : new = [what |-> "saft", file |-> old.file, read |-> old.base,
                         from |-> Len(hist), to |-> Len(hist) + Len(more)]
  OBVIOUS
<1>13. /\ new.what = "saft" /\ new.file = old.file /\ new.read = old.base /\ new.from = Len(hist)
       /\ new.to = Len(hist') /\ new \in Arrival
  BY <1>2, <1>9, <1>12 DEF Arrival, Import
<1>14. BalancesAddUp(new)'
  <2> SUFFICES ASSUME old.base = Len(hist)
               PROVE  /\ \A i \in 1..Len(hist') : hist'[i].journal = "IMP"
                      /\ \A a \in BalanceAccount :
                           OpeningIn(f, a) + Turnover(f.txs, a) = Turnover(hist', a)
    <3>1. FirstPart(new.to)' = hist'
      BY <1>9, <1>13, SameOrLonger DEF FirstPart
    <3> QED
      BY <1>3, <1>13, <3>1 DEF BalancesAddUp, ClosingIn
  <2>1. ASSUME NEW i \in 1..Len(hist') PROVE hist'[i].journal = "IMP"
    <3>1. CASE i <= Len(hist)
      <4>1. hist'[i] = hist[i] /\ i \in 1..old.base
        BY <1>9, <2>1, <3>1 DEF Longer
      <4>2. old.base # 0
        BY <1>9, <4>1
      <4> QED
        BY <1>2, <4>1, <4>2 DEF HistoryAhead
    <3>2. CASE i > Len(hist)
      <4>1. i \in DOMAIN hist'
        BY <1>9, <2>1
      <4> QED
        BY <1>8, <1>9, <3>2, <4>1
    <3> QED
      BY <1>9, <2>1, <3>1, <3>2
  <2>2. ASSUME NEW a \in BalanceAccount
        PROVE  OpeningIn(f, a) + Turnover(f.txs, a) = Turnover(hist', a)
    <3>1. Turnover(hist', a) = Turnover(hist, a) + Turnover(more, a)
      BY <1>6, <1>8, <1>9, LedgerIsLined, TurnoverJoined
    <3>2. CASE followUp
      <4>1. Turnover(hist, a) = OpeningIn(f, a)
        BY <1>2, <1>3, <1>4, <3>2 DEF HistoryAhead
      <4> QED
        BY <1>8, <3>1, <3>2, <4>1
    <3>3. CASE ~followUp
      <4>1. Len(hist) = 0
        BY <1>2, <1>4, <3>3 DEF HistoryAhead
      <4>2. hist = << >>
        BY <1>9, <4>1
      <4>3. Turnover(hist, a) = 0
        BY <4>2, TurnoverOfNone
      <4> QED
        BY <1>8, <3>1, <3>3, <4>3
    <3> QED
      BY <3>2, <3>3
  <2> QED
    BY <2>1, <2>2
<1>15. Accounted(new)'
  BY <1>2, <1>9, <1>13, <1>14 DEF Accounted
<1>16. ASSUME NEW done \in landed' PROVE Accounted(done)'
  <2>1. CASE done \in landed
    BY <1>10, <2>1, AccountedStays DEF MigInv
  <2>2. CASE done = new
    BY <1>15, <2>2
  <2> QED
    BY <1>6, <1>12, <2>1, <2>2
<1>17. Books'
  BY <1>3, <1>6, <1>9, ChartStaysTyped DEF Books, MigInv
<1>18. Parties'
  BY <1>6, <1>7 DEF Parties, MigInv, Taken
<1>19. saftLog' \subseteq {g.content : g \in Range(HistoryFile)} /\ PartiesRegisteredOnce'
  BY <1>3, <1>6 DEF MigInv, PartiesRegisteredOnce
<1> QED
  BY <1>11, <1>16, <1>17, <1>18, <1>19 DEF MigInv

\* A list is posted as one voucher; met by nobody, it is the whole balance of its account.
LEMMA PostItemsKeeps ==
  ASSUME MigInv, NEW p \in Person, PostItems(p)
  PROVE  MigInv'
<1>1. PICK old \in Import : old = migrating[p] /\ Prepared(old)
  BY DEF MigInv, Started
<1>2. old.pc = "items" /\ ItemsAhead(old) /\ old.file \in DOMAIN ItemsFile
  BY <1>1 DEF PostItems, Prepared, ItemsAhead
<1>3. PICK f : f = ItemsFile[old.file] /\ ListRead(f)
  BY <1>2, ListsAreRead
<1>4. PICK items : items = ItemsOf(f)
  OBVIOUS
<1>5. PICK sum : sum = SumOf([i \in DOMAIN items.lines |-> items.lines[i].amount])
  OBVIOUS
<1>6. PICK contra : contra = [account |-> f.contra, party |-> NoParty, amount |-> -sum]
  OBVIOUS
<1>7. PICK lines : lines = Append(items.lines, contra)
  OBVIOUS
<1>8. PICK v : v = [journal |-> "GL", date |-> f.date, lines |-> lines]
  OBVIOUS
<1>9. PICK new : new = [what |-> "items", file |-> old.file, read |-> old.base,
                        from |-> Len(hist), to |-> Len(hist) + 1]
  OBVIOUS
<1>10. /\ items.ok /\ hist' = Append(hist, v) /\ chart' = [chart EXCEPT ![f.account] = f.kind]
       /\ party' = items.parties /\ landed' = landed \cup {new}
       /\ migrating' = [migrating EXCEPT ![p] = NotMigrating]
       /\ UNCHANGED << contactOf, saftLog, collided >>
  BY <1>1, <1>3, <1>4, <1>5, <1>6, <1>7, <1>8, <1>9 DEF PostItems, Landing
<1>11. PartyTable(party)
  BY DEF MigInv, Parties
<1>12. Drawn(f, Len(f.rows), items) /\ Len(f.rows) \in Nat
  BY <1>3, <1>4, <1>11, ListIsDrawn
<1>13. /\ items.lines \in Seq(LedgerLine) /\ Len(items.lines) = Len(f.rows)
       /\ party \subseteq items.parties /\ PartyTable(items.parties)
       /\ NamedOnce(party) => NamedOnce(items.parties)
       /\ \A i \in 1..Len(f.rows) : LineOfRow(f, items.parties, items.lines[i], f.rows[i])
  BY <1>10, <1>12 DEF Drawn, Drafted
<1>14. LineSum(items.lines, f.account) = Signed(f, Told(f)) /\ sum \in Int
  <2>1. \A i \in 1..Len(f.rows) : /\ items.lines[i].account = f.account
                                  /\ items.lines[i].amount = Signed(f, f.rows[i].amount)
    BY <1>13 DEF LineOfRow
  <2> QED
    BY <1>3, <1>5, <1>13, <2>1, ListTotals
<1>15. contra \in LedgerLine /\ contra.account # f.account
  BY <1>3, <1>6, <1>14 DEF LedgerLine, ListRead, NoParty
<1>16. lines \in Seq(LedgerLine) /\ LineSum(lines, f.account) = Signed(f, Told(f))
  <2>1. LineSum(items.lines, f.account) \in Int
    BY <1>13, LedgerIsLined, LineSumWeighs
  <2>2. /\ Append(items.lines, contra) \in Seq(LedgerLine)
        /\ LineSum(Append(items.lines, contra), f.account)
             = LineSum(items.lines, f.account) + (IF contra.account = f.account THEN contra.amount ELSE 0)
    BY <1>13, <1>15, LineSumAppended
  <2> QED
    BY <1>7, <1>14, <1>15, <2>1, <2>2
<1>17. v \in Voucher /\ v.lines = lines
  BY <1>3, <1>8, <1>16 DEF Voucher, ListRead
<1>18. /\ hist \in Seq(Voucher) /\ hist' \in Seq(Voucher) /\ Longer(hist, hist') /\ Len(hist) \in Nat
       /\ Len(hist') = Len(hist) + 1 /\ hist'[Len(hist) + 1] = v
  <2>1. hist \in Seq(Voucher)
    BY DEF MigInv, Books
  <2> HIDE DEF Voucher
  <2> QED
    BY <1>10, <1>17, <2>1, LongerWhenAppended
<1>19. Onward
  BY <1>10, <1>13, <1>18 DEF Onward
<1>20. Started'
  <2>1. NotMigrating \in Import /\ Prepared(NotMigrating)'
    BY IdleIsPrepared DEF NotMigrating, Prepared
  <2> QED
    BY <1>10, <1>19, <2>1, StartedGoesOn DEF MigInv
<1>21. /\ new.what = "items" /\ new.file = old.file /\ new.read = old.base /\ new.from = Len(hist)
       /\ new.to = Len(hist') /\ new \in Arrival
  BY <1>2, <1>9, <1>18 DEF Arrival, Import
<1>22. ASSUME old.base = Len(hist) PROVE Turnover(hist', f.account) = Signed(f, Told(f))
  <2>1. Turnover(hist, f.account) = 0
    BY <1>2, <1>3, <1>22 DEF ItemsAhead
  <2>2. /\ Turnover(hist', f.account) = Turnover(hist, f.account) + LineSum(v.lines, f.account)
        /\ LineSum(v.lines, f.account) \in Int
    BY <1>10, <1>17, <1>18, LedgerIsLined, TurnoverAppended
  <2> QED
    BY <1>16, <1>17, <2>1, <2>2
<1>23. ASSUME NEW i \in DOMAIN f.rows
       PROVE  \E x \in party' : /\ x.no = hist'[new.to].lines[i].party /\ x.kind = f.kind
                                /\ x.no = f.rows[i].no \/ x.name = f.rows[i].name
  <2>1. i \in 1..Len(f.rows) /\ i \in 1..Len(items.lines)
    BY <1>3, <1>13, LogPlaces DEF ListRead
  <2>2. lines[i] = items.lines[i]
    BY <1>7, <1>13, <1>15, <2>1
  <2>3. LineOfRow(f, items.parties, lines[i], f.rows[i])
    BY <1>13, <2>1, <2>2
  <2>4. hist'[new.to].lines = lines
    BY <1>17, <1>18, <1>21
  <2> QED
    BY <1>10, <2>3, <2>4 DEF LineOfRow
<1>24. ItemsAddUp(new)'
  <2>1. FirstPart(new.to)' = hist'
    BY <1>18, <1>21, SameOrLonger DEF FirstPart
  <2>2. new.read = new.from => Turnover(FirstPart(new.to)', f.account) = IF f.kind = "kunde" THEN Told(f) ELSE -Told(f)
    BY <1>21, <1>22, <2>1 DEF Signed
  <2> QED
    BY <1>3, <1>21, <1>23, <2>2 DEF ItemsAddUp, Told
<1>25. Accounted(new)'
  BY <1>2, <1>18, <1>21, <1>24 DEF Accounted
<1>26. ASSUME NEW done \in landed' PROVE Accounted(done)'
  <2>1. CASE done \in landed
    BY <1>19, <2>1, AccountedStays DEF MigInv
  <2>2. CASE done = new
    BY <1>25, <2>2
  <2> QED
    BY <1>10, <2>1, <2>2
<1>27. Books'
  BY <1>3, <1>10, <1>18 DEF Books, MigInv, ListRead
<1>28. Parties'
  BY <1>10, <1>13 DEF Parties, MigInv, Taken
<1>29. PartiesRegisteredOnce' /\ saftLog' = saftLog
  BY <1>10, <1>13 DEF MigInv, PartiesRegisteredOnce, NamedOnce
<1> QED
  BY <1>20, <1>26, <1>27, <1>28, <1>29 DEF MigInv

-----------------------------------------------------------------------------
\* A list of contacts, row after row.
LEMMA ContactsAreRead ==
  ASSUME NEW n \in DOMAIN ContactsFile
  PROVE  /\ ContactsFile[n] \in Seq(ContactLine) /\ DOMAIN ContactsFile[n] = 1..Len(ContactsFile[n])
         /\ Len(ContactsFile[n]) \in Nat /\ \A i \in DOMAIN ContactsFile[n] : ContactsFile[n][i] \in ContactLine
<1>1. ContactsFile[n] \in Seq(ContactLine)
  BY MigrationAssumption DEF Range
<1> QED
  BY <1>1, LogPlaces

LEMMA AtContact ==
  ASSUME MigInv, NEW p \in Person, migrating[p].pc \in {"find", "number", "insert", "details"}
  PROVE  \E old \in Import : /\ old = migrating[p] /\ Prepared(old) /\ ContactsAhead(old)
                             /\ ContactRow(p) = ContactsFile[old.file][old.row] /\ ContactRow(p) \in ContactLine
<1>1. PICK old \in Import : old = migrating[p] /\ Prepared(old)
  BY DEF MigInv, Started
<1>2. ContactsAhead(old)
  BY <1>1 DEF Prepared
<1>3. ContactsFile[old.file][old.row] \in ContactLine
  BY <1>2, ContactsAreRead DEF ContactsAhead
<1> QED
  BY <1>1, <1>2, <1>3 DEF ContactRow

LEMMA NextRowIsThere ==
  ASSUME NEW p \in Person, NEW old \in Import, old = migrating[p], ContactsAhead(old)
  PROVE  \E m \in Import : AfterContact(p) = m /\ Prepared(m)'
<1>1. PICK m : m = AfterContact(p)
  OBVIOUS
<1>2. old.row \in Nat /\ old.file \in DOMAIN ContactsFile
  BY DEF Import, ContactsAhead
<1>3. CASE old.row < Len(ContactsFile[old.file])
  <2>1. m = [old EXCEPT !.pc = "find", !.row = old.row + 1, !.no = 0]
    BY <1>1, <1>3 DEF AfterContact
  <2>2. m \in Import /\ m.pc = "find" /\ m.file = old.file /\ m.row = old.row + 1
    <3>1. m = [pc |-> "find", file |-> old.file, followUp |-> old.followUp, base |-> old.base,
               row |-> old.row + 1, no |-> 0]
      BY <2>1 DEF Import
    <3>2. old.row + 1 \in Nat
      BY <1>2
    <3> QED
      BY <3>1, <3>2 DEF Import
  <2>3. m.row \in DOMAIN ContactsFile[m.file]
    BY <1>2, <1>3, <2>2, ContactsAreRead
  <2> QED
    BY <1>1, <1>2, <2>2, <2>3 DEF Prepared, ContactsAhead
<1>4. CASE ~(old.row < Len(ContactsFile[old.file]))
  <2>1. m = NotMigrating
    BY <1>1, <1>4 DEF AfterContact
  <2> QED
    BY <1>1, <2>1, IdleIsPrepared DEF NotMigrating, Prepared
<1> QED
  BY <1>3, <1>4

LEMMA ImportContactsKeeps ==
  ASSUME MigInv, NEW p \in Person, NEW n \in DOMAIN ContactsFile, ImportContacts(p, n)
  PROVE  MigInv'
<1>1. PICK m : m = [NotMigrating EXCEPT !.pc = "find", !.file = n, !.row = 1]
  OBVIOUS
<1>2. m.pc = "find" /\ m.file = n /\ m.row = 1 /\ m \in Import
  BY <1>1 DEF NotMigrating, Import
<1>3. 1 \in DOMAIN ContactsFile[n]
  BY ContactsAreRead DEF ImportContacts
<1>4. Prepared(m)'
  BY <1>2, <1>3 DEF Prepared, ContactsAhead
<1>5. migrating' = [migrating EXCEPT ![p] = m]
  BY <1>1 DEF ImportContacts
<1> QED
  BY <1>2, <1>4, <1>5, ReadingKeeps DEF ImportContacts

LEMMA FindContactKeeps ==
  ASSUME MigInv, NEW p \in Person, FindContact(p)
  PROVE  MigInv'
<1>1. PICK old \in Import : old = migrating[p] /\ Prepared(old) /\ ContactsAhead(old)
  BY AtContact DEF FindContact
<1> DEFINE found == Found(party, ContactRow(p).kind, ContactRow(p).no, ContactRow(p).name)
<1>2. CASE \E x \in found : migrating' = [migrating EXCEPT ![p].pc = "details", ![p].no = x.no]
  <2>1. PICK x \in found : migrating' = [migrating EXCEPT ![p].pc = "details", ![p].no = x.no]
    BY <1>2
  <2>2. x \in party /\ x.no \in Nat
    BY DEF Found, MigInv, Parties, PartyTable, PartyRow
  <2>3. PICK m : m = [old EXCEPT !.pc = "details", !.no = x.no]
    OBVIOUS
  <2>4. m \in Import /\ m.pc = "details" /\ m.no = x.no /\ m.file = old.file /\ m.row = old.row
    BY <2>2, <2>3 DEF Import
  <2>5. migrating' = [migrating EXCEPT ![p] = m]
    BY <1>1, <2>1, <2>3 DEF MigInv, Started
  <2>6. Prepared(m)'
    BY <1>1, <2>2, <2>4 DEF Prepared, ContactsAhead, Taken, FindContact
  <2> QED
    BY <2>4, <2>5, <2>6, ReadingKeeps DEF FindContact
<1>3. CASE migrating' = [migrating EXCEPT ![p].pc = "number"]
  <2>1. PICK m : m = [old EXCEPT !.pc = "number"]
    OBVIOUS
  <2>2. m \in Import /\ m.pc = "number" /\ m.file = old.file /\ m.row = old.row
    BY <2>1 DEF Import
  <2>3. migrating' = [migrating EXCEPT ![p] = m]
    BY <1>1, <1>3, <2>1 DEF MigInv, Started
  <2>4. Prepared(m)'
    BY <1>1, <2>2 DEF Prepared, ContactsAhead
  <2> QED
    BY <2>2, <2>3, <2>4, ReadingKeeps DEF FindContact
<1> QED
  BY <1>2, <1>3 DEF FindContact

LEMMA NumberContactKeeps ==
  ASSUME MigInv, NEW p \in Person, NumberContact(p)
  PROVE  MigInv'
<1>1. PICK old \in Import : /\ old = migrating[p] /\ Prepared(old) /\ ContactsAhead(old)
                            /\ ContactRow(p) \in ContactLine
  BY AtContact DEF NumberContact
<1>2. PICK row \in ContactLine : row = ContactRow(p)
  BY <1>1
<1>3. PICK no : no = IF row.no # NoParty THEN row.no ELSE NextNo(party, row.kind, FirstPartyNo[row.kind])
  OBVIOUS
<1>4. no \in Nat \ {NoParty}
  <2>1. row.no \in Nat /\ FirstPartyNo[row.kind] \in Nat \ {NoParty}
    BY MigrationAssumption DEF ContactLine
  <2>2. NextNo(party, row.kind, FirstPartyNo[row.kind]) \in Nat \ {NoParty}
    BY <2>1, NextNoIsNumber DEF MigInv, Parties, PartyTable
  <2> QED
    BY <1>3, <2>1, <2>2
<1>5. PICK m : m = [old EXCEPT !.pc = "insert", !.no = no]
  OBVIOUS
<1>6. m \in Import /\ m.pc = "insert" /\ m.no = no /\ m.file = old.file /\ m.row = old.row
  BY <1>4, <1>5 DEF Import
<1>7. migrating' = [migrating EXCEPT ![p] = m]
  BY <1>1, <1>2, <1>3, <1>5 DEF NumberContact, MigInv, Started
<1>8. Prepared(m)'
  BY <1>1, <1>4, <1>6 DEF Prepared, ContactsAhead
<1> QED
  BY <1>6, <1>7, <1>8, ReadingKeeps DEF NumberContact

LEMMA InsertContactKeeps ==
  ASSUME MigInv, NEW p \in Person, InsertContact(p)
  PROVE  MigInv'
<1>1. PICK old \in Import : /\ old = migrating[p] /\ Prepared(old) /\ ContactsAhead(old)
                            /\ ContactRow(p) \in ContactLine
  BY AtContact DEF InsertContact
<1>2. PICK row \in ContactLine : row = ContactRow(p)
  BY <1>1
<1>3. PICK new : new = [no |-> old.no, kind |-> row.kind, name |-> row.name]
  OBVIOUS
<1>4. old.pc = "insert" /\ new \in PartyRow /\ new.no = old.no /\ new.kind = row.kind /\ new.name = row.name
  BY <1>1, <1>3 DEF InsertContact, ContactsAhead, PartyRow, ContactLine, Import
<1>5. CASE Taken(party, new.no)
  <2>1. PICK m \in Import : AfterContact(p) = m /\ Prepared(m)'
    BY <1>1, NextRowIsThere
  <2>2. migrating' = [migrating EXCEPT ![p] = m] /\ UNCHANGED << party, collided >>
    BY <1>1, <1>2, <1>3, <1>5, <2>1 DEF InsertContact
  <2> QED
    BY <2>1, <2>2, ReadingKeeps DEF InsertContact
<1>6. CASE ~Taken(party, new.no)
  <2>1. /\ party' = party \cup {new}
        /\ collided' = IF Found(party, row.kind, row.no, row.name) # {} THEN collided \cup {new} ELSE collided
        /\ migrating' = [migrating EXCEPT ![p].pc = "details"]
        /\ UNCHANGED << hist, chart, contactOf, saftLog, landed >>
    BY <1>1, <1>2, <1>3, <1>6 DEF InsertContact
  <2>2. PICK m : m = [old EXCEPT !.pc = "details"]
    OBVIOUS
  <2>3. m \in Import /\ m.pc = "details" /\ m.no = new.no /\ m.file = old.file /\ m.row = old.row
    BY <1>4, <2>2 DEF Import
  <2>4. migrating' = [migrating EXCEPT ![p] = m]
    BY <1>1, <2>1, <2>2 DEF MigInv, Started
  <2>5. Prepared(m)'
    BY <1>1, <2>1, <2>3 DEF Prepared, ContactsAhead, Taken
  <2>6. Onward
    BY <2>1, HereIsOnward DEF MigInv
  <2>7. Started'
    BY <2>3, <2>4, <2>5, <2>6, StartedGoesOn DEF MigInv
  <2>8. PartyTable(party \cup {new})
    BY <1>4, <1>6, OneMoreParty DEF MigInv, Parties, Taken
  <2>9. Parties'
    BY <2>1, <2>8 DEF MigInv, Parties, Taken
  <2>10. PartiesRegisteredOnce'
    <3>1. CASE Found(party, row.kind, row.no, row.name) # {}
      <4>1. party' \ collided' \subseteq party \ collided
        BY <2>1, <3>1
      <4> QED
        BY <2>1, <4>1 DEF MigInv, PartiesRegisteredOnce
    <3>2. CASE Found(party, row.kind, row.no, row.name) = {}
      <4>1. \A y \in party : ~(y.kind = row.kind /\ y.name = row.name)
        BY <3>2 DEF Found
      <4> QED
        BY <1>4, <2>1, <3>2, <4>1 DEF MigInv, PartiesRegisteredOnce
    <3> QED
      BY <3>1, <3>2
  <2>11. ASSUME NEW done \in landed' PROVE Accounted(done)'
    BY <2>1, <2>6, AccountedStays DEF MigInv
  <2>12. Books' /\ saftLog' = saftLog
    BY <2>1 DEF MigInv, Books
  <2> QED
    BY <2>7, <2>9, <2>10, <2>11, <2>12 DEF MigInv
<1> QED
  BY <1>5, <1>6

LEMMA WriteDetailsKeeps ==
  ASSUME MigInv, NEW p \in Person, WriteDetails(p)
  PROVE  MigInv'
<1>1. PICK old \in Import : /\ old = migrating[p] /\ Prepared(old) /\ ContactsAhead(old)
                            /\ ContactRow(p) \in ContactLine
  BY AtContact DEF WriteDetails
<1>2. PICK row \in ContactLine : row = ContactRow(p)
  BY <1>1
<1>3. PICK m \in Import : AfterContact(p) = m /\ Prepared(m)'
  BY <1>1, NextRowIsThere
<1>4. PICK kept : kept = IF row.given \subseteq row.good THEN row.given ELSE row.given \cap {"address"}
  OBVIOUS
<1>5. kept \subseteq ContactField
  BY <1>4 DEF ContactLine
<1>6. /\ contactOf' = contactOf \cup {<< old.no, field >> : field \in kept}
      /\ migrating' = [migrating EXCEPT ![p] = m]
      /\ UNCHANGED << hist, chart, party, saftLog, landed, collided >>
  BY <1>1, <1>2, <1>3, <1>4 DEF WriteDetails
<1>7. Taken(party, old.no)
  BY <1>1 DEF WriteDetails, ContactsAhead
<1>8. Parties'
  <2>1. ASSUME NEW c \in contactOf' PROVE Taken(party, c[1]) /\ c[2] \in ContactField
    <3>1. CASE c \in contactOf
      BY <3>1 DEF MigInv, Parties
    <3>2. CASE \E field \in kept : c = << old.no, field >>
      BY <1>5, <1>7, <3>2
    <3> QED
      BY <1>6, <2>1, <3>1, <3>2
  <2> QED
    BY <1>6, <2>1 DEF MigInv, Parties, Taken
<1>9. Onward
  BY <1>6, HereIsOnward DEF MigInv
<1>10. Started'
  BY <1>3, <1>6, <1>9, StartedGoesOn DEF MigInv
<1>11. ASSUME NEW done \in landed' PROVE Accounted(done)'
  BY <1>6, <1>9, AccountedStays DEF MigInv
<1>12. (Books /\ PartiesRegisteredOnce)' /\ saftLog' = saftLog
  BY <1>6 DEF MigInv, Books, PartiesRegisteredOnce
<1> QED
  BY <1>8, <1>10, <1>11, <1>12 DEF MigInv

-----------------------------------------------------------------------------
LEMMA MigInitial == InitMigration => MigInv
<1> SUFFICES ASSUME InitMigration PROVE MigInv
  OBVIOUS
<1>1. Books
  BY MigrationAssumption DEF InitMigration, Books
<1>2. Parties
  BY FS_EmptySet DEF InitMigration, Parties, PartyTable
<1>3. Started
  <2>1. migrating = [p \in Person |-> NotMigrating]
    BY DEF InitMigration
  <2>2. \A p \in Person : Prepared(migrating[p])
    BY <2>1 DEF Prepared, NotMigrating
  <2> QED
    BY <2>1, <2>2, IdleIsPrepared DEF Started
<1> QED
  BY <1>1, <1>2, <1>3 DEF InitMigration, MigInv, PartiesRegisteredOnce

LEMMA MigStep == MigInv /\ [NextHistory \/ NextItems]_varsMigration => MigInv'
<1> SUFFICES ASSUME MigInv, [NextHistory \/ NextItems]_varsMigration PROVE MigInv'
  OBVIOUS
<1>1. CASE NextHistory
  BY <1>1, ReadDoorKeeps, ReconcileKeeps, PostHistoryKeeps, AbandonKeeps, PostOrdinaryKeeps DEF NextHistory
<1>2. CASE NextItems
  <2>1. ASSUME NEW p \in Person,
               \/ \E lines \in ManualOpening : PostOpeningBalance(p, lines)
               \/ \E n \in DOMAIN ItemsFile : ReadBalance(p, n)
               \/ PostItems(p) \/ AbandonMigration(p)
        PROVE  MigInv'
    BY <2>1, PostOpeningKeeps, ReadBalanceKeeps, PostItemsKeeps, AbandonKeeps
  <2>2. ASSUME NEW p \in Person,
               \/ \E n \in DOMAIN ContactsFile : ImportContacts(p, n)
               \/ FindContact(p) \/ NumberContact(p) \/ InsertContact(p) \/ WriteDetails(p)
        PROVE  MigInv'
    BY <2>2, ImportContactsKeeps, FindContactKeeps, NumberContactKeeps, InsertContactKeeps, WriteDetailsKeeps
  <2> QED
    BY <1>2, <2>1, <2>2, PostOrdinaryKeeps DEF NextItems
<1>3. CASE UNCHANGED varsMigration
  <2>1. /\ UNCHANGED << hist, chart, party, contactOf, saftLog, landed, collided >>
        /\ migrating' = migrating
    BY <1>3 DEF varsMigration
  <2>2. Onward
    BY <2>1, HereIsOnward DEF MigInv
  <2>3. Started'
    BY <2>1, <2>2, StartedStays DEF MigInv
  <2>4. ASSUME NEW done \in landed' PROVE Accounted(done)'
    BY <2>1, <2>2, AccountedStays DEF MigInv
  <2>5. (Books /\ Parties /\ PartiesRegisteredOnce)'
    BY <2>1 DEF MigInv, Books, Parties, PartiesRegisteredOnce, Taken
  <2> QED
    BY <2>1, <2>3, <2>4, <2>5 DEF MigInv
<1> QED
  BY <1>1, <1>2, <1>3

THEOREM MigrationInvariant == SpecMigration => []MigInv
  BY MigInitial, MigStep, PTL DEF SpecMigration

\* Every row is of its type and a party's number is its own, whatever imports run at a time.
THEOREM MigrationTyped == SpecMigration => []TypeOKMigration
<1>1. MigInv => TypeOKMigration
  <2> SUFFICES ASSUME MigInv PROVE TypeOKMigration
    OBVIOUS
  <2>1. \A i \in DOMAIN hist : hist[i].journal \in {"IMP", "GL"} /\ hist[i].date \in Int
    <3>1. \A i \in DOMAIN hist : hist[i] \in Voucher
      BY LogPlaces DEF MigInv, Books
    <3> QED
      BY <3>1 DEF Voucher
  <2>2. \A x \in party : x.no \in Nat \ {NoParty} /\ x.kind \in Kind
    BY DEF MigInv, Parties, PartyTable, PartyRow
  <2>3. \A p \in Person : migrating[p].pc \in
          {"idle", "reconcile", "post", "items", "find", "number", "insert", "details"}
    <3>1. \A p \in Person : migrating[p] \in Import
      BY DEF MigInv, Started
    <3> QED
      BY <3>1 DEF Import
  <2> QED
    BY <2>1, <2>2, <2>3 DEF TypeOKMigration, MigInv, Books, Parties, PartyTable
<1> QED
  BY <1>1, MigrationInvariant, PTL

\* A balance an import reconciled is still the ledger's when its vouchers are posted, unless one came between.
THEOREM HistoriesArrive == SpecMigration => [](HistoriesAddUp /\ ItemListsAddUp /\ PartiesRegisteredOnce)
<1>1. MigInv => HistoriesAddUp /\ ItemListsAddUp /\ PartiesRegisteredOnce
  BY DEF MigInv, Accounted, Arrival, HistoriesAddUp, ItemListsAddUp, Histories
<1> QED
  BY <1>1, MigrationInvariant, PTL

=============================================================================
