----------------------------- MODULE FiniteSums -----------------------------
(***************************************************************************)
(* What a sum over a finite set does when an element is added: the facts   *)
(* about MapThenSumSet that the proofs about open posts and balances need. *)
(*                                                                         *)
(* The library's induction theorems take a predicate as their parameter.   *)
(* Here a set of counterexamples takes its place: if it is not empty, it   *)
(* has a smallest member (LeastSet), and that one is shown not to exist.   *)
(***************************************************************************)
EXTENDS Integers, Sequences, FiniteSets, FiniteSetTheorems, FunctionTheorems, WellFoundedInduction, TLAPS

\* Of a nonempty finite set of finite sets one includes no other strictly.
LEMMA LeastSet ==
  ASSUME NEW S, IsFiniteSet(S), NEW F, F \subseteq SUBSET S, F # {}
  PROVE  \E A \in F : \A B \in F : B \subseteq A => B = A
<1>1. \A B \in SUBSET S : IsFiniteSet(B)
  BY FS_Subset
<1>2. F \subseteq FiniteSubsetsOf(S)
  BY <1>1 DEF FiniteSubsetsOf
<1>3. PICK A \in F : \A B \in F : ~ (<< B, A >> \in StrictSubsetOrdering(S))
  BY <1>2, WFMin, FS_StrictSubsetOrderingWellFounded
<1>4. ASSUME NEW B \in F, B \subseteq A, B # A PROVE FALSE
  <2>1. << B, A >> \in (SUBSET S) \X (SUBSET S)
    OBVIOUS
  <2> QED
    BY <1>3, <1>4, <2>1 DEF StrictSubsetOrdering
<1> QED
  BY <1>4

-----------------------------------------------------------------------------
\* The element the library's fold takes next.
Pick(s) == CHOOSE x \in s : TRUE

\* f holds the sum of g over every subset of S, taken in the library's order.
Sums(f, g, S) ==
    f = [s \in SUBSET S |-> IF s = {} THEN 0 ELSE g[Pick(s)] + f[s \ {Pick(s)}]]

SumOver(g, S) == (CHOOSE f : Sums(f, g, S))[S]

\* g is a number for every element of S.
Numbers(g, S) == \A x \in S : g[x] \in Int

\* g and h give the elements of S the same numbers.
Alike(g, h, S) == \A x \in S : g[x] = h[x]

\* What is picked from a set is in it.
LEMMA PickIn == ASSUME NEW s, s # {} PROVE Pick(s) \in s
  BY DEF Pick

\* The sums, unfolded once.
LEMMA SumsApply ==
  ASSUME NEW S, NEW g, NEW f, Sums(f, g, S), NEW s, s \subseteq S
  PROVE  /\ s = {} => f[s] = 0
         /\ s # {} => f[s] = g[Pick(s)] + f[s \ {Pick(s)}]
<1> DEFINE body(t) == IF t = {} THEN 0 ELSE g[Pick(t)] + f[t \ {Pick(t)}]
<1>1. f = [t \in SUBSET S |-> body(t)]
  BY DEF Sums
<1> HIDE DEF body
<1>2. f[s] = body(s)
  BY <1>1
<1> QED
  BY <1>2 DEF body

\* Two sums agree on a set if they do on what is left of it when one element is taken.
LEMMA SumsAgreeStep ==
  ASSUME NEW S, NEW T, NEW g, NEW h, NEW f, Sums(f, g, S), NEW k, Sums(k, h, T),
         NEW s, s \subseteq S, s \subseteq T, Alike(g, h, s),
         s # {} => f[s \ {Pick(s)}] = k[s \ {Pick(s)}]
  PROVE  f[s] = k[s]
<1>1. /\ s = {} => f[s] = 0
      /\ s # {} => f[s] = g[Pick(s)] + f[s \ {Pick(s)}]
  BY SumsApply
<1>2. /\ s = {} => k[s] = 0
      /\ s # {} => k[s] = h[Pick(s)] + k[s \ {Pick(s)}]
  BY SumsApply
<1>3. s # {} => g[Pick(s)] = h[Pick(s)]
  BY PickIn DEF Alike
<1> QED
  BY <1>1, <1>2, <1>3

\* Two sums agree on what they have in common.
LEMMA SumsAgree ==
  ASSUME NEW S, NEW T, NEW g, NEW h, NEW f, Sums(f, g, S), NEW k, Sums(k, h, T),
         NEW s, IsFiniteSet(s), s \subseteq S, s \subseteq T, Alike(g, h, s)
  PROVE  f[s] = k[s]
<1> DEFINE F == {t \in SUBSET s : f[t] # k[t]}
<1>1. ASSUME F # {} PROVE FALSE
  <2>1. PICK A \in F : \A B \in F : B \subseteq A => B = A
    <3>1. F \subseteq SUBSET s
      OBVIOUS
    <3> HIDE DEF F
    <3> QED
      BY <1>1, <3>1, LeastSet
  <2>2. A \subseteq s /\ A \subseteq S /\ A \subseteq T /\ f[A] # k[A]
    OBVIOUS
  <2>3. A # {} => f[A \ {Pick(A)}] = k[A \ {Pick(A)}]
    BY <2>1, PickIn
  <2>4. Alike(g, h, A)
    BY <2>2 DEF Alike
  <2> HIDE DEF F
  <2> QED
    BY <2>2, <2>3, <2>4, SumsAgreeStep
<1> QED
  BY <1>1

\* The sums over a set and over one that includes it agree.
LEMMA SumsAgreeBelow ==
  ASSUME NEW S, IsFiniteSet(S), NEW R \in SUBSET S, NEW g,
         NEW f, Sums(f, g, S), NEW k, Sums(k, g, R)
  PROVE  f[R] = k[R]
<1>1. IsFiniteSet(R) /\ R \subseteq S /\ R \subseteq R /\ Alike(g, g, R)
  BY FS_Subset DEF Alike
<1> QED
  BY <1>1, SumsAgree

\* Every finite set of numbers has its sums.
LEMMA SumsExist ==
  ASSUME NEW S, IsFiniteSet(S), NEW g
  PROVE  \E f : Sums(f, g, S)
<1> DEFINE F == {T \in SUBSET S : \A f : ~ Sums(f, g, T)}
<1>1. ASSUME F # {} PROVE FALSE
  <2>1. PICK T \in F : \A B \in F : B \subseteq T => B = T
    <3>1. F \subseteq SUBSET S
      OBVIOUS
    <3> HIDE DEF F
    <3> QED
      BY <1>1, <3>1, LeastSet
  <2> DEFINE w(U) == CHOOSE f : Sums(f, g, U)
             value(s) == IF s = T THEN (IF T = {} THEN 0 ELSE g[Pick(T)] + w(T \ {Pick(T)})[T \ {Pick(T)}])
                         ELSE w(s)[s]
             f == [s \in SUBSET T |-> value(s)]
  <2>2. ASSUME NEW U \in SUBSET T, U # T PROVE Sums(w(U), g, U)
    <3>1. \E k : Sums(k, g, U)
      BY <2>1, <2>2
    <3> QED
      BY <3>1
  <2>3. \A U \in SUBSET T : IsFiniteSet(U)
    BY FS_Subset
  <2> HIDE DEF w
  <2>4. ASSUME NEW s \in SUBSET T
        PROVE  value(s) = IF s = {} THEN 0 ELSE g[Pick(s)] + f[s \ {Pick(s)}]
    <3>1. CASE s = {} /\ s # T
      BY <2>2, <3>1, SumsApply
    <3>2. CASE s = {} /\ s = T
      BY <3>2
    <3>3. CASE s # {}
      <4> DEFINE p == Pick(s)
                 r == s \ {p}
      <4>1. p \in s /\ r \in SUBSET T /\ r # T /\ r \in SUBSET s
        BY <3>3, PickIn
      <4>2. f[r] = w(r)[r]
        BY <4>1
      <4>3. CASE s = T
        BY <3>3, <4>2, <4>3
      <4>4. CASE s # T
        <5>1. Sums(w(s), g, s) /\ Sums(w(r), g, r)
          BY <2>2, <4>1, <4>4
        <5>2. w(s)[s] = g[p] + w(s)[r]
          BY <3>3, <5>1, SumsApply
        <5>3. w(s)[r] = w(r)[r]
          <6>1. IsFiniteSet(s)
            BY <2>3
          <6> HIDE DEF r
          <6> QED
            BY <4>1, <5>1, <6>1, SumsAgreeBelow
        <5> QED
          BY <3>3, <4>2, <4>4, <5>2, <5>3
      <4> QED
        BY <4>3, <4>4
    <3> QED
      BY <3>1, <3>2, <3>3
  <2>5. Sums(f, g, T)
    <3> HIDE DEF value
    <3> QED
      BY <2>4 DEF Sums
  <2> QED
    BY <2>5
<1> QED
  BY <1>1

\* The total, unfolded once.
LEMMA TotalUnfolds ==
  ASSUME NEW S, IsFiniteSet(S), NEW g
  PROVE  SumOver(g, S) = IF S = {} THEN 0 ELSE g[Pick(S)] + SumOver(g, S \ {Pick(S)})
<1> DEFINE f == CHOOSE f : Sums(f, g, S)
           r == S \ {Pick(S)}
           k == CHOOSE k : Sums(k, g, r)
<1>1. Sums(f, g, S)
  BY SumsExist
<1>2. Sums(k, g, r)
  <2>1. IsFiniteSet(r)
    BY FS_Subset
  <2> QED
    BY <2>1, SumsExist
<1>3. f[S] = IF S = {} THEN 0 ELSE g[Pick(S)] + f[r]
  BY <1>1, SumsApply
<1>4. f[r] = k[r]
  <2>1. r \in SUBSET S
    OBVIOUS
  <2> HIDE DEF f, k, r
  <2> QED
    BY <1>1, <1>2, <2>1, SumsAgreeBelow
<1>5. SumOver(g, S) = f[S] /\ SumOver(g, r) = k[r]
  BY DEF SumOver
<1> QED
  BY <1>3, <1>4, <1>5

\* What any function with the sums of g has is the total: the form in which the
\* definition of MapThenSumSet is met.
LEMMA SumsGiveTotal ==
  ASSUME NEW S, IsFiniteSet(S), NEW g, NEW f, Sums(f, g, S)
  PROVE  f[S] = SumOver(g, S)
<1> DEFINE k == CHOOSE k : Sums(k, g, S)
<1>1. Sums(k, g, S)
  OBVIOUS
<1>2. ASSUME NEW b, Sums(b, g, S) PROVE f[S] = b[S]
  BY <1>2, SumsAgreeBelow
<1>3. SumOver(g, S) = k[S]
  BY DEF SumOver
<1> HIDE DEF k
<1> QED
  BY <1>1, <1>2, <1>3

\* Nothing totals zero.
LEMMA EmptyTotal == ASSUME NEW g PROVE SumOver(g, {}) = 0
  BY TotalUnfolds, FS_EmptySet

\* Numbers total a number.
LEMMA TotalIsNumber ==
  ASSUME NEW S, IsFiniteSet(S), NEW g, Numbers(g, S)
  PROVE  SumOver(g, S) \in Int
<1> DEFINE F == {T \in SUBSET S : SumOver(g, T) \notin Int}
<1>1. ASSUME F # {} PROVE FALSE
  <2>1. PICK T \in F : \A B \in F : B \subseteq T => B = T
    <3>1. F \subseteq SUBSET S
      OBVIOUS
    <3> HIDE DEF F
    <3> QED
      BY <1>1, <3>1, LeastSet
  <2>2. IsFiniteSet(T) /\ SumOver(g, T) \notin Int
    BY FS_Subset
  <2>3. T # {}
    BY <2>2, EmptyTotal
  <2>4. Pick(T) \in T /\ SumOver(g, T) = g[Pick(T)] + SumOver(g, T \ {Pick(T)})
    BY <2>2, <2>3, PickIn, TotalUnfolds
  <2>5. SumOver(g, T \ {Pick(T)}) \in Int
    BY <2>1, <2>4
  <2>6. g[Pick(T)] \in Int
    BY <2>4 DEF Numbers
  <2> QED
    BY <2>2, <2>4, <2>5, <2>6
<1> QED
  BY <1>1

\* The order in which elements are taken makes no difference.
LEMMA TotalTakes ==
  ASSUME NEW S, IsFiniteSet(S), NEW g, Numbers(g, S), NEW x \in S
  PROVE  SumOver(g, S) = g[x] + SumOver(g, S \ {x})
<1> DEFINE F == {T \in SUBSET S : \E y \in T : SumOver(g, T) # g[y] + SumOver(g, T \ {y})}
<1>1. ASSUME F # {} PROVE FALSE
  <2>1. PICK T \in F : \A B \in F : B \subseteq T => B = T
    <3>1. F \subseteq SUBSET S
      OBVIOUS
    <3> HIDE DEF F
    <3> QED
      BY <1>1, <3>1, LeastSet
  <2>2. PICK y \in T : SumOver(g, T) # g[y] + SumOver(g, T \ {y})
    OBVIOUS
  <2> DEFINE c == Pick(T)
             R == (T \ {c}) \ {y}
  <2>3. IsFiniteSet(T)
    BY FS_Subset
  <2>4. c \in T /\ SumOver(g, T) = g[c] + SumOver(g, T \ {c})
    BY <2>2, <2>3, PickIn, TotalUnfolds
  <2>5. c # y
    BY <2>2, <2>4
  <2>6. SumOver(g, T \ {c}) = g[y] + SumOver(g, R)
    BY <2>1, <2>4, <2>5
  <2>7. SumOver(g, T \ {y}) = g[c] + SumOver(g, R)
    <3>1. R = (T \ {y}) \ {c}
      OBVIOUS
    <3> QED
      BY <2>1, <2>4, <2>5, <3>1
  <2>8. g[c] \in Int /\ g[y] \in Int
    BY <2>4 DEF Numbers
  <2>9. SumOver(g, R) \in Int
    <3>1. IsFiniteSet(R) /\ Numbers(g, R)
      BY <2>3, FS_Subset DEF Numbers
    <3> QED
      BY <3>1, TotalIsNumber
  <2> HIDE DEF c, R
  <2> QED
    BY <2>2, <2>4, <2>6, <2>7, <2>8, <2>9
<1> QED
  BY <1>1

\* Adding an element adds its number.
LEMMA TotalAdds ==
  ASSUME NEW S, IsFiniteSet(S), NEW x, x \notin S, NEW g, Numbers(g, S \cup {x})
  PROVE  SumOver(g, S \cup {x}) = SumOver(g, S) + g[x]
<1>1. IsFiniteSet(S \cup {x})
  BY FS_AddElement
<1>2. (S \cup {x}) \ {x} = S
  OBVIOUS
<1>3. SumOver(g, S \cup {x}) = g[x] + SumOver(g, S)
  BY <1>1, <1>2, TotalTakes
<1>4. g[x] \in Int /\ SumOver(g, S) \in Int
  BY TotalIsNumber DEF Numbers
<1> QED
  BY <1>3, <1>4

\* A total depends on the numbers of its elements only.
LEMMA TotalSame ==
  ASSUME NEW S, IsFiniteSet(S), NEW g, NEW h, Alike(g, h, S)
  PROVE  SumOver(g, S) = SumOver(h, S)
<1>1. PICK f : Sums(f, g, S)
  BY SumsExist
<1>2. PICK k : Sums(k, h, S)
  BY SumsExist
<1>3. f[S] = k[S]
  BY <1>1, <1>2, SumsAgree
<1> QED
  BY <1>1, <1>2, <1>3, SumsGiveTotal

\* Of numbers that are not negative, any subset totals no more than the whole.
LEMMA TotalGrows ==
  ASSUME NEW S, IsFiniteSet(S), NEW g, \A x \in S : g[x] \in Nat, NEW R \in SUBSET S
  PROVE  SumOver(g, R) \in Nat /\ SumOver(g, R) <= SumOver(g, S)
<1>1. Numbers(g, S)
  BY DEF Numbers
<1> DEFINE F == {T \in SUBSET S : R \subseteq T /\ ~ (SumOver(g, R) <= SumOver(g, T))}
           G == {T \in SUBSET S : ~ (SumOver(g, T) >= 0)}
<1>2. ASSUME F # {} PROVE FALSE
  <2>1. PICK T \in F : \A B \in F : B \subseteq T => B = T
    <3>1. F \subseteq SUBSET S
      OBVIOUS
    <3> HIDE DEF F
    <3> QED
      BY <1>2, <3>1, LeastSet
  <2>2. IsFiniteSet(T) /\ Numbers(g, T) /\ SumOver(g, R) \in Int
    <3>1. IsFiniteSet(T) /\ IsFiniteSet(R) /\ Numbers(g, T) /\ Numbers(g, R)
      BY <1>1, FS_Subset DEF Numbers
    <3> QED
      BY <3>1, TotalIsNumber
  <2>3. T # R
    BY <2>2
  <2>4. PICK y \in T : y \notin R
    BY <2>3
  <2>5. SumOver(g, T) = g[y] + SumOver(g, T \ {y})
    BY <2>2, TotalTakes
  <2>6. SumOver(g, R) <= SumOver(g, T \ {y})
    BY <2>1, <2>4
  <2>7. SumOver(g, T \ {y}) \in Int /\ g[y] \in Nat
    <3>1. IsFiniteSet(T \ {y}) /\ Numbers(g, T \ {y})
      BY <2>2, FS_Subset DEF Numbers
    <3> QED
      BY <3>1, TotalIsNumber
  <2>8. ~ (SumOver(g, R) <= SumOver(g, T))
    OBVIOUS
  <2> HIDE DEF F
  <2> QED
    BY <2>2, <2>5, <2>6, <2>7, <2>8
<1>3. ASSUME G # {} PROVE FALSE
  <2>1. PICK T \in G : \A B \in G : B \subseteq T => B = T
    <3>1. G \subseteq SUBSET S
      OBVIOUS
    <3> HIDE DEF G
    <3> QED
      BY <1>3, <3>1, LeastSet
  <2>2. IsFiniteSet(T) /\ Numbers(g, T) /\ ~ (SumOver(g, T) >= 0)
    BY <1>1, FS_Subset DEF Numbers
  <2>3. T # {}
    BY <2>2, EmptyTotal
  <2>4. PICK y \in T : TRUE
    BY <2>3
  <2>5. SumOver(g, T) = g[y] + SumOver(g, T \ {y})
    BY <2>2, TotalTakes
  <2>6. SumOver(g, T \ {y}) >= 0
    BY <2>1, <2>4
  <2>7. SumOver(g, T \ {y}) \in Int /\ g[y] \in Nat
    <3>1. IsFiniteSet(T \ {y}) /\ Numbers(g, T \ {y})
      BY <2>2, FS_Subset DEF Numbers
    <3> QED
      BY <3>1, TotalIsNumber
  <2> QED
    BY <2>2, <2>5, <2>6, <2>7
<1>4. SumOver(g, R) \in Int
  <2>1. IsFiniteSet(R) /\ Numbers(g, R)
    BY <1>1, FS_Subset DEF Numbers
  <2> QED
    BY <2>1, TotalIsNumber
<1>5. SumOver(g, R) >= 0 /\ SumOver(g, R) <= SumOver(g, S)
  BY <1>2, <1>3
<1> QED
  BY <1>4, <1>5

\* Two sets apart from each other total the sum of their totals.
LEMMA TotalUnion ==
  ASSUME NEW S, IsFiniteSet(S), NEW T, IsFiniteSet(T), S \cap T = {}, NEW g, Numbers(g, S \cup T)
  PROVE  SumOver(g, S \cup T) = SumOver(g, S) + SumOver(g, T)
<1> DEFINE F == {R \in SUBSET T : SumOver(g, S \cup R) # SumOver(g, S) + SumOver(g, R)}
<1>1. ASSUME F # {} PROVE FALSE
  <2>1. PICK R \in F : \A B \in F : B \subseteq R => B = R
    <3>1. F \subseteq SUBSET T
      OBVIOUS
    <3> HIDE DEF F
    <3> QED
      BY <1>1, <3>1, LeastSet
  <2>2. R \subseteq T /\ SumOver(g, S \cup R) # SumOver(g, S) + SumOver(g, R)
    OBVIOUS
  <2>3. IsFiniteSet(R) /\ IsFiniteSet(S \cup R) /\ Numbers(g, R) /\ Numbers(g, S) /\ Numbers(g, S \cup R)
    BY <2>2, FS_Subset, FS_Union DEF Numbers
  <2>4. SumOver(g, S) \in Int
    BY <2>3, TotalIsNumber
  <2>5. R # {}
    <3> SUFFICES ASSUME R = {} PROVE FALSE
      OBVIOUS
    <3>1. S \cup R = S
      OBVIOUS
    <3>2. SumOver(g, R) = 0
      BY EmptyTotal
    <3>3. SumOver(g, S \cup R) = SumOver(g, S)
      BY <3>1
    <3> HIDE DEF F
    <3> QED
      BY <2>2, <2>4, <3>2, <3>3
  <2>6. PICK y \in R : TRUE
    BY <2>5
  <2> DEFINE Q == R \ {y}
  <2>7. SumOver(g, S \cup Q) = SumOver(g, S) + SumOver(g, Q)
    BY <2>1
  <2>8. SumOver(g, R) = g[y] + SumOver(g, Q)
    BY <2>3, TotalTakes
  <2>9. SumOver(g, S \cup R) = g[y] + SumOver(g, S \cup Q)
    <3>1. y \in S \cup R /\ (S \cup R) \ {y} = S \cup Q
      BY <2>2
    <3> HIDE DEF Q
    <3> QED
      BY <2>3, <3>1, TotalTakes
  <2>10. g[y] \in Int /\ SumOver(g, Q) \in Int
    <3>1. IsFiniteSet(Q) /\ Numbers(g, Q)
      BY <2>3, FS_Subset DEF Numbers
    <3> HIDE DEF Q
    <3> QED
      BY <2>3, <3>1, TotalIsNumber DEF Numbers
  <2> HIDE DEF F, Q
  <2> QED
    BY <2>2, <2>4, <2>7, <2>8, <2>9, <2>10
<1> QED
  BY <1>1

\* What is nothing totals nothing.
LEMMA TotalOfNothing ==
  ASSUME NEW S, IsFiniteSet(S), NEW g, \A x \in S : g[x] = 0
  PROVE  SumOver(g, S) = 0
<1>1. (\A x \in S : g[x] \in Nat) /\ Numbers(g, S)
  BY DEF Numbers
<1> DEFINE F == {T \in SUBSET S : SumOver(g, T) # 0}
<1>2. ASSUME F # {} PROVE FALSE
  <2>1. PICK T \in F : \A B \in F : B \subseteq T => B = T
    <3>1. F \subseteq SUBSET S
      OBVIOUS
    <3> HIDE DEF F
    <3> QED
      BY <1>2, <3>1, LeastSet
  <2>2. IsFiniteSet(T) /\ Numbers(g, T) /\ SumOver(g, T) # 0
    BY <1>1, FS_Subset DEF Numbers
  <2>3. PICK y \in T : TRUE
    BY <2>2, EmptyTotal
  <2>4. SumOver(g, T) = g[y] + SumOver(g, T \ {y})
    BY <2>2, TotalTakes
  <2>5. SumOver(g, T \ {y}) = 0
    BY <2>1
  <2> QED
    BY <2>2, <2>4, <2>5
<1> QED
  BY <1>2

\* A set of which one element counts.
LEMMA TotalOfOne ==
  ASSUME NEW S, IsFiniteSet(S), NEW g, NEW y \in S, g[y] \in Int,
         \A x \in S : x # y => g[x] = 0
  PROVE  SumOver(g, S) = g[y]
<1>1. Numbers(g, S) /\ IsFiniteSet(S \ {y})
  BY FS_Subset DEF Numbers
<1>2. SumOver(g, S) = g[y] + SumOver(g, S \ {y})
  BY <1>1, TotalTakes
<1>3. SumOver(g, S \ {y}) = 0
  BY <1>1, TotalOfNothing
<1> QED
  BY <1>2, <1>3

\* What counts for nothing may be left out.
LEMMA TotalOfPart ==
  ASSUME NEW S, IsFiniteSet(S), NEW R \in SUBSET S, NEW g, Numbers(g, R),
         \A x \in S \ R : g[x] = 0
  PROVE  SumOver(g, S) = SumOver(g, R)
<1>1. IsFiniteSet(R) /\ IsFiniteSet(S \ R)
  BY FS_Subset
<1>2. R \cap (S \ R) = {} /\ R \cup (S \ R) = S
  OBVIOUS
<1>3. Numbers(g, S)
  BY DEF Numbers
<1>4. SumOver(g, S) = SumOver(g, R) + SumOver(g, S \ R)
  <2> DEFINE Q == S \ R
  <2>1. IsFiniteSet(Q) /\ R \cap Q = {} /\ R \cup Q = S /\ Numbers(g, R \cup Q)
    BY <1>1, <1>2, <1>3
  <2> HIDE DEF Q
  <2>2. SumOver(g, R \cup Q) = SumOver(g, R) + SumOver(g, Q)
    BY <1>1, <2>1, TotalUnion
  <2> QED
    BY <2>1, <2>2 DEF Q
<1>5. SumOver(g, S \ R) = 0
  BY <1>1, TotalOfNothing
<1>6. SumOver(g, R) \in Int
  BY <1>1, TotalIsNumber
<1> QED
  BY <1>4, <1>5, <1>6

\* One summand is changed.
LEMMA TotalMoves ==
  ASSUME NEW S, IsFiniteSet(S), NEW g, Numbers(g, S), NEW h, NEW x \in S, h[x] \in Int,
         \A y \in S \ {x} : h[y] = g[y]
  PROVE  SumOver(h, S) = SumOver(g, S) - g[x] + h[x]
<1>1. Numbers(h, S) /\ Numbers(g, S \ {x}) /\ Alike(h, g, S \ {x})
  BY DEF Numbers, Alike
<1>2. IsFiniteSet(S \ {x})
  BY FS_Subset
<1>3. SumOver(h, S) = h[x] + SumOver(h, S \ {x})
  BY <1>1, TotalTakes
<1>4. SumOver(g, S) = g[x] + SumOver(g, S \ {x})
  BY TotalTakes
<1>5. SumOver(h, S \ {x}) = SumOver(g, S \ {x})
  BY <1>1, <1>2, TotalSame
<1>6. SumOver(g, S \ {x}) \in Int /\ g[x] \in Int
  BY <1>1, <1>2, TotalIsNumber DEF Numbers
<1> QED
  BY <1>3, <1>4, <1>5, <1>6

\* A sum of sums.
LEMMA TotalOfBoth ==
  ASSUME NEW S, IsFiniteSet(S), NEW f, Numbers(f, S), NEW g, Numbers(g, S),
         NEW h, \A x \in S : h[x] = f[x] + g[x]
  PROVE  SumOver(h, S) = SumOver(f, S) + SumOver(g, S)
<1>1. Numbers(h, S)
  BY DEF Numbers
<1> DEFINE F == {T \in SUBSET S : SumOver(h, T) # SumOver(f, T) + SumOver(g, T)}
<1>2. ASSUME F # {} PROVE FALSE
  <2>1. PICK T \in F : \A B \in F : B \subseteq T => B = T
    <3>1. F \subseteq SUBSET S
      OBVIOUS
    <3> HIDE DEF F
    <3> QED
      BY <1>2, <3>1, LeastSet
  <2>2. /\ IsFiniteSet(T) /\ Numbers(f, T) /\ Numbers(g, T) /\ Numbers(h, T)
        /\ SumOver(h, T) # SumOver(f, T) + SumOver(g, T)
    BY <1>1, FS_Subset DEF Numbers
  <2>3. PICK y \in T : TRUE
    BY <2>2, EmptyTotal
  <2> DEFINE Q == T \ {y}
  <2>4. /\ SumOver(h, T) = h[y] + SumOver(h, Q)
        /\ SumOver(f, T) = f[y] + SumOver(f, Q)
        /\ SumOver(g, T) = g[y] + SumOver(g, Q)
    BY <2>2, TotalTakes
  <2>5. SumOver(h, Q) = SumOver(f, Q) + SumOver(g, Q)
    BY <2>1
  <2>6. SumOver(f, Q) \in Int /\ SumOver(g, Q) \in Int
    <3>1. IsFiniteSet(Q) /\ Numbers(f, Q) /\ Numbers(g, Q)
      BY <2>2, FS_Subset DEF Numbers
    <3> HIDE DEF Q
    <3> QED
      BY <3>1, TotalIsNumber
  <2>7. h[y] = f[y] + g[y] /\ f[y] \in Int /\ g[y] \in Int
    BY <2>2 DEF Numbers
  <2> HIDE DEF F, Q
  <2> QED
    BY <2>2, <2>4, <2>5, <2>6, <2>7
<1> QED
  BY <1>2

\* One element is no more than the whole, and neither are two.
LEMMA TotalHolds ==
  ASSUME NEW S, IsFiniteSet(S), NEW g, \A x \in S : g[x] \in Nat
  PROVE  /\ SumOver(g, S) \in Nat
         /\ \A x \in S : g[x] <= SumOver(g, S)
         /\ \A x, y \in S : x # y => g[x] + g[y] <= SumOver(g, S)
<1>1. Numbers(g, S)
  BY DEF Numbers
<1>2. \A R \in SUBSET S : SumOver(g, R) \in Nat
  BY TotalGrows
<1>3. \A x \in S : SumOver(g, S) = g[x] + SumOver(g, S \ {x})
  BY <1>1, TotalTakes
<1>4. ASSUME NEW x \in S, NEW y \in S, x # y PROVE g[x] + g[y] <= SumOver(g, S)
  <2>1. IsFiniteSet(S \ {x}) /\ Numbers(g, S \ {x}) /\ y \in S \ {x}
    BY <1>1, <1>4, FS_Subset DEF Numbers
  <2>2. SumOver(g, S \ {x}) = g[y] + SumOver(g, (S \ {x}) \ {y})
    BY <2>1, TotalTakes
  <2>3. SumOver(g, (S \ {x}) \ {y}) \in Nat
    BY <1>2
  <2> QED
    BY <1>3, <2>2, <2>3
<1>5. ASSUME NEW x \in S PROVE g[x] <= SumOver(g, S)
  <2>1. SumOver(g, S \ {x}) \in Nat
    BY <1>2
  <2> QED
    BY <1>3, <2>1
<1> QED
  BY <1>2, <1>4, <1>5

\* What a function gives for finitely many arguments is finite.
LEMMA FiniteImage ==
  ASSUME NEW S, IsFiniteSet(S), NEW f, NEW T, \A y \in T : \E x \in S : y = f[x]
  PROVE  IsFiniteSet(T)
<1> DEFINE U == {f[x] : x \in S}
           h == [x \in S |-> f[x]]
<1>1. h \in Surjection(S, U)
  BY Fun_IsSurj
<1>2. IsFiniteSet(U)
  <2> HIDE DEF h, U
  <2> QED
    BY <1>1, FS_Surjection
<1>3. T \subseteq U
  OBVIOUS
<1> QED
  BY <1>2, <1>3, FS_Subset

\* One element makes a set count one, and two make it count two.
LEMMA Counts ==
  ASSUME NEW S, IsFiniteSet(S)
  PROVE  /\ Cardinality(S) \in Nat
         /\ \A x \in S : Cardinality(S) >= 1
         /\ \A x, y \in S : x # y => Cardinality(S) >= 2
<1>1. Cardinality(S) \in Nat
  BY FS_CardinalityType
<1>2. ASSUME NEW x \in S PROVE Cardinality(S) >= 1
  <2>1. {x} \subseteq S /\ Cardinality({x}) = 1
    BY FS_Singleton
  <2> QED
    BY <1>1, <2>1, FS_Subset
<1>3. ASSUME NEW x \in S, NEW y \in S, x # y PROVE Cardinality(S) >= 2
  <2>1. IsFiniteSet({x}) /\ Cardinality({x}) = 1 /\ y \notin {x}
    BY <1>3, FS_Singleton
  <2>2. Cardinality({x} \cup {y}) = Cardinality({x}) + 1
    BY <2>1, FS_AddElement
  <2>3. {x} \cup {y} \subseteq S
    OBVIOUS
  <2>4. Cardinality({x} \cup {y}) <= Cardinality(S)
    BY <2>3, FS_Subset
  <2> QED
    BY <1>1, <2>1, <2>2, <2>4
<1> QED
  BY <1>1, <1>2, <1>3

\* f takes S to T, no two members to one, and reaches all of T.
OneToOne(f, S, T) ==
    /\ \A x \in S : f[x] \in T
    /\ \A y \in T : \E x \in S : y = f[x]
    /\ \A x, y \in S : f[x] = f[y] => x = y

\* h gives a member of S the number that g gives its image.
Carried(g, f, h, S) == \A x \in S : h[x] = g[f[x]]

\* What there is for a part of S there is for a part of T.
LEMMA PartImage ==
  ASSUME NEW S, IsFiniteSet(S), NEW f, NEW T, OneToOne(f, S, T), NEW R, R \subseteq S
  PROVE  \E I : I \subseteq T /\ IsFiniteSet(I) /\ OneToOne(f, R, I)
<1> DEFINE I == {f[x] : x \in R}
<1>1. I \subseteq T /\ OneToOne(f, R, I)
  BY DEF OneToOne
<1>2. IsFiniteSet(R)
  BY FS_Subset
<1>3. \A y \in I : \E x \in R : y = f[x]
  OBVIOUS
<1> HIDE DEF I
<1>4. IsFiniteSet(I)
  BY <1>2, <1>3, FiniteImage
<1> QED
  BY <1>1, <1>4

\* If the sums agree without one member, they agree with it.
LEMMA ImageStep ==
  ASSUME NEW R, IsFiniteSet(R), NEW f, NEW I, IsFiniteSet(I), OneToOne(f, R, I),
         NEW g, Numbers(g, I), NEW h, Carried(g, f, h, R), NEW y \in R,
         SumOver(g, I \ {f[y]}) = SumOver(h, R \ {y})
  PROVE  SumOver(g, I) = SumOver(h, R)
<1>1. f[y] \in I /\ h[y] = g[f[y]]
  BY DEF OneToOne, Carried
<1>2. Numbers(h, R)
  BY DEF Numbers, OneToOne, Carried
<1>3. SumOver(g, I) = g[f[y]] + SumOver(g, I \ {f[y]})
  BY <1>1, TotalTakes
<1>4. SumOver(h, R) = h[y] + SumOver(h, R \ {y})
  BY <1>2, TotalTakes
<1> QED
  BY <1>1, <1>3, <1>4

\* A sum over the images of a set under a function that maps no two of it to one.
LEMMA TotalImage ==
  ASSUME NEW S, IsFiniteSet(S), NEW f, NEW T, OneToOne(f, S, T),
         NEW g, Numbers(g, T), NEW h, Carried(g, f, h, S)
  PROVE  IsFiniteSet(T) /\ SumOver(g, T) = SumOver(h, S)
<1> DEFINE wrong(R) == \E I \in SUBSET T : OneToOne(f, R, I) /\ IsFiniteSet(I) /\ SumOver(g, I) # SumOver(h, R)
           F == {R \in SUBSET S : wrong(R)}
<1>1. ASSUME F # {} PROVE FALSE
  <2>1. PICK R \in F : \A B \in F : B \subseteq R => B = R
    <3>1. F \subseteq SUBSET S
      OBVIOUS
    <3> HIDE DEF F
    <3> QED
      BY <1>1, <3>1, LeastSet
  <2>2. R \in SUBSET S /\ IsFiniteSet(R)
    BY FS_Subset
  <2>3. PICK I \in SUBSET T : OneToOne(f, R, I) /\ IsFiniteSet(I) /\ SumOver(g, I) # SumOver(h, R)
    OBVIOUS
  <2>4. Carried(g, f, h, R) /\ Numbers(g, I)
    BY <2>2 DEF Carried, Numbers
  <2>5. R # {}
    <3>1. R = {} => I = {}
      BY <2>3 DEF OneToOne
    <3> QED
      BY <2>3, <3>1, EmptyTotal
  <2>6. PICK y \in R : TRUE
    BY <2>5
  <2>7. OneToOne(f, R \ {y}, I \ {f[y]})
    BY <2>3 DEF OneToOne
  <2>8. IsFiniteSet(I \ {f[y]}) /\ R \ {y} \notin F
    BY <2>1, <2>3, <2>6, FS_Subset
  <2>9. SumOver(g, I \ {f[y]}) = SumOver(h, R \ {y})
    BY <2>2, <2>7, <2>8
  <2> QED
    BY <2>2, <2>3, <2>4, <2>9, ImageStep
<1>2. PICK I : I \subseteq T /\ IsFiniteSet(I) /\ OneToOne(f, S, I)
  BY PartImage
<1>3. I = T
  BY <1>2 DEF OneToOne
<1>4. ~ wrong(S)
  BY <1>1
<1> QED
  BY <1>2, <1>3, <1>4

\* What is finite but for one element is finite.
LEMMA OneMore == ASSUME NEW S, IsFiniteSet(S), NEW x, NEW T, T \subseteq S \cup {x} PROVE IsFiniteSet(T)
<1>1. IsFiniteSet(S \cup {x})
  BY FS_AddElement
<1> QED
  BY <1>1, FS_Subset

\* A set of which every element counts the same.
LEMMA TotalOfAlike ==
  ASSUME NEW S, IsFiniteSet(S), NEW g, NEW c \in Int, \A x \in S : g[x] = c
  PROVE  SumOver(g, S) = c * Cardinality(S)
<1>1. Numbers(g, S)
  BY DEF Numbers
<1> DEFINE F == {T \in SUBSET S : SumOver(g, T) # c * Cardinality(T)}
<1>2. ASSUME F # {} PROVE FALSE
  <2>1. PICK T \in F : \A B \in F : B \subseteq T => B = T
    <3>1. F \subseteq SUBSET S
      OBVIOUS
    <3> HIDE DEF F
    <3> QED
      BY <1>2, <3>1, LeastSet
  <2>2. IsFiniteSet(T) /\ Numbers(g, T) /\ SumOver(g, T) # c * Cardinality(T)
    BY <1>1, FS_Subset DEF Numbers
  <2>3. c * 0 = 0
    OBVIOUS
  <2>4. PICK y \in T : TRUE
    BY <2>2, <2>3, EmptyTotal, FS_EmptySet
  <2> DEFINE Q == T \ {y}
  <2>5. SumOver(g, T) = c + SumOver(g, Q)
    BY <2>2, TotalTakes
  <2>6. SumOver(g, Q) = c * Cardinality(Q)
    BY <2>1
  <2>7. Cardinality(Q) = Cardinality(T) - 1 /\ Cardinality(T) \in Int
    BY <2>2, FS_RemoveElement, FS_CardinalityType
  <2>8. ASSUME NEW n \in Int PROVE c + c * (n - 1) = c * n
    OBVIOUS
  <2> HIDE DEF F, Q
  <2> QED
    BY <2>2, <2>5, <2>6, <2>7, <2>8
<1> QED
  BY <1>2

\* A total of multiples is the multiple of the total.
LEMMA TotalScaled ==
  ASSUME NEW S, IsFiniteSet(S), NEW g, Numbers(g, S), NEW c \in Int,
         NEW h, \A x \in S : h[x] = g[x] * c
  PROVE  SumOver(h, S) = SumOver(g, S) * c
<1>1. Numbers(h, S)
  BY DEF Numbers
<1> DEFINE F == {T \in SUBSET S : SumOver(h, T) # SumOver(g, T) * c}
<1>2. ASSUME F # {} PROVE FALSE
  <2>1. PICK T \in F : \A B \in F : B \subseteq T => B = T
    <3>1. F \subseteq SUBSET S
      OBVIOUS
    <3> HIDE DEF F
    <3> QED
      BY <1>2, <3>1, LeastSet
  <2>2. /\ IsFiniteSet(T) /\ Numbers(g, T) /\ Numbers(h, T)
        /\ SumOver(h, T) # SumOver(g, T) * c
    BY <1>1, FS_Subset DEF Numbers
  <2>3. 0 = 0 * c
    OBVIOUS
  <2>4. PICK y \in T : TRUE
    BY <2>2, <2>3, EmptyTotal
  <2> DEFINE Q == T \ {y}
  <2>5. SumOver(h, T) = h[y] + SumOver(h, Q) /\ SumOver(g, T) = g[y] + SumOver(g, Q)
    BY <2>2, TotalTakes
  <2>6. SumOver(h, Q) = SumOver(g, Q) * c
    BY <2>1
  <2>7. SumOver(g, Q) \in Int
    <3>1. IsFiniteSet(Q) /\ Numbers(g, Q)
      BY <2>2, FS_Subset DEF Numbers
    <3> HIDE DEF Q
    <3> QED
      BY <3>1, TotalIsNumber
  <2>8. h[y] = g[y] * c /\ g[y] \in Int
    BY <2>2 DEF Numbers
  <2>9. ASSUME NEW m \in Int, NEW n \in Int PROVE m * c + n * c = (m + n) * c
    OBVIOUS
  <2> HIDE DEF F, Q
  <2> QED
    BY <2>2, <2>5, <2>6, <2>7, <2>8, <2>9
<1> QED
  BY <1>2

\* The number that row x has in column y, and column y has in row x.
Table(g, S, k, T) == \A x \in S, y \in T : g[x][y] \in Int /\ k[y][x] = g[x][y]

\* A table comes to the same by row and by column.
LEMMA TotalSwaps ==
  ASSUME NEW S, IsFiniteSet(S), NEW T, IsFiniteSet(T), NEW g, NEW k, Table(g, S, k, T),
         NEW rows, \A x \in S : rows[x] = SumOver(g[x], T),
         NEW columns, \A y \in T : columns[y] = SumOver(k[y], S)
  PROVE  SumOver(rows, S) = SumOver(columns, T)
<1> DEFINE C(R) == [y \in T |-> SumOver(k[y], R)]
<1>1. ASSUME NEW R \in SUBSET S
      PROVE  IsFiniteSet(R) /\ (\A y \in T : Numbers(k[y], R)) /\ Numbers(C(R), T)
  <2>1. IsFiniteSet(R) /\ (\A y \in T : Numbers(k[y], R))
    BY FS_Subset DEF Table, Numbers
  <2>2. \A y \in T : SumOver(k[y], R) \in Int
    BY <2>1, TotalIsNumber
  <2> QED
    BY <2>1, <2>2 DEF Numbers
<1>2. Numbers(rows, S)
  <2>1. \A x \in S : Numbers(g[x], T)
    BY DEF Table, Numbers
  <2> QED
    BY <2>1, TotalIsNumber DEF Numbers
<1> DEFINE F == {R \in SUBSET S : SumOver(rows, R) # SumOver(C(R), T)}
<1>3. ASSUME F # {} PROVE FALSE
  <2>1. PICK R \in F : \A B \in F : B \subseteq R => B = R
    <3>1. F \subseteq SUBSET S
      OBVIOUS
    <3> HIDE DEF F
    <3> QED
      BY <1>3, <3>1, LeastSet
  <2>2. R \in SUBSET S /\ SumOver(rows, R) # SumOver(C(R), T)
    OBVIOUS
  <2>3. R # {}
    <3>1. ASSUME NEW y \in T PROVE C({})[y] = 0
      BY EmptyTotal
    <3>2. SumOver(C({}), T) = 0
      <4> HIDE DEF C
      <4> QED
        BY <3>1, TotalOfNothing
    <3> QED
      BY <2>2, <3>2, EmptyTotal
  <2>4. PICK x \in R : TRUE
    BY <2>3
  <2> DEFINE Q == R \ {x}
  <2>5. SumOver(rows, R) = rows[x] + SumOver(rows, Q)
    BY <1>1, <1>2, <2>2, TotalTakes DEF Numbers
  <2>6. SumOver(rows, Q) = SumOver(C(Q), T)
    BY <2>1
  <2>7. x \in S /\ Q \in SUBSET S
    BY <2>2
  <2>8. ASSUME NEW y \in T PROVE C(R)[y] = g[x][y] + C(Q)[y]
    <3>1. SumOver(k[y], R) = k[y][x] + SumOver(k[y], Q)
      BY <1>1, <2>2, TotalTakes
    <3>2. k[y][x] = g[x][y]
      BY <2>7 DEF Table
    <3> QED
      BY <3>1, <3>2
  <2>9. Numbers(g[x], T) /\ Numbers(C(Q), T)
    BY <1>1, <2>7 DEF Table, Numbers
  <2> HIDE DEF F, Q, C
  <2>10. SumOver(C(R), T) = SumOver(g[x], T) + SumOver(C(Q), T)
    BY <2>8, <2>9, TotalOfBoth
  <2>11. rows[x] = SumOver(g[x], T)
    BY <2>7
  <2> QED
    BY <2>2, <2>5, <2>6, <2>10, <2>11
<1>4. SumOver(rows, S) = SumOver(C(S), T)
  BY <1>3
<1>5. Alike(C(S), columns, T)
  BY DEF Alike
<1> HIDE DEF C
<1> QED
  BY <1>4, <1>5, TotalSame

WholeNumbers(S) == S \subseteq Int /\ S # {}

\* A finite set of whole numbers has a least and a greatest one.
LEMMA HasLeast ==
  ASSUME NEW S, IsFiniteSet(S), WholeNumbers(S)
  PROVE  \E x \in S : \A y \in S : x <= y
<1> DEFINE below(x) == {y \in S : y <= x}
           F == {below(x) : x \in S}
<1>1. PICK A \in F : \A B \in F : B \subseteq A => B = A
  <2>1. F \subseteq SUBSET S
    OBVIOUS
  <2>2. F # {}
    BY DEF WholeNumbers
  <2> HIDE DEF F
  <2> QED
    BY <2>1, <2>2, LeastSet
<1>2. /\ \A T \in F : \E x \in S : T = below(x)
      /\ \A x \in S : below(x) \in F
  BY Zenon
<1> HIDE DEF F
<1>3. PICK x \in S : A = below(x)
  BY <1>1, <1>2, Zenon
<1>4. ASSUME NEW y \in S PROVE x <= y
  <2>1. CASE y <= x
    <3>1. below(y) \subseteq below(x)
      <4>1. \A z \in Int : z <= y => z <= x
        BY <2>1 DEF WholeNumbers
      <4> QED
        BY <4>1 DEF WholeNumbers
    <3>2. below(y) = below(x)
      <4> HIDE DEF below
      <4>1. below(y) \in F
        BY <1>2, Zenon
      <4>2. below(y) \subseteq A
        BY <1>3, <3>1, Zenon
      <4> QED
        BY <1>1, <1>3, <4>1, <4>2, Zenon
    <3>3. x \in below(x)
      BY DEF WholeNumbers
    <3>4. x \in below(y)
      BY <3>2, <3>3, Zenon
    <3> QED
      BY <3>4
  <2> QED
    BY <2>1 DEF WholeNumbers
<1> QED
  BY <1>4

LEMMA HasGreatest ==
  ASSUME NEW S, IsFiniteSet(S), WholeNumbers(S)
  PROVE  \E x \in S : \A y \in S : x >= y
<1> DEFINE above(x) == {y \in S : y >= x}
           F == {above(x) : x \in S}
<1>1. PICK A \in F : \A B \in F : B \subseteq A => B = A
  <2>1. F \subseteq SUBSET S
    OBVIOUS
  <2>2. F # {}
    BY DEF WholeNumbers
  <2> HIDE DEF F
  <2> QED
    BY <2>1, <2>2, LeastSet
<1>2. /\ \A T \in F : \E x \in S : T = above(x)
      /\ \A x \in S : above(x) \in F
  BY Zenon
<1> HIDE DEF F
<1>3. PICK x \in S : A = above(x)
  BY <1>1, <1>2, Zenon
<1>4. ASSUME NEW y \in S PROVE x >= y
  <2>1. CASE y >= x
    <3>1. above(y) \subseteq above(x)
      <4>1. \A z \in Int : z >= y => z >= x
        BY <2>1 DEF WholeNumbers
      <4> QED
        BY <4>1 DEF WholeNumbers
    <3>2. above(y) = above(x)
      <4> HIDE DEF above
      <4>1. above(y) \in F
        BY <1>2, Zenon
      <4>2. above(y) \subseteq A
        BY <1>3, <3>1, Zenon
      <4> QED
        BY <1>1, <1>3, <4>1, <4>2, Zenon
    <3>3. x \in above(x)
      BY DEF WholeNumbers
    <3>4. x \in above(y)
      BY <3>2, <3>3, Zenon
    <3> QED
      BY <3>4
  <2> QED
    BY <2>1 DEF WholeNumbers
<1> QED
  BY <1>4

-----------------------------------------------------------------------------
(***************************************************************************)
(* A fold takes the members of a set one by one; pick says which one is    *)
(* taken last.  The step of a fold is a function here, from the members    *)
(* and a set of values, since no lemma may range over operators.           *)
(***************************************************************************)
FoldingBy(f, step, base, pick, S) ==
    f = [s \in SUBSET S |-> IF s = {} THEN base ELSE step[pick[s]][f[s \ {pick[s]}]]]

Picks(pick, S) == IsFiniteSet(S) /\ \A s \in SUBSET S : s # {} => pick[s] \in s

\* The fold, unfolded once.
Unfolds(f, step, base, pick, S) ==
    \A s \in SUBSET S : /\ s = {} => f[s] = base
                        /\ s # {} => f[s] = step[pick[s]][f[s \ {pick[s]}]]

LEMMA FoldApplies ==
  ASSUME NEW S, NEW step, NEW base, NEW pick, NEW f, FoldingBy(f, step, base, pick, S)
  PROVE  Unfolds(f, step, base, pick, S)
<1> DEFINE body(t) == IF t = {} THEN base ELSE step[pick[t]][f[t \ {pick[t]}]]
<1>1. f = [t \in SUBSET S |-> body(t)]
  BY DEF FoldingBy
<1> HIDE DEF body
<1>2. \A s \in SUBSET S : f[s] = body(s)
  BY <1>1
<1> QED
  BY <1>2 DEF body, Unfolds

LEMMA FoldOfNothing ==
  ASSUME NEW S, NEW step, NEW base, NEW pick, NEW f, FoldingBy(f, step, base, pick, S)
  PROVE  f[{}] = base
<1> DEFINE body(t) == IF t = {} THEN base ELSE step[pick[t]][f[t \ {pick[t]}]]
<1>1. f = [t \in SUBSET S |-> body(t)]
  BY DEF FoldingBy
<1>2. body({}) = base
  OBVIOUS
<1> HIDE DEF body
<1>3. f[{}] = body({})
  BY <1>1
<1> QED
  BY <1>2, <1>3

\* Folds over a set and over a part of it agree on the part.
LEMMA FoldsAgree ==
  ASSUME NEW S, NEW pick, Picks(pick, S), NEW R, R \subseteq S, NEW step, NEW base,
         NEW f, FoldingBy(f, step, base, pick, S), NEW k, FoldingBy(k, step, base, pick, R)
  PROVE  f[R] = k[R]
<1> DEFINE F == {t \in SUBSET R : f[t] # k[t]}
<1>1. ASSUME F # {} PROVE FALSE
  <2>1. PICK A \in F : \A B \in F : B \subseteq A => B = A
    <3>1. F \subseteq SUBSET R /\ IsFiniteSet(R)
      BY FS_Subset DEF Picks
    <3> HIDE DEF F
    <3> QED
      BY <1>1, <3>1, LeastSet
  <2>2. A \subseteq R /\ A \subseteq S /\ f[A] # k[A]
    OBVIOUS
  <2>3. A # {} => f[A \ {pick[A]}] = k[A \ {pick[A]}]
    BY <2>1, <2>2 DEF Picks
  <2> HIDE DEF F
  <2>4. /\ A = {} => f[A] = base
        /\ A # {} => f[A] = step[pick[A]][f[A \ {pick[A]}]]
    <3>1. Unfolds(f, step, base, pick, S)
      BY FoldApplies
    <3> QED
      BY <2>2, <3>1 DEF Unfolds
  <2>5. /\ A = {} => k[A] = base
        /\ A # {} => k[A] = step[pick[A]][k[A \ {pick[A]}]]
    <3>1. Unfolds(k, step, base, pick, R)
      BY FoldApplies
    <3> QED
      BY <2>2, <3>1 DEF Unfolds
  <2> QED
    BY <2>2, <2>3, <2>4, <2>5
<1> QED
  BY <1>1

\* There is a fold over every finite set.
LEMMA FoldsByExist ==
  ASSUME NEW S, NEW pick, Picks(pick, S), NEW step, NEW base
  PROVE  \E f : FoldingBy(f, step, base, pick, S)
<1> DEFINE F == {T \in SUBSET S : \A f : ~ FoldingBy(f, step, base, pick, T)}
<1>1. ASSUME F # {} PROVE FALSE
  <2>1. PICK T \in F : \A B \in F : B \subseteq T => B = T
    <3>1. F \subseteq SUBSET S /\ IsFiniteSet(S)
      BY DEF Picks
    <3> HIDE DEF F
    <3> QED
      BY <1>1, <3>1, LeastSet
  <2> DEFINE w(U) == CHOOSE f : FoldingBy(f, step, base, pick, U)
             last == pick[T]
             value(s) == IF s = T THEN (IF T = {} THEN base ELSE step[last][w(T \ {last})[T \ {last}]])
                         ELSE w(s)[s]
             f == [s \in SUBSET T |-> value(s)]
  <2>2. ASSUME NEW U \in SUBSET T, U # T PROVE FoldingBy(w(U), step, base, pick, U)
    <3>1. \E k : FoldingBy(k, step, base, pick, U)
      BY <2>1, <2>2
    <3> QED
      BY <3>1
  <2>3. \A U \in SUBSET T : Picks(pick, U)
    BY FS_Subset DEF Picks
  <2> HIDE DEF w
  <2>4. ASSUME NEW s \in SUBSET T
        PROVE  value(s) = IF s = {} THEN base ELSE step[pick[s]][f[s \ {pick[s]}]]
    <3>1. CASE s = {} /\ s # T
      <4>1. FoldingBy(w(s), step, base, pick, s) /\ s \subseteq s
        BY <2>2, <3>1
      <4>2. w(s)[s] = base
        BY <3>1, <4>1, FoldOfNothing
      <4> QED
        BY <3>1, <4>2
    <3>2. CASE s = {} /\ s = T
      BY <3>2
    <3>3. CASE s # {}
      <4> DEFINE p == pick[s]
                 r == s \ {p}
      <4>1. p \in s
        BY <2>3, <3>3 DEF Picks
      <4>2. r \in SUBSET T /\ r # T /\ r \subseteq s
        BY <4>1
      <4>3. f[r] = w(r)[r]
        BY <4>2
      <4>4. CASE s = T
        BY <3>3, <4>3, <4>4
      <4>5. CASE s # T
        <5>1. FoldingBy(w(s), step, base, pick, s) /\ FoldingBy(w(r), step, base, pick, r)
          BY <2>2, <4>2, <4>5
        <5>2. w(s)[s] = step[p][w(s)[r]]
          <6>1. Unfolds(w(s), step, base, pick, s)
            BY <5>1, FoldApplies
          <6> HIDE DEF w
          <6> QED
            BY <3>3, <6>1 DEF Unfolds
        <5>3. w(s)[r] = w(r)[r]
          <6>1. Picks(pick, s)
            BY <2>3
          <6> HIDE DEF r
          <6> QED
            BY <4>2, <5>1, <6>1, FoldsAgree
        <5> QED
          BY <3>3, <4>3, <4>5, <5>2, <5>3
      <4> QED
        BY <4>4, <4>5
    <3> QED
      BY <3>1, <3>2, <3>3
  <2>5. FoldingBy(f, step, base, pick, T)
    <3> HIDE DEF value
    <3> QED
      BY <2>4 DEF FoldingBy
  <2> QED
    BY <2>5
<1> QED
  BY <1>1

\* What its step keeps, a fold has: a relation between what has been taken and the value.
LEMMA FoldKeeps ==
  ASSUME NEW S, NEW pick, Picks(pick, S), NEW step, NEW base, NEW Good, << {}, base >> \in Good,
         \A s \in SUBSET S : \A v : (s # {} /\ << s \ {pick[s]}, v >> \in Good)
                                       => << s, step[pick[s]][v] >> \in Good,
         NEW f, FoldingBy(f, step, base, pick, S), NEW s, s \subseteq S
  PROVE  << s, f[s] >> \in Good
<1> DEFINE F == {T \in SUBSET S : << T, f[T] >> \notin Good}
<1>1. ASSUME F # {} PROVE FALSE
  <2>1. PICK T \in F : \A B \in F : B \subseteq T => B = T
    <3>1. F \subseteq SUBSET S /\ IsFiniteSet(S)
      BY DEF Picks
    <3> HIDE DEF F
    <3> QED
      BY <1>1, <3>1, LeastSet
  <2>2. T \in SUBSET S /\ << T, f[T] >> \notin Good
    OBVIOUS
  <2>3. T # {}
    <3>1. f[{}] = base
      BY FoldOfNothing
    <3> QED
      BY <2>2, <3>1
  <2>4. pick[T] \in T
    BY <2>2, <2>3 DEF Picks
  <2>5. << T \ {pick[T]}, f[T \ {pick[T]}] >> \in Good
    BY <2>1, <2>4
  <2>6. f[T] = step[pick[T]][f[T \ {pick[T]}]]
    <3>1. Unfolds(f, step, base, pick, S)
      BY FoldApplies
    <3> QED
      BY <2>2, <2>3, <3>1 DEF Unfolds
  <2> QED
    BY <2>2, <2>3, <2>5, <2>6
<1> QED
  BY <1>1

-----------------------------------------------------------------------------
(***************************************************************************)
(* Sequences are folded from their last position.                          *)
(***************************************************************************)
Greatest(s) == CHOOSE x \in s : \A y \in s : x >= y

Folding(f, step, base, S) ==
    f = [s \in SUBSET S |-> IF s = {} THEN base ELSE step[Greatest(s)][f[s \ {Greatest(s)}]]]

Positions(S) == IsFiniteSet(S) /\ \A x \in S : x \in Int

LEMMA GreatestIn ==
  ASSUME NEW S, Positions(S), NEW s, s \subseteq S, s # {}
  PROVE  Greatest(s) \in s /\ \A y \in s : Greatest(s) >= y
<1>1. IsFiniteSet(s) /\ WholeNumbers(s)
  BY FS_Subset DEF Positions, WholeNumbers
<1>2. \E x \in s : \A y \in s : x >= y
  BY <1>1, HasGreatest
<1> QED
  BY <1>2 DEF Greatest

Greatests(S) == [s \in SUBSET S |-> Greatest(s)]

LEMMA FoldingIs ==
  ASSUME NEW S, Positions(S), NEW step, NEW base
  PROVE  /\ Picks(Greatests(S), S)
         /\ \A f : Folding(f, step, base, S) <=> FoldingBy(f, step, base, Greatests(S), S)
<1>1. \A s \in SUBSET S : Greatests(S)[s] = Greatest(s) /\ (s # {} => Greatest(s) \in s)
  BY GreatestIn DEF Greatests
<1>2. Picks(Greatests(S), S)
  BY <1>1 DEF Picks, Positions
<1>3. ASSUME NEW f PROVE Folding(f, step, base, S) <=> FoldingBy(f, step, base, Greatests(S), S)
  BY <1>1 DEF Folding, FoldingBy
<1> QED
  BY <1>2, <1>3

\* There is a fold over every finite set of positions.
LEMMA FoldsExist ==
  ASSUME NEW S, Positions(S), NEW step, NEW base
  PROVE  \E f : Folding(f, step, base, S)
BY FoldingIs, FoldsByExist

\* The values of a fold stay among those its step maps to.
LEMMA FoldStays ==
  ASSUME NEW S, Positions(S), NEW step, NEW V, NEW base \in V,
         \A x \in S : \A v \in V : step[x][v] \in V,
         NEW f, Folding(f, step, base, S), NEW s, s \subseteq S
  PROVE  f[s] \in V
<1> DEFINE pick == Greatests(S)
           Good == (SUBSET S) \X V
<1>1. Picks(pick, S) /\ FoldingBy(f, step, base, pick, S)
  BY FoldingIs
<1>2. << {}, base >> \in Good
  OBVIOUS
<1>3. ASSUME NEW t \in SUBSET S, NEW v, t # {}, << t \ {pick[t]}, v >> \in Good
      PROVE  << t, step[pick[t]][v] >> \in Good
  <2>1. pick[t] \in S /\ v \in V
    BY <1>1, <1>3 DEF Picks
  <2> HIDE DEF pick
  <2> QED
    BY <2>1
<1>4. << s, f[s] >> \in Good
  <2> HIDE DEF pick, Good
  <2> QED
    BY <1>1, <1>2, <1>3, FoldKeeps
<1> QED
  BY <1>4

\* The last of the first j positions.
LEMMA GreatestUpTo ==
  ASSUME NEW j \in Nat \ {0}
  PROVE  /\ Positions(1..j) /\ 1..j # {}
         /\ Greatest(1..j) = j /\ (1..j) \ {j} = 1..(j - 1)
<1> DEFINE S == 1..j
<1>1. Positions(S) /\ S # {} /\ j \in S /\ \A x \in S : x <= j
  <2>1. IsFiniteSet(S)
    BY FS_Interval
  <2>2. S # {} /\ j \in S /\ \A x \in S : x \in Int /\ x <= j
    OBVIOUS
  <2> QED
    BY <2>1, <2>2 DEF Positions
<1>2. S \ {j} = 1..(j - 1)
  OBVIOUS
<1> HIDE DEF S
<1>3. Greatest(S) \in S /\ \A y \in S : Greatest(S) >= y
  BY <1>1, GreatestIn
<1>4. Greatest(S) = j
  <2>1. Greatest(S) \in Int /\ Greatest(S) <= j /\ Greatest(S) >= j
    BY <1>1, <1>3 DEF Positions
  <2> QED
    BY <2>1
<1> QED
  BY <1>1, <1>2, <1>4 DEF S

\* What holds of nothing, and of each position after the one before it, holds up to the last.
LEMMA ReachesLast ==
  ASSUME NEW n \in Nat, NEW B, 0 \in B, \A j \in 1..n : j - 1 \in B => j \in B
  PROVE  \A j \in 0..n : j \in B
<1> DEFINE W == (0..n) \ B
<1>1. ASSUME W # {} PROVE FALSE
  <2>1. IsFiniteSet(W) /\ WholeNumbers(W)
    <3>1. IsFiniteSet(0..n) /\ W \subseteq 0..n
      BY FS_Interval
    <3> QED
      BY <1>1, <3>1, FS_Subset DEF WholeNumbers
  <2>2. PICK j \in W : \A y \in W : j <= y
    <3> HIDE DEF W
    <3> QED
      BY <2>1, HasLeast
  <2>3. j \in 1..n /\ j - 1 \in 0..n /\ j \notin B
    OBVIOUS
  <2>4. j - 1 \notin W
    BY <2>2, <2>3
  <2> QED
    BY <2>3, <2>4
<1> QED
  BY <1>1

-----------------------------------------------------------------------------
\* What the rows of a log weigh, each by its weight in w.
Weighed(w, log) == [i \in DOMAIN log |-> w[log[i]]]
Weight(w, log) == SumOver(Weighed(w, log), DOMAIN log)

\* The same, of the first j rows.
WeightTo(w, log, j) == SumOver(Weighed(w, log), 1..j)

Weights(w, R) == \A r \in R : w[r] \in Int

LEMMA LogPlaces ==
  ASSUME NEW R, NEW log \in Seq(R)
  PROVE  Len(log) \in Nat /\ DOMAIN log = 1..Len(log) /\ \A i \in DOMAIN log : log[i] \in R
OBVIOUS

LEMMA WeightIsNumber ==
  ASSUME NEW R, NEW log \in Seq(R), NEW w, Weights(w, R)
  PROVE  /\ Weight(w, log) \in Int /\ Numbers(Weighed(w, log), DOMAIN log)
         /\ Weight(w, log) = WeightTo(w, log, Len(log)) /\ WeightTo(w, log, 0) = 0
         /\ \A j \in 1..Len(log) : WeightTo(w, log, j) = WeightTo(w, log, j - 1) + w[log[j]]
<1>1. Numbers(Weighed(w, log), DOMAIN log)
  BY LogPlaces DEF Numbers, Weighed, Weights
<1>2. DOMAIN log = 1..Len(log) /\ IsFiniteSet(DOMAIN log)
  BY LogPlaces, FS_Interval
<1>3. ASSUME NEW j \in 1..Len(log) PROVE WeightTo(w, log, j) = WeightTo(w, log, j - 1) + w[log[j]]
  <2>1. 1..j = (1..(j - 1)) \cup {j} /\ j \notin 1..(j - 1) /\ 1..j \subseteq DOMAIN log
    BY LogPlaces
  <2> DEFINE T == 1..(j - 1)
             g == Weighed(w, log)
  <2>2. IsFiniteSet(T)
    <3>1. j - 1 \in Int
      BY LogPlaces
    <3> QED
      BY <3>1, FS_Interval
  <2>3. g[j] = w[log[j]] /\ Numbers(g, 1..j)
    BY <1>1, <2>1 DEF Weighed, Numbers
  <2>4. 1..j = T \cup {j} /\ j \notin T
    BY <2>1
  <2>5. WeightTo(w, log, j) = SumOver(g, 1..j) /\ WeightTo(w, log, j - 1) = SumOver(g, T)
    BY DEF WeightTo
  <2> HIDE DEF T, g
  <2>6. Numbers(g, T \cup {j})
    BY <2>3, <2>4
  <2>7. SumOver(g, T \cup {j}) = SumOver(g, T) + g[j]
    BY <2>2, <2>4, <2>6, TotalAdds
  <2> QED
    BY <2>3, <2>4, <2>5, <2>7
<1>4. WeightTo(w, log, 0) = 0
  <2>1. 1..0 = {}
    OBVIOUS
  <2> QED
    BY <2>1, EmptyTotal DEF WeightTo
<1> QED
  BY <1>1, <1>2, <1>3, <1>4, TotalIsNumber DEF Weight, WeightTo

\* An empty log, one row more, and two logs one after the other.
LEMMA WeightOfNone == ASSUME NEW w PROVE Weight(w, << >>) = 0
  BY EmptyTotal DEF Weight

LEMMA WeightAppended ==
  ASSUME NEW R, NEW log \in Seq(R), NEW w, Weights(w, R), NEW r \in R
  PROVE  Append(log, r) \in Seq(R) /\ Weight(w, Append(log, r)) = Weight(w, log) + w[r]
<1> DEFINE more == Append(log, r)
<1>1. /\ more \in Seq(R) /\ Len(more) = Len(log) + 1 /\ more[Len(log) + 1] = r
      /\ \A i \in DOMAIN log : more[i] = log[i]
  BY LogPlaces
<1>2. Len(more) \in 1..Len(more) /\ Len(more) - 1 = Len(log)
  BY <1>1, LogPlaces
<1> HIDE DEF more
<1>3. Weight(w, more) = WeightTo(w, more, Len(log)) + w[r]
  BY <1>1, <1>2, WeightIsNumber
<1>4. WeightTo(w, more, Len(log)) = WeightTo(w, log, Len(log))
  <2>1. DOMAIN log = 1..Len(log) /\ DOMAIN log \subseteq DOMAIN more /\ IsFiniteSet(1..Len(log))
    <3>1. Len(log) \in Nat /\ DOMAIN log = 1..Len(log) /\ DOMAIN more = 1..Len(more)
      BY <1>1, LogPlaces
    <3>2. DOMAIN log \subseteq DOMAIN more
      BY <1>1, <3>1
    <3>3. IsFiniteSet(1..Len(log))
      BY <3>1, FS_Interval
    <3> QED
      BY <3>1, <3>2, <3>3
  <2>2. Alike(Weighed(w, more), Weighed(w, log), 1..Len(log))
    BY <1>1, <2>1 DEF Alike, Weighed
  <2> QED
    BY <2>1, <2>2, TotalSame DEF WeightTo
<1>5. Weight(w, log) = WeightTo(w, log, Len(log))
  BY WeightIsNumber
<1> QED
  BY <1>1, <1>3, <1>4, <1>5 DEF more

LEMMA WeightJoined ==
  ASSUME NEW R, NEW log \in Seq(R), NEW more \in Seq(R), NEW w, Weights(w, R)
  PROVE  log \o more \in Seq(R) /\ Weight(w, log \o more) = Weight(w, log) + Weight(w, more)
<1> DEFINE both == log \o more
           a == Len(log)
           m == Len(more)
           B == {j \in 0..m : WeightTo(w, both, a + j) = Weight(w, log) + WeightTo(w, more, j)}
<1>1. /\ a \in Nat /\ m \in Nat /\ both \in Seq(R) /\ Len(both) = a + m
      /\ \A i \in 1..a : both[i] = log[i]
      /\ \A i \in 1..m : both[a + i] = more[i]
  BY LogPlaces
<1> HIDE DEF both, a, m
<1>2. 0 \in B
  <2>1. a + 0 = a /\ DOMAIN log = 1..a /\ 1..a \subseteq DOMAIN both /\ IsFiniteSet(1..a)
    <3>1. DOMAIN log = 1..a /\ DOMAIN both = 1..(a + m)
      BY <1>1, LogPlaces DEF a
    <3>2. a \in Int /\ a + 0 = a /\ 1..a \subseteq 1..(a + m)
      BY <1>1
    <3> QED
      BY <3>1, <3>2, FS_Interval
  <2>2. Alike(Weighed(w, both), Weighed(w, log), 1..a)
    BY <1>1, <2>1 DEF Alike, Weighed
  <2>3. WeightTo(w, both, a) = WeightTo(w, log, a)
    BY <2>1, <2>2, TotalSame DEF WeightTo
  <2>4. Weight(w, log) = WeightTo(w, log, a) /\ WeightTo(w, more, 0) = 0 /\ Weight(w, log) \in Int
    BY WeightIsNumber DEF a
  <2> QED
    BY <1>1, <2>1, <2>3, <2>4
<1>3. ASSUME NEW j \in 1..m, j - 1 \in B PROVE j \in B
  <2>1. j \in 1..Len(more) /\ a + j \in 1..Len(both) /\ (a + j) - 1 = a + (j - 1)
    BY <1>1 DEF m
  <2>2. WeightTo(w, both, a + j) = WeightTo(w, both, a + (j - 1)) + w[both[a + j]]
    <3>1. both \in Seq(R) /\ a + j \in 1..Len(both)
      BY <1>1, <2>1
    <3>2. \A i \in 1..Len(both) : WeightTo(w, both, i) = WeightTo(w, both, i - 1) + w[both[i]]
      BY <3>1, WeightIsNumber
    <3> QED
      BY <2>1, <3>1, <3>2
  <2>3. WeightTo(w, more, j) = WeightTo(w, more, j - 1) + w[more[j]]
    BY <2>1, WeightIsNumber
  <2>4. w[more[j]] \in Int /\ Weight(w, log) \in Int
    BY <2>1, LogPlaces, WeightIsNumber DEF Weights
  <2>5. WeightTo(w, more, j - 1) \in Int
    <3>1. 1..(j - 1) \subseteq DOMAIN more /\ IsFiniteSet(1..(j - 1))
      <4>1. j - 1 \in Int /\ DOMAIN more = 1..Len(more) /\ Len(more) \in Nat
        BY <2>1, LogPlaces
      <4> QED
        BY <2>1, <4>1, FS_Interval
    <3>2. Numbers(Weighed(w, more), 1..(j - 1))
      BY <3>1, WeightIsNumber DEF Numbers
    <3> QED
      BY <3>1, <3>2, TotalIsNumber DEF WeightTo
  <2>6. WeightTo(w, both, a + (j - 1)) = Weight(w, log) + WeightTo(w, more, j - 1)
    BY <1>3
  <2> QED
    BY <1>1, <2>2, <2>3, <2>4, <2>5, <2>6
<1>4. m \in B
  <2>1. \A j \in 0..m : j \in B
    <3> HIDE DEF B
    <3> QED
      BY <1>1, <1>2, <1>3, ReachesLast
  <2> QED
    BY <1>1, <2>1
<1>5. Weight(w, both) = WeightTo(w, both, a + m) /\ Weight(w, more) = WeightTo(w, more, m)
  BY <1>1, WeightIsNumber DEF m
<1> QED
  BY <1>1, <1>4, <1>5 DEF both

=============================================================================
