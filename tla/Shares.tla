------------------------------- MODULE Shares -------------------------------
(***************************************************************************)
(* The register of shareholders: movements that are only ever added, the   *)
(* book on a day, which is folded from them, dividends, and the return of  *)
(* a year.  A quantity is positive; the type says which way it goes.       *)
(***************************************************************************)
EXTENDS Access, Sequences, FiniteSetsExt

CONSTANTS
    Shareholder,
    EventType,      \* the types of movement tried
    LastDayOfBook,  \* bound: the last day; a year has one
    Quantity,
    PerShare,       \* dividend per share, in øre
    DividendId,
    MaxShareEvent   \* bound: movements recorded

ASSUME SharesAssumption ==
    /\ IsFiniteSet(Shareholder) /\ Nobody \notin Shareholder
    /\ IsFiniteSet(EventType) /\ IsFiniteSet(DividendId)
    /\ LastDayOfBook \in Nat
    /\ Quantity \subseteq Nat \ {0}
    /\ PerShare \subseteq Nat

Reallocation == {"fondsemisjon", "splitt", "skattefri_fusjon", "skattefri_fisjon",
                 "sammenslaing_deling_aksjeklasse"}
Disposal == {"salg", "likvidasjon", "partiell_likvidasjon_likedelt",
             "partiell_likvidasjon_skjevdelt", "innlosning_skattefri_fusjon_fisjon", "spleis",
             "sletting_egne_aksjer"}

\* The item of the form a movement is reported under.
Post(type) ==
    IF type \in Reallocation THEN "reallocation"
    ELSE IF type \in Disposal THEN "disposal" ELSE "acquisition"
IsAcquisition(type) == Post(type) # "disposal"

\* The types whose code in the form has been seen in an official example.
HasCode(type) == type \in {"stiftelse", "nyemisjon"}

BookDay == 1..LastDayOfBook
YearOfDay(d) == d

VARIABLES
    holders,        \* the shareholders that are registered
    moved,          \* shares moved, by shareholder, day and type
    outside,        \* by day, shares that came from or went to nobody in the book
    writing,        \* what each person's transaction has checked and not yet committed
    dividend,       \* the dividends: day, per share and what was posted
    payable,        \* the balance of the account for dividends that are owed
    stretched,      \* shareholders that disposed of shares before a later disposal, or whose
                    \* disposal, as the other side of a movement, was overtaken by another
    restated,       \* dividends on a day that movements were recorded for afterwards
    shareEvents

varsShares == << holders, moved, outside, writing, dividend, payable, stretched, restated,
                 shareEvents >>

NotWriting == [kind |-> "none"]
NoDividend == [day |-> 0]
NoOther == Nobody

InitShares ==
    /\ holders = {}
    /\ moved = [h \in Shareholder |-> [d \in BookDay |-> [t \in EventType |-> 0]]]
    /\ outside = [d \in BookDay |-> 0]
    /\ writing = [p \in Person |-> NotWriting]
    /\ dividend = [i \in DividendId |-> NoDividend]
    /\ payable = 0
    /\ stretched = {} /\ restated = {}
    /\ shareEvents = 0

-----------------------------------------------------------------------------
(***************************************************************************)
(* What is folded from the movements.                                      *)
(***************************************************************************)
Delta(type, quantity) == IF IsAcquisition(type) THEN quantity ELSE -quantity

MovedOn(m, d) == MapThenSumSet(LAMBDA t : Delta(t, m[d][t]), EventType)

\* The holding on a day, that day's movements included.
Holding(m, d) == MapThenSumSet(LAMBDA c : MovedOn(m, c), 1..d)
HoldingOf(h, d) == Holding(moved[h], d)

BookTotal(d) == MapThenSumSet(LAMBDA h : HoldingOf(h, d), holders)

\* A share of the company in hundredths of a percent, cut and not rounded.
ShareOfCompany(h, d) == IF BookTotal(d) > 0 THEN (HoldingOf(h, d) * 10000) \div BookTotal(d) ELSE 0

YearMovement(h, year) ==
    LET days == {d \in BookDay : YearOfDay(d) = year}
        sum(types) == MapThenSumSet(LAMBDA d : MapThenSumSet(LAMBDA t : moved[h][d][t], types), days)
        opening == MapThenSumSet(LAMBDA d : MovedOn(moved[h], d),
                                 {d \in BookDay : YearOfDay(d) < year})
        gained == sum({t \in EventType : IsAcquisition(t)})
        lost == sum({t \in EventType : ~IsAcquisition(t)})
    IN [opening |-> opening, acquisitions |-> gained, disposals |-> lost,
        closing |-> opening + gained - lost]

-----------------------------------------------------------------------------
(***************************************************************************)
(* Movements.                                                              *)
(***************************************************************************)
\* One row for each identity.
CreateShareholder(p, h) ==
    /\ Allowed(p, "ShareRegisterWrite")
    /\ h \notin holders
    /\ holders' = holders \cup {h}
    /\ UNCHANGED << moved, outside, writing, dividend, payable, stretched, restated, shareEvents >>

\* The owner's row is locked; writing the other side's name waits for a lock on theirs.
NotHeld(p, owner, other) ==
    \A q \in Person \ {p} : writing[q].kind = "event" =>
        writing[q].owner \notin {owner, other} /\ writing[q].other # owner

Added(m, h, type, d, quantity) == [m EXCEPT ![h][d][type] = @ + quantity]

\* Nobody disposes of more than they hold on the day.
HasShares(m, h, type, d, quantity) == IsAcquisition(type) \/ Holding(m[h], d) >= quantity

\* The other side of a transfer, when it is known, goes the other way.  Its shares are
\* counted with the owner's row in the book; nothing keeps it from being the owner.
RecordEvent(p, owner, type, d, quantity, other, otherType) ==
    /\ Allowed(p, "ShareRegisterWrite")
    /\ writing[p] = NotWriting
    /\ shareEvents < MaxShareEvent
    /\ owner \in holders
    /\ NotHeld(p, owner, other)
    /\ HasShares(moved, owner, type, d, quantity)
    /\ other # NoOther =>
          /\ other \in holders
          /\ IsAcquisition(otherType) # IsAcquisition(type)
          /\ HasShares(Added(moved, owner, type, d, quantity), other, otherType, d, quantity)
    /\ writing' = [writing EXCEPT ![p] =
          [kind |-> "event", owner |-> owner, type |-> type, day |-> d, quantity |-> quantity,
           other |-> other, otherType |-> otherType]]
    /\ UNCHANGED << holders, moved, outside, dividend, payable, stretched, restated, shareEvents >>

\* Faulty: the row of the owner alone.
OneSide(w) == Added(moved, w.owner, w.type, w.day, w.quantity)

\* Both rows in the transaction.
BothSides(w) ==
    LET one == Added(moved, w.owner, w.type, w.day, w.quantity)
    IN IF w.other = NoOther THEN one ELSE Added(one, w.other, w.otherType, w.day, w.quantity)

Disposes(w) ==
    (IF IsAcquisition(w.type) THEN {} ELSE {w.owner})
      \cup (IF w.other = NoOther \/ IsAcquisition(w.otherType) THEN {} ELSE {w.other})

CommitEvent(p) ==
    LET w == writing[p]
        after == BothSides(w)
    IN /\ w.kind = "event"
       /\ shareEvents < MaxShareEvent
       /\ shareEvents' = shareEvents + 1
       /\ moved' = after
       /\ outside' = IF w.other # NoOther THEN outside
                     ELSE [outside EXCEPT ![w.day] = @ + Delta(w.type, w.quantity)]
       /\ stretched' = stretched \cup
             {h \in Disposes(w) : \/ h = w.other /\ HoldingOf(h, w.day) < w.quantity
                                  \/ \E c \in BookDay : c > w.day /\ MovedOn(moved[h], c) < 0}
       /\ restated' = restated \cup
             {i \in DividendId : dividend[i] # NoDividend /\ w.day <= dividend[i].day}
       /\ writing' = [writing EXCEPT ![p] = NotWriting]
       /\ UNCHANGED << holders, dividend, payable >>

\* Refused by the database, or the connection is gone.
AbortWriting(p) ==
    /\ writing[p] # NotWriting
    /\ writing' = [writing EXCEPT ![p] = NotWriting]
    /\ UNCHANGED << holders, moved, outside, dividend, payable, stretched, restated, shareEvents >>

-----------------------------------------------------------------------------
(***************************************************************************)
(* Dividends and the return.                                               *)
(***************************************************************************)
\* The book is read before the transaction.
DecideDividend(p, i, d, perShare) ==
    /\ Allowed(p, "ShareRegisterWrite")
    /\ writing[p] = NotWriting
    /\ dividend[i] = NoDividend
    /\ BookTotal(d) > 0
    /\ writing' = [writing EXCEPT ![p] =
          [kind |-> "dividend", id |-> i, day |-> d, perShare |-> perShare, total |-> BookTotal(d)]]
    /\ UNCHANGED << holders, moved, outside, dividend, payable, stretched, restated, shareEvents >>

\* Voucher and resolution in one transaction.
CreateDividend(p) ==
    LET w == writing[p] IN
    /\ w.kind = "dividend"
    /\ dividend[w.id] = NoDividend
    /\ dividend' = [dividend EXCEPT ![w.id] = [day |-> w.day, perShare |-> w.perShare]]
    /\ payable' = payable + w.total * w.perShare
    /\ restated' = IF BookTotal(w.day) = w.total THEN restated ELSE restated \cup {w.id}
    /\ writing' = [writing EXCEPT ![p] = NotWriting]
    /\ UNCHANGED << holders, moved, outside, stretched, shareEvents >>

Declared == {i \in DividendId : dividend[i] # NoDividend}
DividendTotal(i) == BookTotal(dividend[i].day) * dividend[i].perShare

\* Each shareholder that held shares on the day, at what they held then.
DividendEntries(h, year) ==
    [i \in {j \in Declared : YearOfDay(dividend[j].day) = year /\ HoldingOf(h, dividend[j].day) > 0}
        |-> HoldingOf(h, dividend[i].day) * dividend[i].perShare]

\* A return is not rendered with a movement whose code is not known.
Renderable(h, year) ==
    \A d \in BookDay, t \in EventType :
        YearOfDay(d) = year /\ moved[h][d][t] > 0 => HasCode(t)

BuildReturn(year) ==
    [holders |-> [h \in holders |-> [movement |-> YearMovement(h, year),
                                     dividends |-> DividendEntries(h, year),
                                     renderable |-> Renderable(h, year)]],
     last |-> MapThenSumSet(LAMBDA h : YearMovement(h, year).opening, holders),
     this |-> MapThenSumSet(LAMBDA h : YearMovement(h, year).closing, holders),
     dividends |-> MapThenSumSet(DividendTotal, {i \in Declared : YearOfDay(dividend[i].day) = year})]

NextShares ==
    \/ \E p \in Person, h \in Shareholder : CreateShareholder(p, h)
    \/ \E p \in Person, owner \in Shareholder, type \in EventType, d \in BookDay, n \in Quantity :
          \/ RecordEvent(p, owner, type, d, n, NoOther, type)
          \/ \E other \in Shareholder, otherType \in EventType :
                RecordEvent(p, owner, type, d, n, other, otherType)
    \/ \E p \in Person : CommitEvent(p) \/ AbortWriting(p) \/ CreateDividend(p)
    \/ \E p \in Person, i \in DividendId, d \in BookDay, n \in PerShare : DecideDividend(p, i, d, n)

SpecShares == InitShares /\ [][NextShares]_varsShares

-----------------------------------------------------------------------------
TypeOKShares ==
    /\ holders \subseteq Shareholder
    /\ moved \in [Shareholder -> [BookDay -> [EventType -> Nat]]]
    /\ \A d \in BookDay : outside[d] \in -1000..1000
    /\ \A i \in DividendId : dividend[i].day \in BookDay \cup {0}
    /\ \A p \in Person : writing[p].kind \in {"none", "event", "dividend"}
    /\ payable \in Nat
    /\ stretched \subseteq holders /\ restated \subseteq DividendId
    /\ shareEvents \in 0..MaxShareEvent

BookHasBothSides == \A d \in BookDay : BookTotal(d) = MapThenSumSet(LAMBDA c : outside[c], 1..d)

NobodyOwesShares == \A h \in holders \ stretched, d \in BookDay : HoldingOf(h, d) >= 0

ReturnFollowsBook ==
    \A year \in 1..YearOfDay(LastDayOfBook) :
        LET r == BuildReturn(year) IN
        /\ r.this = BookTotal(Max({d \in BookDay : YearOfDay(d) = year}))
        /\ \A h \in holders : r.holders[h].movement.closing = YearMovement(h, year + 1).opening
        /\ stretched = {} => r.dividends =
              MapThenSumSet(LAMBDA h : MapThenSumSet(LAMBDA i : r.holders[h].dividends[i],
                                                     DOMAIN r.holders[h].dividends), holders)

DividendsAreOwed == restated = {} => payable = MapThenSumSet(DividendTotal, Declared)

(***************************************************************************)
(* The book never holds half a sale: on each day it adds up to the shares  *)
(* that came into being less those that ceased to.  Nobody holds less than *)
(* nothing on any day, but for a disposal that was recorded before a later *)
(* one, or that was overtaken where only the other side's row was locked;  *)
(* the year closes where the next one opens and where the book stands that *)
(* day; and the dividends owed are what the book says, shareholder for     *)
(* shareholder, unless the day was restated.                               *)
(***************************************************************************)
BookAddsUp == BookHasBothSides /\ NobodyOwesShares /\ ReturnFollowsBook /\ DividendsAreOwed

=============================================================================
