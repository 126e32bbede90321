------------------------------- MODULE Stock -------------------------------
(***************************************************************************)
(* Products and their stock: a register that is edited, a log of movements *)
(* that is not, and counts that correct the one and post the difference    *)
(* between what the stock is worth and what the books say.                 *)
(***************************************************************************)
EXTENDS Access, Money

CONSTANTS
    Product, NoProduct,
    StockPrice,         \* prices in the register
    StockMove,          \* manual movements: kind, quantity in thousandths, cost
    CountedQuantity,    \* what people count, in thousandths
    MaxDay,             \* bound: dates are days 1..MaxDay
    MaxMovement,        \* bound: rows of the log
    MaxRegister         \* bound: edits of the register

Day == 1..MaxDay

ASSUME StockAssumption ==
    /\ NoProduct \notin Product /\ IsFiniteSet(Product)
    /\ \A move \in StockMove :
          /\ move.kind \in {"kjop", "justering"} /\ move.quantity \in Int \ {0} /\ move.cost \in Int
          /\ move.kind = "kjop" => move.quantity > 0
    /\ CountedQuantity \subseteq Int
    /\ MaxDay \in Nat \ {0}

VARIABLES
    product,        \* the register
    movements,      \* the rows of inventory_movement, in order of arrival
    inventoryBook,  \* the balance of the stock account
    counting,       \* the count each person's transaction holds
    counted,        \* the last count that was committed
    trueBook,       \* nothing has moved since a count that met no other one
    registerEdits

varsStock == << product, movements, inventoryBook, counting, counted, trueBook, registerEdits >>

NotCounting == [product |-> NoProduct, day |-> 1, quantity |-> 0, change |-> 0, alone |-> TRUE]

InitStock ==
    /\ product \in [Product -> [active : {TRUE}, stocked : {TRUE}, price : StockPrice]]
    /\ movements = << >>
    /\ inventoryBook = 0
    /\ counting = [p \in Person |-> NotCounting]
    /\ counted = {}
    /\ trueBook = TRUE
    /\ registerEdits = 0

-----------------------------------------------------------------------------
\* A count that has read what is about to change is no longer the only one at it.
Disturbed == [q \in Person |-> IF counting[q] = NotCounting THEN NotCounting
                                ELSE [counting[q] EXCEPT !.alone = FALSE]]

\* Issued documents carry copies, so the register may change at any time.
UpdateProduct(p, x, row) ==
    /\ Allowed(p, "ProductWrite")
    /\ registerEdits < MaxRegister
    /\ \A q \in Person : counting[q].product # x
    /\ product' = [product EXCEPT ![x] = row]
    /\ registerEdits' = registerEdits + 1
    /\ trueBook' = FALSE
    /\ counting' = Disturbed
    /\ UNCHANGED << movements, inventoryBook, counted >>

\* A line of a document: what the caller leaves out comes from the register.
ResolvableLine(line) == line.product # NoProduct => product[line.product].active
ResolveProductLine(line) ==
    [line EXCEPT !.price = IF @ = NoCost THEN product[line.product].price ELSE @]

Row(x, day, kind, quantity, cost, invoice) ==
    [product |-> x, day |-> day, kind |-> kind, quantity |-> quantity, cost |-> cost,
     invoice |-> invoice]

\* The foreign key of a movement waits for a count that holds the product.
NotHeldByCount(x) == \A q \in Person : counting[q].product # x

\* The members of a sequence that are in a set, in their order (a fold, which proofs can unfold).
Kept(seq, S) == FoldLeft(LAMBDA kept, x : IF x \in S THEN Append(kept, x) ELSE kept, << >>, seq)

\* Every line of a stocked product moves it; a credit note's line brings it back.
StockedLines(lines) ==
    Kept(lines, {l \in ToSet(lines) : l.product # NoProduct /\ l.quantity # 0 /\ product[l.product].stocked})

RecordSalesIn(lines, day, invoice) ==
    LET sold == StockedLines(lines) IN
    /\ \A i \in DOMAIN sold : NotHeldByCount(sold[i].product)
    /\ movements' = movements \o
          [i \in DOMAIN sold |-> Row(sold[i].product, day, "salg", -sold[i].quantity, NoCost, invoice)]
    /\ IF sold = << >> THEN UNCHANGED << trueBook, counting >>
       ELSE trueBook' = FALSE /\ counting' = Disturbed
    /\ UNCHANGED << product, inventoryBook, counted, registerEdits >>

RegisterMovement(p, x, day, move) ==
    /\ Allowed(p, "InventoryWrite")
    /\ Len(movements) < MaxMovement
    /\ product[x].stocked
    /\ NotHeldByCount(x)
    /\ movements' = Append(movements, Row(x, day, move.kind, move.quantity, move.cost, 0))
    /\ trueBook' = FALSE
    /\ counting' = Disturbed
    /\ UNCHANGED << product, inventoryBook, counted, registerEdits >>

-----------------------------------------------------------------------------
\* By date, then by arrival.
OnDay(log, x, day) == Kept(log, {m \in ToSet(log) : m.product = x /\ m.day = day})
Chronological(log, x) ==
    FoldLeft(LAMBDA rows, day : rows \o OnDay(log, x, day), << >>, [d \in Day |-> d])
ProductStatus(log, x) == ValueStock(Chronological(log, x))

\* The difference is to what the whole log gives, whatever the day of the count.
Adjusted(log, x, day, quantity) ==
    LET diff == quantity - ProductStatus(log, x).quantity IN
    IF diff = 0 THEN log ELSE Append(log, Row(x, day, "justering", diff, NoCost, 0))

StockedProducts == {x \in Product : product[x].stocked}
InventoryValue(log) == MapThenSumSet(LAMBDA x : ProductStatus(log, x).value, StockedProducts)

\* Faulty: what the stock was worth before it was counted.
CountedBefore(log, x, day, quantity) == InventoryValue(log)
CountedValue(log, x, day, quantity) == InventoryValue(Adjusted(log, x, day, quantity))

\* The product is locked; the rows and the balance in the books are read.
StartCount(p, x, day, quantity) ==
    /\ Allowed(p, "InventoryWrite")
    /\ counting[p] = NotCounting
    /\ Len(movements) < MaxMovement
    /\ product[x].stocked
    /\ NotHeldByCount(x)
    /\ counting' = [Disturbed EXCEPT ![p] =
          [product |-> x, day |-> day, quantity |-> quantity,
           change |-> CountedValue(movements, x, day, quantity) - inventoryBook,
           alone |-> \A q \in Person : counting[q] = NotCounting]]
    /\ UNCHANGED << product, movements, inventoryBook, counted, trueBook, registerEdits >>

\* Adjustment and voucher commit together; what was read is not read again.
Varetelling(p, post) ==
    LET c == counting[p]
        log == Adjusted(movements, c.product, c.day, c.quantity)
    IN
    /\ c.product # NoProduct
    /\ movements' = log
    /\ inventoryBook' = IF post THEN inventoryBook + c.change ELSE inventoryBook
    /\ counted' = {[product |-> c.product, day |-> c.day, quantity |-> c.quantity, rows |-> Len(log)]}
    /\ trueBook' = (post /\ c.alone)
    /\ counting' = [Disturbed EXCEPT ![p] = NotCounting]
    /\ UNCHANGED << product, registerEdits >>

AbortCount(p) ==
    /\ counting[p].product # NoProduct
    /\ counting' = [counting EXCEPT ![p] = NotCounting]
    /\ UNCHANGED << product, movements, inventoryBook, counted, trueBook, registerEdits >>

NextStock ==
    \/ \E p \in Person, x \in Product, active, stocked \in BOOLEAN, price \in StockPrice :
          UpdateProduct(p, x, [active |-> active, stocked |-> stocked, price |-> price])
    \/ \E p \in Person, x \in Product, day \in Day :
          \/ \E move \in StockMove : RegisterMovement(p, x, day, move)
          \/ \E quantity \in CountedQuantity : StartCount(p, x, day, quantity)
    \/ \E p \in Person, post \in BOOLEAN : Varetelling(p, post)
    \/ \E p \in Person : AbortCount(p)

-----------------------------------------------------------------------------
TypeOKStock ==
    /\ \A x \in Product : product[x].price \in StockPrice
    /\ \A i \in DOMAIN movements :
          LET m == movements[i] IN
          /\ m.product \in Product /\ m.day \in Day /\ m.quantity # 0
          /\ m.kind \in {"kjop", "salg", "justering"}
          /\ m.kind # "salg" => m.invoice = 0
    /\ inventoryBook \in Int
    /\ \A p \in Person : counting[p].product \in Product \cup {NoProduct}
    /\ trueBook \in BOOLEAN

\* The count, with what arrived after it left out.
Then(c) == SubSeq(movements, 1, c.rows)
UpTo(c) == Kept(Then(c), {m \in ToSet(Then(c)) : m.day <= c.day})

(***************************************************************************)
(* A count settles the stock: on the day it is dated the log gives what    *)
(* was counted, unless later movements were registered when it was made,   *)
(* which it then counts a second time; and once the difference is posted   *)
(* the books are worth what the stock is, unless two counts, or a count    *)
(* and a sale of another product, ran at once.                             *)
(***************************************************************************)
CountSettlesStock ==
    /\ \A c \in counted :
          (\A i \in DOMAIN Then(c) : Then(c)[i].product = c.product => Then(c)[i].day <= c.day)
             => ProductStatus(UpTo(c), c.product).quantity = c.quantity
    /\ trueBook => inventoryBook = InventoryValue(movements)

=============================================================================
