--------------------------- MODULE PriceTimeBook ---------------------------
(***************************************************************************)
(* The limit order book of engine/include/tes/order_book.hpp seen from     *)
(* outside: a set of resting orders and the operators the matching engine  *)
(* uses on it.  The code keeps, per symbol and side, a map from price to a *)
(* level of three FIFO queues (displayed, iceberg, hidden).  Here an order *)
(* carries its queue (kind) and its place in that queue, 1 for the front, and *)
(* the queues are recovered by the order Ahead.  Nothing here has state: book  *)
(* is always an argument.                                                  *)
(*                                                                         *)
(* qty is the visible quantity and reserve the quantity that is not shown, *)
(* as in struct Order after OrderBook::add_order.                          *)
(***************************************************************************)
EXTENDS Integers, FiniteSets, FiniteSetsExt

Sides == {"Bid", "Ask"}
Kinds == {"Displayed", "Iceberg", "Hidden"}

\* std::optional<Price>{}: valid prices are non-negative.
NoPrice == -1

ValidPrice(p) == p >= 0
ValidQty(q) == q > 0

Opposite(side) == IF side = "Bid" THEN "Ask" ELSE "Bid"
Lesser(a, b) == IF a < b THEN a ELSE b
Greater(a, b) == IF a < b THEN b ELSE a

-----------------------------------------------------------------------------
(* Queues and priority.                                                    *)

Remaining(o) == o.qty + o.reserve

Resting(book, sym, side) == {o \in book : o.sym = sym /\ o.side = side}

SameQueue(o, p) ==
    o.sym = p.sym /\ o.side = p.side /\ o.price = p.price /\ o.kind = p.kind

\* A price p of this side is matched before a price q.
Better(side, p, q) == IF side = "Bid" THEN p > q ELSE p < q

\* Mutant of Crosses: equal prices do not trade.
CrossesStrictly(side, limit, price) == IF side = "Bid" THEN price < limit ELSE price > limit

\* A resting price crosses the limit of a taker on the given side.
Crosses(side, limit, price) == IF side = "Bid" THEN price <= limit ELSE price >= limit

\* At one price displayed orders come before icebergs, icebergs before hidden.
QueueRank(kind) == CASE kind = "Displayed" -> 1 [] kind = "Iceberg" -> 2 [] OTHER -> 3

Ahead(o, p) ==
    \/ Better(o.side, o.price, p.price)
    \/ o.price = p.price /\ QueueRank(o.kind) < QueueRank(p.kind)
    \/ o.price = p.price /\ o.kind = p.kind /\ o.place < p.place

\* The order that is matched next among the orders S of one side: one or none.
Front(S) == {o \in S : \A p \in S \ {o} : Ahead(o, p)}

\* The place behind every order of the queue o joins.
BackPlace(book, o) == 1 + Cardinality({p \in book : SameQueue(p, o)})

\* The book without o: the orders behind it in its queue move up.
Without(book, o) ==
    {IF SameQueue(p, o) /\ p.place > o.place THEN [p EXCEPT !.place = @ - 1] ELSE p :
        p \in book \ {o}}

-----------------------------------------------------------------------------
(* What the market sees.                                                   *)

DisplayedPrices(book, sym, side) ==
    {o.price : o \in {r \in Resting(book, sym, side) : r.qty > 0}}

\* best_bid() and best_ask(): hidden-only levels do not count.
BestDisplayed(book, sym, side) ==
    LET prices == DisplayedPrices(book, sym, side)
    IN  IF prices = {} THEN NoPrice
        ELSE CHOOSE p \in prices : \A q \in prices : ~Better(side, q, p)

\* The level at the best displayed price, its hidden orders included.
TopLevel(book, sym, side) ==
    LET prices == DisplayedPrices(book, sym, side)
    IN  {o \in Resting(book, sym, side) :
            o.price \in prices /\ \A q \in prices : ~Better(side, q, o.price)}

\* What a taker on the given side could execute at its limit, hidden included.
ExecutableQty(book, sym, side, limit) ==
    SumFunctionOnSet([o \in book |-> Remaining(o)],
                     {o \in Resting(book, sym, Opposite(side)) : Crosses(side, limit, o.price)})

\* The displayed quantity of a side at a price or better for its counterpart.
DisplayedAtOrBetter(book, sym, side, price) ==
    SumFunctionOnSet([o \in book |-> o.qty],
                     {o \in Resting(book, sym, side) : ~Better(side, price, o.price)})

\* The limit a market order is given: the displayed level at which its
\* quantity is covered, or the worst displayed level when none covers it; none
\* when nothing is displayed.
MarketLimit(book, sym, side, qty) ==
    LET maker == Opposite(side)
        prices == DisplayedPrices(book, sym, maker)
        covering == {p \in prices : DisplayedAtOrBetter(book, sym, maker, p) >= qty}
    IN  IF covering = {} THEN {p \in prices : \A q \in prices : ~Better(maker, p, q)}
        ELSE {p \in covering : \A q \in covering : ~Better(maker, q, p)}

-----------------------------------------------------------------------------
(* Changes.                                                                *)

\* o gives the order as submitted: its whole quantity in qty, its clip size
\* in clip.  An invalid or duplicate order leaves the book as it was.
AddOrder(book, o) ==
    LET invalid == \/ ~ValidPrice(o.price)
                   \/ ~ValidQty(o.qty)
                   \/ \E p \in book : p.sym = o.sym /\ p.id = o.id
                   \/ o.kind = "Iceberg" /\ (~ValidQty(o.clip) \/ o.qty < o.clip)
        shown == CASE o.kind = "Displayed" -> o.qty
                   [] o.kind = "Iceberg" -> o.clip
                   [] OTHER -> 0
    IN  IF invalid THEN book
        ELSE book \cup {[id |-> o.id, sym |-> o.sym, side |-> o.side,
                         price |-> o.price, kind |-> o.kind, qty |-> shown,
                         reserve |-> o.qty - shown, clip |-> o.clip,
                         place |-> BackPlace(book, o)]}

\* Mutants of FillQty: the whole request is taken from the order; a hidden order
\* is filled from its visible quantity.
FillQtyUncapped(o, qty) == qty
FillQtyVisible(o, qty) == Lesser(qty, o.qty)

\* What a fill for at most qty takes from the order: its clip, never its reserve,
\* unless it is hidden.
FillQty(o, qty) == Lesser(qty, IF o.kind = "Hidden" THEN o.reserve ELSE o.qty)

\* An exhausted clip is renewed from the reserve and moves to the back.
Renewed(others, o) ==
    LET clip == Lesser(o.clip, o.reserve)
    IN  [o EXCEPT !.qty = clip, !.reserve = @ - clip, !.place = BackPlace(others, o)]

Reduced(o, n) ==
    IF o.kind = "Hidden" THEN [o EXCEPT !.reserve = @ - n] ELSE [o EXCEPT !.qty = @ - n]

\* Mutant of AfterFill: an exhausted clip is not renewed.
AfterFillUnrenewed(book, o, n) ==
    IF Remaining(o) = n THEN Without(book, o) ELSE (book \ {o}) \cup {Reduced(o, n)}

AfterFill(book, o, n) ==
    LET left == Reduced(o, n)
        others == Without(book, o)
    IN  IF Remaining(left) = 0 THEN others
        ELSE IF o.kind = "Iceberg" /\ left.qty = 0
             THEN others \cup {Renewed(others, left)}
             ELSE (book \ {o}) \cup {left}

\* OrderBook::cancel of an order o of the book.
CancelOrder(book, o) == Without(book, o)

-----------------------------------------------------------------------------
(* The auction clearing price (MatchingEngine::compute_auction_indicative).*)

Distance(a, b) == IF a < b THEN b - a ELSE a - b

Matched(book, sym, price) ==
    Lesser(DisplayedAtOrBetter(book, sym, "Bid", price),
           DisplayedAtOrBetter(book, sym, "Ask", price))

Imbalance(book, sym, price) ==
    DisplayedAtOrBetter(book, sym, "Bid", price)
        - DisplayedAtOrBetter(book, sym, "Ask", price)

\* Mutant of Preferred: the lowest price is chosen, whatever it matches.
PreferredLowest(book, sym, ref, q, p) == q < p

\* q is chosen before p: more volume, less imbalance, nearer to the reference
\* mark when there is one, lower.
Preferred(book, sym, ref, q, p) ==
    LET volume(x) == Matched(book, sym, x)
        skew(x) == Distance(Imbalance(book, sym, x), 0)
        far(x) == IF ref = NoPrice THEN 0 ELSE Distance(x, ref)
    IN  \/ volume(q) > volume(p)
        \/ volume(q) = volume(p) /\ skew(q) < skew(p)
        \/ volume(q) = volume(p) /\ skew(q) = skew(p) /\ far(q) < far(p)
        \/ volume(q) = volume(p) /\ skew(q) = skew(p) /\ far(q) = far(p) /\ q < p

\* The price an uncross would use now: one price, or none when nothing matches.
ClearingPrice(book, sym, ref) ==
    LET prices == DisplayedPrices(book, sym, "Bid") \cup DisplayedPrices(book, sym, "Ask")
        executable == {p \in prices : Matched(book, sym, p) \in Nat \ {0}}
    IN  {p \in executable : \A q \in executable : ~Preferred(book, sym, ref, q, p)}
=============================================================================
