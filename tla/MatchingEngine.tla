--------------------------- MODULE MatchingEngine ---------------------------
(***************************************************************************)
(* The matching engine of engine/src/matching_engine.cpp: continuous       *)
(* matching of displayed, hidden and iceberg limit orders and of market    *)
(* orders, stop orders, auctions, halts, price bands and the circuit       *)
(* breaker, with accounts, reserves and pre-trade risk.                    *)
(*                                                                         *)
(* The engine is one object called by one thread.  A public call is a      *)
(* first step taken when pc = "idle", and then the steps of its loops: one *)
(* for the admission of an order, one per fill, one for the remainder, one *)
(* per pass over the pending stops, one per triggered stop, one per        *)
(* auction trade.  No other call starts before pc is "idle" again.         *)
(***************************************************************************)
EXTENDS PriceTimeBook, RiskRules

CONSTANTS
    Accounts,          \* account ids in use
    DefaultAccount,    \* kDefaultAccountId
    LegacyCash,        \* kDefaultLegacyCash, the floor of that account's cash
    LegacyPosition,    \* kDefaultLegacyPosition, the floor of its positions
    MaxOrderId,        \* bound: order ids 1..MaxOrderId are given out
    StartCash, StartPosition, StartRisk, StartFee,  \* the set-up of a session
    OrderRequests, MarketRequests, StopRequests,    \* what clients submit
    Amendments, StopAmendments,                     \* what they replace it by
    PhaseChoices, BandChoices, FeeChoices, RiskChoices, StateChoices,
    Calls              \* which of the calls without an input set are made

OrderIds == 1..MaxOrderId
Phases == {"Continuous", "OpeningAuction", "ClosingAuction", "Halted"}
AuctionPhases == {"OpeningAuction", "ClosingAuction"}
Tifs == {"GTC", "IOC", "FOK"}
Points == {"idle", "place", "match", "rest", "evaluate", "scan", "stops", "uncross"}
Callers == {"client", "replace", "stops"}

NoOwner == [acct |-> "none"]
NoTaker == [id |-> 0]
NoAuction == [left |-> 0]
NoBand == [lower |-> NoPrice, upper |-> NoPrice]

ASSUME AccountsAssumption ==
    /\ DefaultAccount \in Accounts
    /\ LegacyCash \in Nat /\ LegacyPosition \in Nat
    /\ MaxOrderId \in Nat
ASSUME StartAssumption ==
    /\ StartCash \in [Accounts -> Int]
    /\ StartPosition \in [Accounts -> [Symbols -> Int]]
    /\ StartRisk \in [Accounts -> RiskConfig]
    /\ StartFee \in Fees
ASSUME RequestsAssumption ==
    /\ \A r \in OrderRequests :
           r \in [acct : Accounts, sym : Symbols, side : Sides, price : Int,
                  qty : Int, tif : Tifs, kind : Kinds, clip : Int]
    /\ \A r \in MarketRequests :
           r \in [acct : Accounts, sym : Symbols, side : Sides, qty : Int]
    /\ \A r \in StopRequests :
           r \in [acct : Accounts, sym : Symbols, side : Sides, stop : Int,
                  qty : Int, limit : Int]
    /\ \A r \in Amendments : r \in [price : Int, qty : Int]
    /\ \A r \in StopAmendments : r \in [stop : Int, qty : Int, limit : Int]
ASSUME ControlsAssumption ==
    /\ PhaseChoices \subseteq Phases
    /\ \A b \in BandChoices : b \in [lower : Nat, upper : Nat] /\ b.lower <= b.upper
    /\ \A f \in FeeChoices : f \in Fees
    /\ \A c \in RiskChoices : c \in RiskConfig
    /\ \A s \in StateChoices : s \in [cash : Int, position : Int]

VARIABLES
    book,       \* books_: the resting orders of all symbols
    nextId,     \* next_order_id_
    owner,      \* order_ownership_by_id_
    cash,       \* AccountSnapshot::cash_balance
    position,   \* AccountSnapshot::position_qty_by_symbol
    reserved,   \* AccountSnapshot::reserved_cash, _qty_by_symbol, _short_margin
    held,       \* reserved_cash_, _qty_ and _short_margin_by_order_id_
    stops,      \* stop_orders_by_id_ with pending_stop_ids_by_symbol_
    mark,       \* latest_mark_by_symbol_
    phase,      \* trading_phases_by_symbol_
    band,       \* price_bands_by_symbol_
    fee,        \* fee_model_
    risk,       \* risk_configs_
    booked,     \* account_ledger_: the sums of its cash and position entries
    pc,         \* where the running call is
    caller,     \* on whose behalf an order is being placed
    taker,      \* the order being placed, left its open quantity
    target,     \* the symbol whose stops the call evaluates
    ready,      \* the triggered stops still to be processed
    cascade,    \* any_resulting_trade
    auction     \* the price of the running uncross and its open quantity

market == <<mark, phase, band>>
settings == <<fee, risk>>
funds == <<cash, position, reserved, held>>
control == <<pc, caller, taker, target, ready, cascade, auction>>
vars == <<book, nextId, owner, funds, stops, market, settings, booked, control>>

-----------------------------------------------------------------------------
(* State queries.                                                          *)

Halted(sym) == phase[sym] = "Halted"

\* price_in_band: no band at all is stored as NoBand.
InBand(sym, price) ==
    band[sym] = NoBand \/ (band[sym].lower <= price /\ price <= band[sym].upper)

\* mark_price, doubled: the middle of the displayed best prices, else the
\* last trade, else nothing (a position without a mark has no cost either).
Mark2(s) ==
    LET bid == BestDisplayed(book, s, "Bid")
        ask == BestDisplayed(book, s, "Ask")
    IN  IF bid # NoPrice /\ ask # NoPrice THEN bid + ask
        ELSE IF mark[s] # NoPrice THEN 2 * mark[s] ELSE 0

Marks2 == [s \in Symbols |-> Mark2(s)]

\* trigger_price: the last trade, else the middle of an uncrossed displayed book.
TriggerPrice(sym) ==
    LET bid == BestDisplayed(book, sym, "Bid")
        ask == BestDisplayed(book, sym, "Ask")
    IN  IF mark[sym] # NoPrice THEN mark[sym]
        ELSE IF bid # NoPrice /\ ask # NoPrice /\ bid < ask THEN (bid + ask) \div 2
        ELSE NoPrice

Triggered(st, price) ==
    IF st.side = "Bid" THEN price >= st.stop ELSE price <= st.stop

\* validate_order_risk, on balances c and p and the reserves of a replaced order.
RiskAllows(c, p, a, sym, side, price, qty, credit) ==
    IF side = "Bid"
    THEN BidAllowed(risk[a], fee, c[a], p[a], Marks2, reserved[a], credit, price, qty)
    ELSE AskAllowed(risk[a], c[a], p[a], Marks2, reserved[a], credit, sym, price, qty)

\* The default account is topped up whenever it trades.
ToppedUpCash(a) ==
    IF a = DefaultAccount THEN [cash EXCEPT ![a] = Greater(@, LegacyCash)] ELSE cash
ToppedUpPosition(a, sym) ==
    IF a = DefaultAccount THEN [position EXCEPT ![a][sym] = Greater(@, LegacyPosition)]
    ELSE position

\* Bound: every order id a call may need, one per pending stop included, is left.
Room(n) == nextId + Cardinality(stops) + n <= MaxOrderId + 1

\* Where the engine goes on after an order has been placed or refused.
AfterOrder ==
    CASE caller = "client" -> "evaluate" [] caller = "stops" -> "stops" [] OTHER -> "idle"

OrderDone == /\ pc' = AfterOrder
             /\ taker' = NoTaker
             /\ UNCHANGED <<caller, target, ready, cascade, auction>>

-----------------------------------------------------------------------------
(* Reserves.                                                               *)

\* Mutant of ReleaseAll: the per-order reserve is not cleared.
ReleaseAllTwice(a, sym, id) ==
    /\ reserved' = [reserved EXCEPT ![a].cash = @ - held[id].cash,
                                    ![a].short = @ - held[id].short,
                                    ![a].qty[sym] = @ - held[id].qty]
    /\ held' = held

\* Everything the order holds goes back to its account: the release of cancel.
ReleaseAll(a, sym, id) ==
    /\ reserved' = [reserved EXCEPT ![a].cash = @ - held[id].cash,
                                    ![a].short = @ - held[id].short,
                                    ![a].qty[sym] = @ - held[id].qty]
    /\ held' = [held EXCEPT ![id] = NoCredit]

\* Mutant of TradeRelease: the first trade frees everything.
TradeReleaseWhole(id, side, n, before) == held[id]

\* A trade of n of the before units of a resting order frees its share of the
\* cash of a bid, the units of an ask and its share of the short margin.
TradeRelease(id, side, n, before) ==
    [cash  |-> IF side = "Bid" THEN ProportionalRelease(held[id].cash, n, before) ELSE 0,
     qty   |-> IF side = "Ask" THEN Lesser(held[id].qty, n) ELSE 0,
     short |-> IF side = "Ask" THEN ProportionalRelease(held[id].short, n, before) ELSE 0]

\* What the open quantity of the taker blocks when it starts to rest.
RestingReserve ==
    LET a == taker.acct
        free == Greater(0, position[a][taker.sym] - reserved[a].qty[taker.sym])
        long == Lesser(taker.left, free)
    IN  IF taker.side = "Bid"
        THEN [cash |-> BuyReserve(risk[a], fee, taker.price, taker.left), qty |-> 0, short |-> 0]
        ELSE [cash |-> 0, qty |-> long,
              short |-> ShortReserve(risk[a], taker.price, taker.left - long)]

\* rest_visible_order, and the same code at the end of a continuous match.  The
\* ownership and the reserve are recorded whether or not the book took the order.
RestTaker ==
    LET a == taker.acct
        new == RestingReserve
    IN  /\ book' = AddOrder(book, [id |-> taker.id, sym |-> taker.sym, side |-> taker.side,
                                   price |-> taker.price, kind |-> taker.kind,
                                   qty |-> taker.left, clip |-> taker.clip])
        /\ owner' = [owner EXCEPT ![taker.id] =
                        [acct |-> a, sym |-> taker.sym, side |-> taker.side,
                         price |-> taker.price, qty |-> taker.left, kind |-> taker.kind]]
        /\ reserved' = [reserved EXCEPT ![a].cash = @ + new.cash,
                                        ![a].short = @ + new.short,
                                        ![a].qty[taker.sym] = @ + new.qty]
        /\ held' = [held EXCEPT
                ![taker.id].cash = IF taker.side = "Bid" THEN new.cash ELSE @,
                ![taker.id].qty = IF new.qty > 0 THEN new.qty ELSE @,
                ![taker.id].short = IF new.short > 0 THEN new.short ELSE @]

-----------------------------------------------------------------------------
(* Placing an order.                                                       *)

NewTaker(id, r, price, tif, kind, clip) ==
    [id |-> id, acct |-> r.acct, sym |-> r.sym, side |-> r.side, price |-> price,
     tif |-> tif, kind |-> kind, clip |-> clip, left |-> r.qty]

\* place_limit_order, place_hidden_order, place_iceberg_order.
SubmitOrder(r) ==
    /\ pc = "idle" /\ Room(1)
    /\ nextId' = nextId + 1
    /\ taker' = NewTaker(nextId, r, r.price, r.tif, r.kind, r.clip)
    /\ pc' = "place" /\ caller' = "client" /\ target' = r.sym
    /\ UNCHANGED <<book, owner, funds, stops, market, settings, booked,
                   ready, cascade, auction>>

\* place_market_order_with_account_and_id: the order becomes an IOC limit order at
\* the displayed price that covers it, or is refused.
MarketRefused(r) ==
    \/ ~ValidQty(r.qty)
    \/ Halted(r.sym)
    \/ \A p \in MarketLimit(book, r.sym, r.side, r.qty) : ~InBand(r.sym, p)

PlaceMarket(id, r, refused) ==
    IF MarketRefused(r) THEN pc' = refused /\ UNCHANGED taker
    ELSE /\ pc' = "place"
         /\ \E p \in MarketLimit(book, r.sym, r.side, r.qty) :
                taker' = NewTaker(id, r, p, "IOC", "Displayed", 0)

SubmitMarket(r) ==
    /\ pc = "idle" /\ Room(1)
    /\ nextId' = nextId + 1
    /\ PlaceMarket(nextId, r, "evaluate")
    /\ caller' = "client" /\ target' = r.sym
    /\ UNCHANGED <<book, owner, funds, stops, market, settings, booked,
                   ready, cascade, auction>>

\* place_visible_order_with_account_and_id up to its loop: what it checks first,
\* the price and quantity, the market controls, then risk.
WellFormed(t) ==
    /\ ValidPrice(t.price) /\ ValidQty(t.left)
    /\ t.kind = "Iceberg" => ValidQty(t.clip) /\ t.clip <= t.left
    /\ ~Halted(t.sym) /\ InBand(t.sym, t.price)

Affordable(t) ==
    RiskAllows(ToppedUpCash(t.acct), ToppedUpPosition(t.acct, t.sym),
               t.acct, t.sym, t.side, t.price, t.left, NoCredit)

\* Mutant of Unfillable: a fill-or-kill order only needs something to trade with.
UnfillableEmpty(t) == t.tif = "FOK" /\ ExecutableQty(book, t.sym, t.side, t.price) < 1

Unfillable(t) == t.tif = "FOK" /\ ExecutableQty(book, t.sym, t.side, t.price) < t.left

RefuseOrder ==
    /\ pc = "place"
    /\ ~(WellFormed(taker) /\ Affordable(taker))
    /\ IF WellFormed(taker)
       THEN /\ cash' = ToppedUpCash(taker.acct)
            /\ position' = ToppedUpPosition(taker.acct, taker.sym)
       ELSE UNCHANGED <<cash, position>>
    /\ OrderDone
    /\ UNCHANGED <<book, nextId, owner, reserved, held, stops, market, settings, booked>>

\* A well-formed, affordable order: in an auction it rests whatever its time in
\* force; a fill-or-kill order that cannot be filled expires; the others match.
AdmitOrder ==
    /\ pc = "place"
    /\ WellFormed(taker) /\ Affordable(taker)
    /\ cash' = ToppedUpCash(taker.acct)
    /\ position' = ToppedUpPosition(taker.acct, taker.sym)
    /\ IF phase[taker.sym] \in AuctionPhases
       THEN pc' = "rest" /\ UNCHANGED taker
       ELSE IF Unfillable(taker)
            THEN pc' = AfterOrder /\ taker' = NoTaker
            ELSE pc' = "match" /\ UNCHANGED taker
    /\ UNCHANGED <<book, nextId, owner, reserved, held, stops, market, settings, booked,
                   caller, target, ready, cascade, auction>>

-----------------------------------------------------------------------------
(* Continuous matching: the loop of place_visible_order_with_account_and_id.*)

\* The orders the taker is matched against next: one or none.
NextMaker(t) ==
    {m \in Front(Resting(book, t.sym, Opposite(t.side))) :
        t.left > 0 /\ Crosses(t.side, t.price, m.price)}

\* Mutant of MakerAccount: every maker is taken for the default account.
MakerAccountDefault(id) == DefaultAccount
\* The account a fill is settled with, and the quantity its order had open.
MakerAccount(id) == IF owner[id] = NoOwner THEN DefaultAccount ELSE owner[id].acct
OpenQty(id, n) == IF owner[id] = NoOwner THEN n ELSE owner[id].qty

\* What account a gets, or pays when negative, when n units go from a seller s to a
\* buyer b at price p.
CashFlow(a, b, s, p, n, buyerFee, sellerFee) ==
    (IF a = s THEN p * n - sellerFee ELSE 0) - (IF a = b THEN p * n + buyerFee ELSE 0)
UnitFlow(a, b, s, n) == (IF a = b THEN n ELSE 0) - (IF a = s THEN n ELSE 0)

Settle(sym, b, s, p, n, buyerFee, sellerFee) ==
    /\ cash' = [a \in Accounts |->
                   cash[a] + CashFlow(a, b, s, p, n, buyerFee, sellerFee)]
    /\ position' = [a \in Accounts |->
                       [position[a] EXCEPT ![sym] = @ + UnitFlow(a, b, s, n)]]
    /\ mark' = [mark EXCEPT ![sym] = p]

\* Mutant of Record: fees are deducted and not recorded.
RecordNet(sym, b, s, p, n, buyerFee, sellerFee) ==
    booked' = [a \in Accounts |->
                 [cash |-> booked[a].cash + CashFlow(a, b, s, p, n, 0, 0),
                  units |-> [booked[a].units EXCEPT ![sym] = @ + UnitFlow(a, b, s, n)]]]

\* The settlement and fee entries of the two accounts.
Record(sym, b, s, p, n, buyerFee, sellerFee) ==
    booked' = [a \in Accounts |->
                 [cash |-> booked[a].cash + CashFlow(a, b, s, p, n, buyerFee, sellerFee),
                  units |-> [booked[a].units EXCEPT ![sym] = @ + UnitFlow(a, b, s, n)]]]

\* Mutant of FilledOwner: the record goes when the clip is exhausted.
FilledOwnerClip(m, n) ==
    IF owner[m.id] = NoOwner THEN owner
    ELSE [owner EXCEPT ![m.id] = IF m.qty = n THEN NoOwner
                                 ELSE [@ EXCEPT !.qty = Remaining(m) - n]]

\* The maker's record follows what is left of its order, and goes when nothing is.
FilledOwner(m, n) ==
    IF owner[m.id] = NoOwner THEN owner
    ELSE [owner EXCEPT ![m.id] = IF Remaining(m) = n THEN NoOwner
                                 ELSE [@ EXCEPT !.qty = Remaining(m) - n]]

\* Mutant of BandBreach: the loop goes on after the halt.
BandBreachContinues(sym) ==
    /\ phase' = [phase EXCEPT ![sym] = "Halted"]
    /\ UNCHANGED <<pc, owner, booked>>

\* A fill outside the band stops the loop at once: the symbol is halted, and the
\* ledger and the ownership of the maker stay as they were.
BandBreach(sym) ==
    /\ phase' = [phase EXCEPT ![sym] = "Halted"]
    /\ pc' = "rest"
    /\ UNCHANGED <<owner, booked>>

ExecuteFill ==
    /\ pc = "match"
    /\ \E m \in NextMaker(taker) :
        LET n == FillQty(m, taker.left)
            sym == taker.sym
            a == MakerAccount(m.id)
            b == IF taker.side = "Bid" THEN taker.acct ELSE a
            s == IF taker.side = "Bid" THEN a ELSE taker.acct
            takerFee == FeeForNotional(fee, m.price * n, "taker")
            makerFee == FeeForNotional(fee, m.price * n, "maker")
            buyerFee == IF taker.side = "Bid" THEN takerFee ELSE makerFee
            sellerFee == IF taker.side = "Bid" THEN makerFee ELSE takerFee
            free == TradeRelease(m.id, Opposite(taker.side), n, OpenQty(m.id, n))
        IN  /\ book' = AfterFill(book, m, n)
            /\ Settle(sym, b, s, m.price, n, buyerFee, sellerFee)
            /\ reserved' = [reserved EXCEPT ![a].cash = @ - free.cash,
                                            ![a].short = @ - free.short,
                                            ![a].qty[sym] = @ - free.qty]
            /\ held' = [held EXCEPT ![m.id].cash = @ - free.cash,
                                    ![m.id].qty = @ - free.qty,
                                    ![m.id].short = @ - free.short]
            /\ taker' = [taker EXCEPT !.left = @ - n]
            /\ cascade' = (cascade \/ caller = "stops")
            /\ IF InBand(sym, m.price)
               THEN /\ Record(sym, b, s, m.price, n, buyerFee, sellerFee)
                    /\ owner' = FilledOwner(m, n)
                    /\ UNCHANGED <<pc, phase>>
               ELSE BandBreach(sym)
    /\ UNCHANGED <<nextId, stops, band, settings, caller, target, ready, auction>>

\* Mutant of RemainderRests: the time in force is not looked at.
RemainderRestsAlways(t) == t.left > 0

\* After the loop, or at once in an auction: an immediate-or-cancel remainder
\* expires outside an auction, every other one rests.
RemainderRests(t) == t.left > 0 /\ (t.tif # "IOC" \/ phase[t.sym] \in AuctionPhases)

FinishOrder ==
    /\ pc = "rest" \/ (pc = "match" /\ NextMaker(taker) = {})
    /\ IF RemainderRests(taker) THEN RestTaker
       ELSE UNCHANGED <<book, owner, reserved, held>>
    /\ OrderDone
    /\ UNCHANGED <<nextId, cash, position, stops, market, settings, booked>>

-----------------------------------------------------------------------------
(* Stop orders.                                                            *)

\* place_stop_order_with_account_and_id.  A stop blocks nothing.
SubmitStop(r) ==
    /\ pc = "idle" /\ Room(2)
    /\ nextId' = nextId + 1
    /\ LET price == IF r.limit = NoPrice THEN r.stop ELSE r.limit
           c == ToppedUpCash(r.acct)
           p == ToppedUpPosition(r.acct, r.sym)
       IN  IF ~(ValidPrice(r.stop) /\ ValidPrice(price) /\ ValidQty(r.qty))
           THEN UNCHANGED <<cash, position, stops>>
           ELSE /\ cash' = c /\ position' = p
                /\ stops' = IF /\ ~Halted(r.sym) /\ InBand(r.sym, price)
                               /\ RiskAllows(c, p, r.acct, r.sym, r.side, price, r.qty, NoCredit)
                            THEN stops \cup {[id |-> nextId, acct |-> r.acct, sym |-> r.sym,
                                              side |-> r.side, stop |-> r.stop, qty |-> r.qty,
                                              limit |-> r.limit]}
                            ELSE stops
    /\ pc' = "evaluate" /\ caller' = "client" /\ target' = r.sym
    /\ UNCHANGED <<book, owner, reserved, held, market, settings, booked,
                   taker, ready, cascade, auction>>

\* replace_stop_order and replace_stop_limit_order: risk is checked again, the
\* market controls are not.  A stop order keeps its limit unless a new one is given.
ReplaceStop(a, st, r) ==
    /\ pc = "idle"
    /\ st.acct = a
    /\ LET limit == IF r.limit = NoPrice THEN st.limit ELSE r.limit
           price == IF limit = NoPrice THEN r.stop ELSE limit
       IN  /\ ValidPrice(r.stop) /\ ValidPrice(price) /\ ValidQty(r.qty)
           /\ RiskAllows(cash, position, a, st.sym, st.side, price, r.qty, NoCredit)
           /\ stops' = (stops \ {st}) \cup
                           {[st EXCEPT !.stop = r.stop, !.qty = r.qty, !.limit = limit]}
    /\ pc' = "evaluate" /\ caller' = "client" /\ target' = st.sym
    /\ UNCHANGED <<book, nextId, owner, funds, market, settings, booked,
                   taker, ready, cascade, auction>>

\* One pass of evaluate_stop_orders over the pending stops.  A halt is looked for
\* before the first pass only.
ScanStops ==
    /\ pc \in {"evaluate", "scan"}
    /\ LET price == TriggerPrice(target)
           hit == IF price = NoPrice \/ (pc = "evaluate" /\ Halted(target)) THEN {}
                  ELSE {st.id : st \in {x \in stops : x.sym = target /\ Triggered(x, price)}}
       IN  /\ ready' = hit
           /\ pc' = IF hit = {} THEN "idle" ELSE "stops"
    /\ caller' = "client" /\ cascade' = FALSE
    /\ UNCHANGED <<book, nextId, owner, funds, stops, market, settings, booked,
                   taker, target, auction>>

\* The triggered stop with the smallest id becomes a new limit or market order.
\* nextId is in range because Room kept an id for every pending stop.
TriggerStop ==
    /\ pc = "stops" /\ ready # {} /\ nextId \in OrderIds
    /\ \E st \in stops :
        /\ st.id = Min(ready)
        /\ stops' = stops \ {st}
        /\ ready' = ready \ {st.id}
        /\ nextId' = nextId + 1
        /\ IF st.limit = NoPrice THEN PlaceMarket(nextId, st, "stops")
           ELSE /\ pc' = "place"
                /\ taker' = NewTaker(nextId, st, st.limit, "GTC", "Displayed", 0)
    /\ caller' = "stops"
    /\ UNCHANGED <<book, owner, funds, market, settings, booked, target, cascade, auction>>

\* Mutant of AfterPass: one pass over the stops is made.
AfterPassOnce == "idle"

\* Another pass when one of the resulting orders has traded.
AfterPass == IF cascade THEN "scan" ELSE "idle"

EndPass ==
    /\ pc = "stops" /\ ready = {}
    /\ pc' = AfterPass
    /\ caller' = "client" /\ cascade' = FALSE
    /\ UNCHANGED <<book, nextId, owner, funds, stops, market, settings, booked,
                   taker, target, ready, auction>>

-----------------------------------------------------------------------------
(* Cancel and replace.  A refused call changes nothing.                    *)

CancelStop(a, st) ==
    /\ pc = "idle" /\ "cancel" \in Calls
    /\ st.acct = a
    /\ stops' = stops \ {st}
    /\ UNCHANGED <<book, nextId, owner, funds, market, settings, booked, control>>

InBook(id) == {o \in book : o.id = id /\ o.sym = owner[id].sym}

\* Mutants of Withdraw: nothing is withdrawn; the ownership record is kept.
WithdrawNothing(a, id, o) == UNCHANGED <<book, reserved, held, owner>>
WithdrawKeeping(a, id, o) ==
    /\ book' = CancelOrder(book, o)
    /\ ReleaseAll(a, o.sym, id)
    /\ UNCHANGED owner

\* cancel of an order in the book; an owned order that is not there is refused.
Withdraw(a, id, o) ==
    /\ book' = CancelOrder(book, o)
    /\ ReleaseAll(a, o.sym, id)
    /\ owner' = [owner EXCEPT ![id] = NoOwner]

Cancel(a, id) ==
    /\ pc = "idle" /\ "cancel" \in Calls
    /\ owner[id] # NoOwner /\ owner[id].acct = a
    /\ \E o \in InBook(id) : Withdraw(a, id, o)
    /\ UNCHANGED <<nextId, cash, position, stops, market, settings, booked, control>>

\* replace_order: checked as if its own reserve were free, then canceled and placed
\* again under the same id.  The result of the cancel is not looked at, and no stop
\* is evaluated afterwards.
Replace(a, id, r) ==
    /\ pc = "idle"
    /\ owner[id] # NoOwner /\ owner[id].acct = a /\ owner[id].kind = "Displayed"
    /\ ValidPrice(r.price) /\ ValidQty(r.qty)
    /\ LET o == owner[id]
           new == [acct |-> a, sym |-> o.sym, side |-> o.side, qty |-> r.qty]
       IN  /\ ~Halted(o.sym) /\ InBand(o.sym, r.price)
           /\ RiskAllows(cash, position, a, o.sym, o.side, r.price, r.qty, held[id])
           /\ taker' = NewTaker(id, new, r.price, "GTC", "Displayed", 0)
    /\ \/ \E o \in InBook(id) : Withdraw(a, id, o)
       \/ InBook(id) = {} /\ UNCHANGED <<book, reserved, held, owner>>
    /\ pc' = "place" /\ caller' = "replace"
    /\ UNCHANGED <<nextId, cash, position, stops, market, settings, booked,
                   target, ready, cascade, auction>>

-----------------------------------------------------------------------------
(* Auctions.                                                               *)

\* uncross up to its loop: nothing to match, a price outside the band, or a start.
StartUncross(sym) ==
    /\ pc = "idle" /\ "uncross" \in Calls
    /\ \E p \in ClearingPrice(book, sym, mark[sym]) :
        IF InBand(sym, p)
        THEN /\ auction' = [sym |-> sym, price |-> p, left |-> Matched(book, sym, p)]
             /\ pc' = "uncross"
             /\ UNCHANGED phase
        ELSE /\ phase' = [phase EXCEPT ![sym] = "Halted"]
             /\ UNCHANGED <<auction, pc>>
    /\ UNCHANGED <<book, nextId, owner, funds, stops, mark, band, settings, booked,
                   caller, taker, target, ready, cascade>>

\* Mutant of ShownFront: orders at the clearing price itself are left out.
ShownFrontBeyond(side) ==
    {o \in Front(TopLevel(book, auction.sym, side)) : Better(side, o.price, auction.price)}

\* The displayed front of a side at the clearing price or better (front_of_level at
\* the best displayed price), and the order a fill really takes from that side.
ShownFront(side) ==
    {o \in Front(TopLevel(book, auction.sym, side)) : ~Better(side, auction.price, o.price)}

FillFront(side) == Front(Resting(book, auction.sym, side))

Uncrossable == auction.left > 0 /\ ShownFront("Bid") # {} /\ ShownFront("Ask") # {}

\* Mutant of AuctionOwner: a filled order keeps a record of nothing.
AuctionOwnerKept(old, id, n) ==
    IF old[id] = NoOwner THEN old ELSE [old EXCEPT ![id].qty = @ - n]

\* settle_auction_trade moves the quantity of the displayed fronts between the owners
\* of the orders that were filled, whatever the fills took.
AuctionOwner(old, id, n) ==
    IF old[id] = NoOwner THEN old
    ELSE [old EXCEPT ![id] = IF @.qty = n THEN NoOwner
                             ELSE [@ EXCEPT !.qty = old[id].qty - n]]

AuctionTrade ==
    /\ pc = "uncross" /\ Uncrossable
    /\ \E sb \in ShownFront("Bid"), sa \in ShownFront("Ask"),
          bid \in FillFront("Bid"), ask \in FillFront("Ask") :
        LET n == Lesser(auction.left, Lesser(sb.qty, sa.qty))
            sym == auction.sym
            b == MakerAccount(bid.id)
            s == MakerAccount(ask.id)
            buyerFee == FeeForNotional(fee, auction.price * n, "taker")
            sellerFee == FeeForNotional(fee, auction.price * n, "maker")
            fromBid == TradeRelease(bid.id, "Bid", n, OpenQty(bid.id, n))
            fromAsk == TradeRelease(ask.id, "Ask", n, OpenQty(ask.id, n))
        IN  /\ book' = AfterFill(AfterFill(book, bid, FillQty(bid, n)), ask, FillQty(ask, n))
            /\ Settle(sym, b, s, auction.price, n, buyerFee, sellerFee)
            /\ Record(sym, b, s, auction.price, n, buyerFee, sellerFee)
            /\ reserved' = [reserved EXCEPT ![b].cash = @ - fromBid.cash,
                                            ![s].short = @ - fromAsk.short,
                                            ![s].qty[sym] = @ - fromAsk.qty]
            /\ held' = [held EXCEPT ![bid.id].cash = @ - fromBid.cash,
                                    ![ask.id].qty = @ - fromAsk.qty,
                                    ![ask.id].short = @ - fromAsk.short]
            /\ owner' = AuctionOwner(AuctionOwner(owner, bid.id, n), ask.id, n)
            /\ auction' = [auction EXCEPT !.left = @ - n]
    /\ UNCHANGED <<nextId, stops, phase, band, settings, pc, caller, taker, target,
                   ready, cascade>>

\* An auction phase ends; a halt or continuous trading goes on.  No stop is evaluated.
EndUncross ==
    /\ pc = "uncross" /\ ~Uncrossable
    /\ phase' = [phase EXCEPT ![auction.sym] =
                    IF @ \in AuctionPhases THEN "Continuous" ELSE @]
    /\ auction' = NoAuction
    /\ pc' = "idle"
    /\ UNCHANGED <<book, nextId, owner, funds, stops, mark, band, settings, booked,
                   caller, taker, target, ready, cascade>>

-----------------------------------------------------------------------------
(* Market controls and settings.                                           *)

ChangePhase(sym, new) ==
    /\ phase' = [phase EXCEPT ![sym] = new]
    /\ UNCHANGED <<book, nextId, owner, funds, stops, mark, band, settings, booked, control>>

\* halt_symbol, resume_symbol (from any phase) and set_trading_phase.
HaltSymbol(sym) == pc = "idle" /\ "halt" \in Calls /\ ChangePhase(sym, "Halted")
ResumeSymbol(sym) == pc = "idle" /\ "resume" \in Calls /\ ChangePhase(sym, "Continuous")
SetTradingPhase(sym, new) == pc = "idle" /\ ChangePhase(sym, new)

\* set_price_bands and clear_price_bands leave the resting orders alone.
ChangeBand(sym, new) ==
    /\ band' = [band EXCEPT ![sym] = new]
    /\ UNCHANGED <<book, nextId, owner, funds, stops, mark, phase, settings, booked, control>>

SetPriceBands(sym, new) == pc = "idle" /\ ChangeBand(sym, new)
ClearPriceBands(sym) == pc = "idle" /\ "clear_bands" \in Calls /\ ChangeBand(sym, NoBand)

SetFeeModel(new) ==
    /\ pc = "idle"
    /\ fee' = new
    /\ UNCHANGED <<book, nextId, owner, funds, stops, market, risk, booked, control>>

SetAccountRiskConfig(a, new) ==
    /\ pc = "idle"
    /\ risk' = [risk EXCEPT ![a] = new]
    /\ UNCHANGED <<book, nextId, owner, funds, stops, market, fee, booked, control>>

\* set_account_state overwrites the balances, not the reserves, and leaves no entry
\* in the ledger, whose sums are counted from here on.
SetAccountState(a, sym, new) ==
    /\ pc = "idle"
    /\ cash' = [cash EXCEPT ![a] = new.cash]
    /\ position' = [position EXCEPT ![a][sym] = new.position]
    /\ UNCHANGED <<book, nextId, owner, reserved, held, stops, market, settings, booked, control>>

\* The const members: depth, snapshot, account_snapshot, symbol_status and the rest.
Inspect == pc = "idle" /\ UNCHANGED vars

-----------------------------------------------------------------------------

Init ==
    /\ book = {} /\ nextId = 1 /\ stops = {}
    /\ owner = [id \in OrderIds |-> NoOwner]
    /\ held = [id \in OrderIds |-> NoCredit]
    /\ cash = StartCash /\ position = StartPosition
    /\ reserved = [a \in Accounts |->
                    [cash |-> 0, short |-> 0, qty |-> [s \in Symbols |-> 0]]]
    /\ booked = [a \in Accounts |-> [cash |-> 0, units |-> [s \in Symbols |-> 0]]]
    /\ mark = [s \in Symbols |-> NoPrice]
    /\ phase = [s \in Symbols |-> "Continuous"]
    /\ band = [s \in Symbols |-> NoBand]
    /\ fee = StartFee /\ risk = StartRisk
    /\ pc = "idle" /\ caller = "client" /\ taker = NoTaker
    /\ target \in Symbols
    /\ ready = {} /\ cascade = FALSE /\ auction = NoAuction

Submission ==
    \/ \E r \in OrderRequests : SubmitOrder(r)
    \/ \E r \in MarketRequests : SubmitMarket(r)
    \/ \E r \in StopRequests : SubmitStop(r)

Amendment ==
    \/ \E a \in Accounts, st \in stops : CancelStop(a, st)
    \/ \E a \in Accounts, id \in OrderIds : Cancel(a, id)
    \/ \E a \in Accounts, id \in OrderIds, r \in Amendments : Replace(a, id, r)
    \/ \E a \in Accounts, st \in stops, r \in StopAmendments : ReplaceStop(a, st, r)

MarketControl ==
    \E sym \in Symbols :
        \/ StartUncross(sym)
        \/ HaltSymbol(sym)
        \/ ResumeSymbol(sym)
        \/ \E new \in PhaseChoices : SetTradingPhase(sym, new)
        \/ \E new \in BandChoices : SetPriceBands(sym, new)
        \/ ClearPriceBands(sym)

Setting ==
    \/ \E new \in FeeChoices : SetFeeModel(new)
    \/ \E a \in Accounts, new \in RiskChoices : SetAccountRiskConfig(a, new)
    \/ \E a \in Accounts, sym \in Symbols, new \in StateChoices : SetAccountState(a, sym, new)

\* The steps by which a call that has begun runs to its end.
Internal ==
    \/ RefuseOrder \/ AdmitOrder \/ ExecuteFill \/ FinishOrder
    \/ ScanStops \/ TriggerStop \/ EndPass
    \/ AuctionTrade \/ EndUncross

Next == Submission \/ Amendment \/ MarketControl \/ Setting \/ Inspect \/ Internal

Spec == Init /\ [][Next]_vars

\* The engine's loops run as long as they can: a call is ordinary sequential code.
FairSpec == Spec /\ WF_vars(Internal)
=============================================================================
