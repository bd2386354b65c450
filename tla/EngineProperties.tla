-------------------------- MODULE EngineProperties --------------------------
(***************************************************************************)
(* What the matching engine is expected to keep true, whatever sequence of *)
(* calls its clients make.  Some of it holds of every session; some only   *)
(* of sessions that stay away from a feature, and README.md says which.    *)
(***************************************************************************)
EXTENDS MatchingEngine

BookOrder == [id : OrderIds, sym : Symbols, side : Sides, price : Int, kind : Kinds,
              qty : Nat, reserve : Nat, clip : Int, place : Int]
OwnerRecord == [acct : Accounts, sym : Symbols, side : Sides, price : Int, qty : Int,
                kind : Kinds]
StopRecord == [id : OrderIds, acct : Accounts, sym : Symbols, side : Sides, stop : Int,
               qty : Int, limit : Int]
TakerRecord == [id : OrderIds, acct : Accounts, sym : Symbols, side : Sides, price : Int,
                tif : Tifs, kind : Kinds, clip : Int, left : Int]
Reserve == [cash : Int, qty : Int, short : Int]

\* Every variable holds a value of its type, order ids in 1..MaxOrderId included.
TypeOK ==
    /\ book \subseteq BookOrder
    /\ nextId \in 1..(MaxOrderId + 1)
    /\ owner \in [OrderIds -> OwnerRecord \cup {NoOwner}]
    /\ cash \in [Accounts -> Int]
    /\ position \in [Accounts -> [Symbols -> Int]]
    /\ reserved \in [Accounts -> [cash : Int, short : Int, qty : [Symbols -> Int]]]
    /\ held \in [OrderIds -> Reserve]
    /\ stops \subseteq StopRecord
    /\ mark \in [Symbols -> Int]
    /\ phase \in [Symbols -> Phases]
    /\ band \in [Symbols -> [lower : Int, upper : Int]]
    /\ fee \in Fees
    /\ risk \in [Accounts -> RiskConfig]
    /\ booked \in [Accounts -> [cash : Int, units : [Symbols -> Int]]]
    /\ pc \in Points
    /\ caller \in Callers
    /\ taker \in TakerRecord \cup {NoTaker}
    /\ pc \in {"place", "match", "rest"} => taker \in TakerRecord
    /\ target \in Symbols
    /\ ready \subseteq OrderIds
    /\ cascade \in BOOLEAN
    /\ auction \in [sym : Symbols, price : Int, left : Int] \cup {NoAuction}
    /\ pc = "uncross" => auction \in [sym : Symbols, price : Int, left : Int]

\* What an order of each kind shows and hides.
Shaped(o) ==
    \/ o.kind = "Displayed" /\ o.qty > 0 /\ o.reserve = 0
    \/ o.kind = "Iceberg" /\ o.qty > 0 /\ o.clip > 0
    \/ o.kind = "Hidden" /\ o.qty = 0 /\ o.reserve > 0

\* Every resting order has something left to trade and shows what its kind shows: an
\* iceberg always has a clip out (add_order, the replenishment of fill_from_queue), so
\* no fill takes nothing and the matching loops advance.
WellShaped == \A o \in book : Shaped(o)

-----------------------------------------------------------------------------
(* Ownership.                                                              *)

\* An ownership record is of this order, and claims at least what is left of it.
Claims(record, o) ==
    /\ record # NoOwner
    /\ record.sym = o.sym /\ record.side = o.side
    /\ record.price = o.price /\ record.kind = o.kind
    /\ record.qty >= Remaining(o)

\* Every resting order has an ownership record that agrees with it and claims at
\* least what is left of it, and no id rests twice: the fallback of a fill to the
\* default account (order_ownership_by_id_.find(...) == end()) is never taken.
BookOwned ==
    /\ \A o \in book : Claims(owner[o.id], o)
    /\ \A o, p \in book : o.id = p.id => o = p

\* Order ids are given once: an order that is owned or rests has an earlier id than the
\* next one, and the order being placed, a replacement under its old id included, is
\* not in the book.
IdsFresh ==
    /\ \A o \in book : o.id < nextId
    /\ \A id \in OrderIds : owner[id] # NoOwner => id < nextId
    /\ pc \in {"place", "match", "rest"} =>
           taker.id < nextId /\ \A o \in book : o.id # taker.id

\* The inductive invariant of the first theorems.
EngineInv == TypeOK /\ WellShaped /\ BookOwned /\ IdsFresh /\ IsFiniteSet(stops)

\* Conversely every ownership record is of an order in the book, and claims exactly
\* what is left of it: cancel can always find the order, and proportional releases
\* divide by the right quantity.
OwnersRest ==
    \A id \in OrderIds : owner[id] # NoOwner =>
        \E o \in book : o.id = id /\ o.sym = owner[id].sym /\ Remaining(o) = owner[id].qty

-----------------------------------------------------------------------------
(* Reserves and balances.                                                  *)

OwnedBy(a) == {id \in OrderIds : owner[id] # NoOwner /\ owner[id].acct = a}

\* The reserves of an account are the reserves of the orders it owns, so nothing
\* stays blocked when they are gone; in particular they are never negative, and
\* assert_invariants never throws.
ReservesBacked ==
    LET heldCash == [id \in OrderIds |-> held[id].cash]
        heldShort == [id \in OrderIds |-> held[id].short]
        heldQty == [id \in OrderIds |-> held[id].qty]
    IN  /\ \A id \in OrderIds :
            /\ held[id].cash >= 0 /\ held[id].qty >= 0 /\ held[id].short >= 0
            /\ owner[id] = NoOwner => held[id] = NoCredit
        /\ \A a \in Accounts :
            /\ reserved[a].cash = SumFunctionOnSet(heldCash, OwnedBy(a))
            /\ reserved[a].short = SumFunctionOnSet(heldShort, OwnedBy(a))
            /\ \A s \in Symbols : reserved[a].qty[s] =
                SumFunctionOnSet(heldQty, {id \in OwnedBy(a) : owner[id].sym = s})

\* However it was filled so far, what is left of a resting order is covered: the
\* notional of a cash-only bid by blocked cash, the units of an ask by blocked units
\* or, for the rest, by blocked short margin.
RestCovered ==
    \A o \in book :
        LET config == risk[owner[o.id].acct]
        IN  IF o.side = "Bid"
            THEN config.mode = "CashOnly" => held[o.id].cash >= o.price * Remaining(o)
            ELSE held[o.id].short >=
                    ShortReserve(config, o.price, Remaining(o) - held[o.id].qty)

\* A cash-only account can pay for everything it has resting: it never owes cash.
Solvent ==
    \A a \in Accounts \ {DefaultAccount} :
        risk[a].mode = "CashOnly" => cash[a] >= reserved[a].cash

\* An account that may not sell short never holds less than its asks promise.
NoNakedShort ==
    \A a \in Accounts, s \in Symbols : ~risk[a].short =>
        position[a][s] >= reserved[a].qty[s] /\ reserved[a].qty[s] >= 0

\* The ledger accounts for every change of a balance, fees included.
LedgerReconciles ==
    \A a \in Accounts \ {DefaultAccount} :
        /\ cash[a] = StartCash[a] + booked[a].cash
        /\ \A s \in Symbols : position[a][s] = StartPosition[a][s] + booked[a].units[s]

-----------------------------------------------------------------------------
(* Matching.                                                               *)

\* Between calls a continuously traded book is not crossed, hidden orders included.
Uncrossed ==
    \A s \in Symbols : pc = "idle" /\ phase[s] = "Continuous" =>
        \A b \in Resting(book, s, "Bid"), a \in Resting(book, s, "Ask") : b.price < a.price

\* Market, immediate-or-cancel and fill-or-kill orders never rest.
NeverRests ==
    [][taker # NoTaker /\ taker.tif # "GTC" => \A o \in book' : o.id # taker.id]_vars

\* A fill-or-kill order that has begun to match does not run out of makers.
FokAllOrNothing ==
    pc = "match" /\ taker.tif = "FOK" /\ taker.left > 0 => NextMaker(taker) # {}

\* A replacement accepted by the check that precedes the cancel is not refused after
\* it: a replace never costs a client its old order.
ReplaceSafe ==
    pc = "place" /\ caller = "replace" => WellFormed(taker) /\ Affordable(taker)

\* No units change hands in a symbol that is halted.
NoTradeWhileHalted ==
    [][\A s \in Symbols : Halted(s) => \A a \in Accounts :
            position'[a][s] = position[a][s] \/ a = DefaultAccount]_vars

-----------------------------------------------------------------------------
(* Stops and auctions.                                                     *)

\* Between calls, once a symbol has traded, no pending stop of it is left behind by
\* the last trade price.
StopsCurrent ==
    pc = "idle" => \A st \in stops :
        mark[st.sym] # NoPrice /\ ~Halted(st.sym) => ~Triggered(st, mark[st.sym])

\* An uncross trades all the quantity it announced as executable.
UncrossComplete == pc = "uncross" /\ ~Uncrossable => auction.left = 0

-----------------------------------------------------------------------------
(* Features a session may stay away from, and the invariants of the        *)
(* theorems about sessions that do.                                        *)

NoAuctions == PhaseChoices \cap AuctionPhases = {}
NoBands == BandChoices = {}

Placing == {"place", "match", "rest"}

\* The order being placed: there is one only while it is placed; while it is matched
\* its symbol trades continuously, and a fill-or-kill order can still be filled.
TakerInv ==
    /\ pc \notin Placing => taker = NoTaker
    /\ pc \in {"match", "rest"} => ValidPrice(taker.price) /\ taker.left >= 0
    /\ pc = "match" => phase[taker.sym] = "Continuous"
    /\ pc = "match" /\ taker.tif = "FOK" =>
           ExecutableQty(book, taker.sym, taker.side, taker.price) >= taker.left

\* Without auctions and bands no order rests before it has been matched, and the book
\* is never crossed.
ContinuousInv ==
    /\ \A s \in Symbols : phase[s] \notin AuctionPhases /\ band[s] = NoBand
    /\ pc # "rest"
    /\ \A b, a \in book : b.sym = a.sym /\ b.side = "Bid" /\ a.side = "Ask" => b.price < a.price

\* Nothing starts to trade a halted symbol again, or trades without a look at the stops:
\* no replacement of an order, no uncross, no change of phase but a halt.
NoRestarts ==
    Amendments = {} /\ Calls \cap {"uncross", "resume"} = {} /\ PhaseChoices \subseteq {"Halted"}

\* The stop is not left behind by the last trade of its symbol.
Current(st) == mark[st.sym] # NoPrice /\ ~Halted(st.sym) => ~Triggered(st, mark[st.sym])

InPass == pc = "stops" \/ (pc \in Placing /\ caller = "stops")

\* Only the symbol of the running call has stops that are left behind, and in a pass in
\* which nothing has traded so far these are the ones still to be processed.
StopsInv ==
    /\ \A st, x \in stops : st.id = x.id => st = x
    /\ \A st \in stops : st.id < nextId
    /\ pc # "uncross"
    /\ pc \in Placing => caller # "replace" /\ taker.sym = target
    /\ \A st \in stops : st.sym # target => Current(st)
    /\ pc = "idle" => \A st \in stops : Current(st)
    /\ InPass => \A st \in stops :
           /\ st.id \in ready => st.sym = target
           /\ st.id \notin ready /\ ~cascade => Current(st)

\* What is left of an uncross is on display on both sides at its price.
UncrossInv ==
    pc = "uncross" =>
        /\ auction.left >= 0
        /\ \A side \in Sides :
               DisplayedAtOrBetter(book, auction.sym, side, auction.price) >= auction.left

\* An uncross, if there is one, finds only displayed orders and icebergs.
PlainAuctions == "uncross" \notin Calls \/ \A r \in OrderRequests : r.kind # "Hidden"

\* The clip of an iceberg is one unit, so whatever is left of one can rest.
SmallClips == \A r \in OrderRequests : r.kind = "Iceberg" => r.clip <= 1

\* Every order is owned for exactly what is left of it, and what is owned rests, but for
\* an iceberg that the book refused because less than a clip of it was left; the order
\* being placed is not owned yet.
OwnersInv ==
    /\ \A s \in Symbols : band[s] = NoBand
    /\ \A o \in book : owner[o.id].qty = Remaining(o)
    /\ \A id \in OrderIds : owner[id] # NoOwner =>
           (\E o \in book : o.id = id) \/ (owner[id].kind = "Iceberg" /\ ~SmallClips)
    /\ pc \in Placing => owner[taker.id] = NoOwner
    /\ pc \in Placing /\ taker.kind = "Iceberg" /\ SmallClips => taker.clip <= 1
    /\ pc \in {"match", "rest"} /\ taker.kind = "Iceberg" => taker.clip > 0
    /\ "uncross" \notin Calls => pc # "uncross"
    /\ "uncross" \in Calls =>
           /\ \A o \in book : o.kind # "Hidden"
           /\ pc \in Placing => taker.kind # "Hidden"

\* No account trades on margin, now or after a change of the rules.
CashAccounts == /\ \A a \in Accounts : StartRisk[a].mode = "CashOnly"
                /\ \A c \in RiskChoices : c.mode = "CashOnly"

\* No account may sell short.
NoShortSales == \A a \in Accounts : ~StartRisk[a].short

\* No account owes cash at the start.
PaidStart == \A a \in Accounts : StartCash[a] >= 0

\* A price at which the rates of both roles come out whole, so that no fee is rounded.
WholeFee(p) ==
    ValidPrice(p) => \A role \in {"maker", "taker"} : (p * StartFee[role]) % FeeUnit = 0

\* Fees are never rounded, never more than what is paid, and not charged per trade.
WholeFees ==
    /\ StartFee.fixed = 0 /\ StartFee.maker <= FeeUnit /\ StartFee.taker <= FeeUnit
    /\ \A r \in OrderRequests \cup Amendments : WholeFee(r.price)
    /\ \A r \in StopRequests \cup StopAmendments : WholeFee(r.limit)

\* Prices of orders come from clients, those of market orders and auctions from the book.
PricesInv ==
    /\ \A id \in OrderIds : owner[id] # NoOwner =>
           ValidPrice(owner[id].price) /\ WholeFee(owner[id].price)
    /\ \A st \in stops : WholeFee(st.limit)
    /\ pc \in Placing => WholeFee(taker.price)
    /\ pc = "uncross" => ValidPrice(auction.price)

\* No account that may not sell short starts with less than nothing.
CoveredStart ==
    \A a \in Accounts, s \in Symbols : ~StartRisk[a].short => StartPosition[a][s] >= 0

\* Risk rules stay as they were.  Every unit of an ask of an account that may not sell
\* short is blocked for it, and those of the ask being matched are free.
AsksInv ==
    /\ risk = StartRisk
    /\ \A id \in OrderIds :
           owner[id] # NoOwner /\ owner[id].side = "Ask" /\ ~risk[owner[id].acct].short =>
               held[id].qty = owner[id].qty
    /\ pc \in {"match", "rest"} /\ taker.side = "Ask" /\ ~risk[taker.acct].short =>
           position[taker.acct][taker.sym] - reserved[taker.acct].qty[taker.sym] >= taker.left

-----------------------------------------------------------------------------
\* Every call returns: no loop of the engine runs for ever.
CallsReturn == pc # "idle" ~> pc = "idle"
=============================================================================
