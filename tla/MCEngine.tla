------------------------------ MODULE MCEngine ------------------------------
(***************************************************************************)
(* Small instances of the matching engine for TLC.  The input sets of a    *)
(* run name the features it exercises; every other set is empty there.     *)
(***************************************************************************)
EXTENDS EngineProperties

None == {}

Everyone(v) == [a \in Accounts |-> v]
Flat(v) == [a \in Accounts |-> [s \in Symbols |-> v]]

CashRisk == [mode |-> "CashOnly", short |-> FALSE, leverage |-> 2, initial |-> 2, onShort |-> 2]
ShortRisk == [CashRisk EXCEPT !.short = TRUE]
MarginRisk == [mode |-> "Margin", short |-> TRUE, leverage |-> 4, initial |-> 1, onShort |-> 1]
AllCash == Everyone(CashRisk)

NoFees == [maker |-> 0, taker |-> 0, fixed |-> 0]
\* A whole taker fee, so that no fill rounds.
TakerFee == [NoFees EXCEPT !.taker = 2]
FixedFee == [NoFees EXCEPT !.fixed = 1]

Cash8 == Everyone(8)
Cash6 == Everyone(6)
Units3 == Flat(3)

Limit(a, side, price, qty, tif) ==
    [acct |-> a, sym |-> "X", side |-> side, price |-> price, qty |-> qty, tif |-> tif,
     kind |-> "Displayed", clip |-> 0]
HiddenOrder(a, side, price, qty) ==
    [Limit(a, side, price, qty, "GTC") EXCEPT !.kind = "Hidden"]
IcebergOrder(a, side, price, qty, clip) ==
    [Limit(a, side, price, qty, "GTC") EXCEPT !.kind = "Iceberg", !.clip = clip]

\* Continuous matching: all kinds of orders and times in force, on two prices.
ContinuousOrders ==
    {Limit("alice", "Bid", p, q, "GTC") : p \in {1, 2}, q \in {1, 2}}
        \cup {Limit("bob", "Ask", p, 2, "GTC") : p \in {1, 2}}
        \cup {HiddenOrder("bob", "Ask", 1, 2), IcebergOrder("bob", "Ask", 1, 3, 1),
              HiddenOrder("alice", "Bid", 2, 1)}
        \cup {Limit("alice", "Bid", 1, 3, tif) : tif \in {"IOC", "FOK"}}
ContinuousMarket == {[acct |-> "alice", sym |-> "X", side |-> "Bid", qty |-> 3],
                     [acct |-> "bob", sym |-> "X", side |-> "Ask", qty |-> 2]}

\* Stop orders above and below the market, as stop-market and as stop-limit.
StopOrders ==
    {Limit("alice", "Bid", p, 1, "GTC") : p \in {1, 3}}
        \cup {Limit("bob", "Ask", p, p, "GTC") : p \in {1, 2}}
Stop(a, side, stop, qty, limit) ==
    [acct |-> a, sym |-> "X", side |-> side, stop |-> stop, qty |-> qty, limit |-> limit]
StopInputs ==
    {Stop("alice", "Bid", 2, 1, NoPrice), Stop("alice", "Bid", 1, 2, 3),
     Stop("bob", "Ask", 1, 1, 1), Stop("bob", "Ask", 2, 1, NoPrice)}
StopChanges == {[stop |-> 1, qty |-> 1, limit |-> 2]}

\* An opening auction with displayed orders on three prices.
AuctionDisplayed ==
    {Limit("alice", "Bid", p, q, "GTC") : p \in {1, 2, 3}, q \in {1, 2}}
        \cup {Limit("bob", "Ask", p, q, "GTC") : p \in {1, 2}, q \in {1, 3}}
Opening == {"OpeningAuction"}

\* Replacements at other prices and quantities.
Changes == {[price |-> p, qty |-> q] : p \in {1, 2, 3}, q \in {1, 3}}

\* Icebergs whose clip is larger than one unit.
IcebergOrders ==
    {IcebergOrder("alice", "Bid", 1, 3, 2), Limit("alice", "Bid", 1, 1, "GTC"),
     IcebergOrder("bob", "Ask", 1, 3, 2), Limit("bob", "Ask", 1, 2, "GTC")}

\* A price band that cuts resting orders off.
Band12 == {[lower |-> 1, upper |-> 2]}

\* Halts by phase, beside the halt and the circuit breaker of the other calls.
HaltPhase == {"Halted"}

\* Every call, each with a few inputs, invalid ones among them.
AllOrders ==
    {Limit("alice", "Bid", 2, 2, "GTC"), Limit("house", "Ask", 1, 1, "GTC"),
     IcebergOrder("alice", "Ask", 1, 3, 2), HiddenOrder("alice", "Bid", 2, 1),
     Limit("alice", "Bid", 1, 0, "GTC")}
AllMarket == {[acct |-> "house", sym |-> "X", side |-> "Bid", qty |-> 2]}
AllStops == {Stop("alice", "Ask", 2, 1, 1)}
AllChanges == {[price |-> 1, qty |-> 1]}
AllStopChanges == {[stop |-> 1, qty |-> 1, limit |-> NoPrice]}
AllPhases == {"OpeningAuction"}
AllRisks == {MarginRisk}
ShortRisks == {ShortRisk}
AllFees == {FixedFee}
AllStates == {[cash |-> 8, position |-> 3]}
=============================================================================
