---------------------------- MODULE EngineProofs ----------------------------
(***************************************************************************)
(* Theorems about the matching engine for every number of accounts,        *)
(* symbols and orders, every start, every fee and margin rate and every    *)
(* set of requests: its types, the shape of its resting orders, and that   *)
(* every resting order is owned.                                           *)
(***************************************************************************)
EXTENDS EngineProperties, FiniteSetTheorems, TLAPS

Balances == [cash : Int, short : Int, qty : [Symbols -> Int]]
Entries == [cash : Int, units : [Symbols -> Int]]

-----------------------------------------------------------------------------
(* Updates of the tables of the accounts and of the orders.                *)

\* Freeing parts of the reserves of two accounts keeps the table of reserves typed.
LEMMA ReservedReleased ==
    ASSUME NEW r \in [Accounts -> Balances], NEW a \in Accounts, NEW b \in Accounts,
           NEW sym \in Symbols, NEW x \in Int, NEW y \in Int, NEW z \in Int
    PROVE  [r EXCEPT ![a].cash = @ - x, ![b].short = @ - y, ![b].qty[sym] = @ - z]
               \in [Accounts -> Balances]
<1> DEFINE t1 == [r EXCEPT ![a].cash = @ - x]
<1> DEFINE t2 == [t1 EXCEPT ![b].short = @ - y]
<1> DEFINE t3 == [t2 EXCEPT ![b].qty[sym] = @ - z]
<1>1. t1 \in [Accounts -> Balances]
  BY DEF Balances
<1>2. t2 \in [Accounts -> Balances]
  <2> HIDE DEF t1
  <2> QED BY <1>1 DEF Balances
<1>3. t3 \in [Accounts -> Balances]
  <2> HIDE DEF t2
  <2> QED BY SMTT(30), <1>2 DEF Balances
<1>4. [r EXCEPT ![a].cash = @ - x, ![b].short = @ - y, ![b].qty[sym] = @ - z] = t3
  BY DEF Balances
<1> QED BY <1>3, <1>4

\* Blocking more keeps it typed.
LEMMA ReservedBlocked ==
    ASSUME NEW r \in [Accounts -> Balances], NEW a \in Accounts,
           NEW sym \in Symbols, NEW x \in Int, NEW y \in Int, NEW z \in Int
    PROVE  [r EXCEPT ![a].cash = @ + x, ![a].short = @ + y, ![a].qty[sym] = @ + z]
               \in [Accounts -> Balances]
<1> DEFINE t1 == [r EXCEPT ![a].cash = @ + x]
<1> DEFINE t2 == [t1 EXCEPT ![a].short = @ + y]
<1> DEFINE t3 == [t2 EXCEPT ![a].qty[sym] = @ + z]
<1>1. t1 \in [Accounts -> Balances]
  BY DEF Balances
<1>2. t2 \in [Accounts -> Balances]
  <2> HIDE DEF t1
  <2> QED BY SMTT(30), <1>1 DEF Balances
<1>3. t3 \in [Accounts -> Balances]
  <2> HIDE DEF t2
  <2> QED BY <1>2 DEF Balances
<1>4. [r EXCEPT ![a].cash = @ + x, ![a].short = @ + y, ![a].qty[sym] = @ + z] = t3
  BY DEF Balances
<1> QED BY <1>3, <1>4

\* A trade leaves the reserves by order typed.
LEMMA HeldReleased ==
    ASSUME NEW h \in [OrderIds -> Reserve], NEW i \in OrderIds, NEW j \in OrderIds,
           NEW x \in Int, NEW y \in Int, NEW z \in Int
    PROVE  [h EXCEPT ![i].cash = @ - x, ![j].qty = @ - y, ![j].short = @ - z]
               \in [OrderIds -> Reserve]
<1> DEFINE t1 == [h EXCEPT ![i].cash = @ - x]
<1> DEFINE t2 == [t1 EXCEPT ![j].qty = @ - y]
<1> DEFINE t3 == [t2 EXCEPT ![j].short = @ - z]
<1>1. t1 \in [OrderIds -> Reserve]
  BY DEF Reserve
<1>2. t2 \in [OrderIds -> Reserve]
  <2> HIDE DEF t1
  <2> QED BY <1>1 DEF Reserve
<1>3. t3 \in [OrderIds -> Reserve]
  <2> HIDE DEF t2
  <2> QED BY <1>2 DEF Reserve
<1>4. [h EXCEPT ![i].cash = @ - x, ![j].qty = @ - y, ![j].short = @ - z] = t3
  BY DEF Reserve
<1> QED BY <1>3, <1>4

\* Recording the reserve of an order that starts to rest.
LEMMA HeldSet ==
    ASSUME NEW h \in [OrderIds -> Reserve], NEW i \in OrderIds,
           NEW x \in Int, NEW y \in Int, NEW z \in Int
    PROVE  [h EXCEPT ![i].cash = x, ![i].qty = y, ![i].short = z] \in [OrderIds -> Reserve]
BY DEF Reserve

\* A trade leaves the balances and the ledger typed.
LEMMA FlowType ==
    ASSUME NEW a, NEW b, NEW s, NEW p \in Int, NEW n \in Int,
           NEW buyerFee \in Int, NEW sellerFee \in Int
    PROVE  /\ CashFlow(a, b, s, p, n, buyerFee, sellerFee) \in Int
           /\ UnitFlow(a, b, s, n) \in Int
BY DEF CashFlow, UnitFlow

LEMMA SettleType ==
    ASSUME TypeOK, NEW sym \in Symbols, NEW b, NEW s, NEW p \in Int, NEW n \in Int,
           NEW buyerFee \in Int, NEW sellerFee \in Int,
           Settle(sym, b, s, p, n, buyerFee, sellerFee)
    PROVE  /\ cash' \in [Accounts -> Int]
           /\ position' \in [Accounts -> [Symbols -> Int]]
           /\ mark' \in [Symbols -> Int]
BY FlowType DEF TypeOK, Settle

LEMMA RecordType ==
    ASSUME TypeOK, NEW sym \in Symbols, NEW b, NEW s, NEW p \in Int, NEW n \in Int,
           NEW buyerFee \in Int, NEW sellerFee \in Int,
           Record(sym, b, s, p, n, buyerFee, sellerFee)
    PROVE  booked' \in [Accounts -> Entries]
BY FlowType DEF TypeOK, Record, Entries

\* Fees and reserves are integers.
LEMMA FeeType ==
    ASSUME NEW f \in Fees, NEW notional \in Int, NEW role \in {"maker", "taker"}
    PROVE  FeeForNotional(f, notional, role) \in Int
<1>1. f[role] \in Int /\ f.fixed \in Int
  BY DEF Fees
<1>2. 2 * notional * f[role] + FeeUnit \in Int /\ 2 * FeeUnit \in Nat \ {0}
  BY <1>1, UnitsAssumption
<1> DEFINE due == 2 * notional * f[role] + FeeUnit
           unit == 2 * FeeUnit
<1>3. due \div unit \in Int
  <2> HIDE DEF due, unit
  <2> QED BY <1>2 DEF due, unit
<1> QED BY <1>1, <1>3 DEF FeeForNotional

LEMMA CeilDivType ==
    ASSUME NEW a \in Int, NEW b \in Nat \ {0}
    PROVE  CeilDiv(a, b) \in Int
BY DEF CeilDiv

LEMMA ReserveType ==
    ASSUME NEW config \in RiskConfig, NEW f \in Fees, NEW price \in Int, NEW qty \in Int
    PROVE  BuyReserve(config, f, price, qty) \in Int /\ ShortReserve(config, price, qty) \in Int
<1> DEFINE due == price * qty + WorstFee(f, price * qty)
<1>1. price * qty \in Int
  OBVIOUS
<1>2. due \in Int
  BY <1>1, FeeType DEF WorstFee, AtLeast
<1>3. config.initial \in Int /\ config.onShort \in Int
  BY DEF RiskConfig
<1>4. CeilDiv(due * config.initial, RiskUnit) \in Int
  <2> HIDE DEF due
  <2>1. due * config.initial \in Int
    BY <1>2, <1>3
  <2> QED BY <2>1, CeilDivType, UnitsAssumption
<1>5. CeilDiv(price * qty * config.onShort, RiskUnit) \in Int
  <2>1. price * qty * config.onShort \in Int
    BY <1>1, <1>3
  <2> QED BY <2>1, CeilDivType, UnitsAssumption
<1> QED BY <1>2, <1>4, <1>5 DEF BuyReserve, ShortReserve

\* A share of a reserve is an integer.
LEMMA ShareType ==
    ASSUME NEW kept \in Int, NEW n \in Int, NEW before \in Int
    PROVE  ProportionalRelease(kept, n, before) \in Int
<1>1. kept * n \in Int
  OBVIOUS
<1>2. ASSUME before > 0
      PROVE  CeilDiv(kept * n, before) \in Int
  BY <1>1, <1>2, CeilDivType
<1> QED BY <1>2 DEF ProportionalRelease

LEMMA TradeReleaseType ==
    ASSUME TypeOK, NEW id \in OrderIds, NEW side, NEW n \in Int, NEW before \in Int
    PROVE  TradeRelease(id, side, n, before) \in Reserve
<1>1. held[id].cash \in Int /\ held[id].qty \in Int /\ held[id].short \in Int
  BY DEF TypeOK, Reserve
<1>2. ProportionalRelease(held[id].cash, n, before) \in Int
  BY <1>1, ShareType
<1>3. ProportionalRelease(held[id].short, n, before) \in Int
  BY <1>1, ShareType
<1>4. Lesser(held[id].qty, n) \in Int
  BY <1>1 DEF Lesser
<1> QED BY <1>2, <1>3, <1>4 DEF TradeRelease, Reserve

-----------------------------------------------------------------------------
(* The book as a set of orders.                                            *)

Distinct(B) == \A o, p \in B : o.id = p.id => o = p

\* A set of orders the book can be.
GoodBook(B) == B \subseteq BookOrder /\ (\A o \in B : Shaped(o)) /\ Distinct(B)

\* x is p, but for its place in its queue.
Alike(x, p) ==
    /\ x.id = p.id /\ x.sym = p.sym /\ x.side = p.side /\ x.price = p.price
    /\ x.kind = p.kind /\ x.clip = p.clip /\ x.qty = p.qty /\ x.reserve = p.reserve

\* x is what a fill of n leaves of o.
LeftOf(x, o, n) ==
    /\ x.id = o.id /\ x.sym = o.sym /\ x.side = o.side /\ x.price = o.price
    /\ x.kind = o.kind
    /\ Remaining(x) = Remaining(o) - n /\ Remaining(x) > 0

\* A book is finite, because ids are: queues have a back.
LEMMA GoodBookFinite ==
    ASSUME NEW B \in SUBSET BookOrder, Distinct(B)
    PROVE  IsFiniteSet(B)
<1> DEFINE idOf == [o \in B |-> o.id]
<1>1. idOf \in Injection(B, OrderIds)
  BY DEF Injection, IsInjective, Distinct, BookOrder
<1>2. IsFiniteSet(OrderIds)
  BY FS_Interval, AccountsAssumption DEF OrderIds
<1> QED BY <1>1, <1>2, FS_Injection

LEMMA BackPlaceType ==
    ASSUME NEW B \in SUBSET BookOrder, Distinct(B), NEW o
    PROVE  BackPlace(B, o) \in Int
<1> DEFINE Q == {p \in B : SameQueue(p, o)}
<1>1. IsFiniteSet(Q)
  BY GoodBookFinite, FS_Subset
<1>2. Cardinality(Q) \in Nat
  BY <1>1, FS_CardinalityType
<1> QED BY <1>2 DEF BackPlace

\* An order whose queue moves up stays the same order.
Shifted(o, p) ==
    IF SameQueue(p, o) /\ p.place > o.place THEN [p EXCEPT !.place = @ - 1] ELSE p

LEMMA ShiftedAlike ==
    ASSUME NEW o \in BookOrder, NEW p \in BookOrder
    PROVE  Shifted(o, p) \in BookOrder /\ Alike(Shifted(o, p), p)
BY DEF Shifted, BookOrder, Alike

\* Taking an order out leaves the others, each alike.
LEMMA WithoutGood ==
    ASSUME NEW B, GoodBook(B), NEW o \in B
    PROVE  /\ GoodBook(Without(B, o))
           /\ \A x \in Without(B, o) : \E p \in B \ {o} : Alike(x, p)
           /\ \A x \in Without(B, o) : x.id # o.id
           /\ \A p \in B \ {o} : p.side # o.side => p \in Without(B, o)
<1>1. Without(B, o) = {Shifted(o, p) : p \in B \ {o}}
  BY DEF Without, Shifted
<1>2. ASSUME NEW x \in Without(B, o)
      PROVE  \E p \in B \ {o} : x = Shifted(o, p) /\ Alike(x, p) /\ x \in BookOrder
  BY <1>1, <1>2, ShiftedAlike DEF GoodBook
<1>3. \A x \in Without(B, o) : Shaped(x) /\ x \in BookOrder /\ x.id # o.id
  BY <1>2 DEF Alike, Shaped, GoodBook, Distinct
<1>4. Distinct(Without(B, o))
  <2> SUFFICES ASSUME NEW x \in Without(B, o), NEW y \in Without(B, o), x.id = y.id
               PROVE  x = y
    BY DEF Distinct
  <2>1. PICK p \in B \ {o} : x = Shifted(o, p) /\ Alike(x, p)
    BY <1>2
  <2>2. PICK q \in B \ {o} : y = Shifted(o, q) /\ Alike(y, q)
    BY <1>2
  <2>3. p = q
    BY <2>1, <2>2 DEF Alike, GoodBook, Distinct
  <2> QED BY <2>1, <2>2, <2>3
<1>5. \A p \in B \ {o} : p.side # o.side => Shifted(o, p) = p
  BY DEF Shifted, SameQueue
<1> QED BY <1>1, <1>2, <1>3, <1>4, <1>5 DEF GoodBook

\* What a fill can take from an order is at most what it shows, or hides.
Fillable(o) == IF o.kind = "Hidden" THEN o.reserve ELSE o.qty

LEMMA FillQtyBound ==
    ASSUME NEW o \in BookOrder, Shaped(o), NEW q \in Nat \ {0}
    PROVE  /\ FillQty(o, q) \in Nat \ {0}
           /\ FillQty(o, q) <= Fillable(o) /\ FillQty(o, q) <= q
           /\ FillQty(o, q) = q \/ FillQty(o, q) = Fillable(o)
BY DEF FillQty, Fillable, Shaped, BookOrder, Lesser

\* A fill of n of an order o of the book.
LEMMA FillGood ==
    ASSUME NEW B, GoodBook(B), NEW o \in B, NEW n \in Nat \ {0}, n <= Fillable(o)
    PROVE  /\ GoodBook(AfterFill(B, o, n))
           /\ \A x \in AfterFill(B, o, n) :
                  (\E p \in B \ {o} : Alike(x, p)) \/ LeftOf(x, o, n)
           /\ \A p \in B : p.side # o.side => p \in AfterFill(B, o, n)
<1> DEFINE left == Reduced(o, n)
           others == Without(B, o)
<1>1. o \in BookOrder /\ Shaped(o)
  BY DEF GoodBook
<1>2. left \in BookOrder /\ Remaining(left) = Remaining(o) - n /\ Remaining(left) \in Nat
  BY <1>1 DEF Reduced, BookOrder, Remaining, Fillable, Shaped
<1>3. /\ left.id = o.id /\ left.sym = o.sym /\ left.side = o.side /\ left.price = o.price
      /\ left.kind = o.kind /\ left.clip = o.clip
  BY <1>1 DEF Reduced, BookOrder
<1>4. GoodBook(others) /\ (\A x \in others : x.id # o.id)
  BY WithoutGood
<1>5. \A x \in others : \E p \in B \ {o} : Alike(x, p)
  BY WithoutGood
<1>6. \A p \in B \ {o} : p.side # o.side => p \in others
  BY WithoutGood
<1>7. CASE Remaining(left) = 0
  <2>1. AfterFill(B, o, n) = others
    BY <1>7 DEF AfterFill
  <2> QED BY <2>1, <1>4, <1>5, <1>6
<1>8. CASE Remaining(left) # 0 /\ o.kind = "Iceberg" /\ left.qty = 0
  <2> DEFINE new == Renewed(others, left)
  <2>1. AfterFill(B, o, n) = others \cup {new}
    BY <1>8 DEF AfterFill
  <2>2. BackPlace(others, left) \in Int
    BY <1>4, BackPlaceType DEF GoodBook
  <2>3. left.reserve > 0 /\ left.clip > 0 /\ left.clip \in Int /\ left.reserve \in Nat
    BY <1>1, <1>2, <1>3, <1>8 DEF Remaining, BookOrder, Shaped
  <2>4. /\ Lesser(left.clip, left.reserve) \in Nat
        /\ Lesser(left.clip, left.reserve) > 0
        /\ Lesser(left.clip, left.reserve) <= left.reserve
    BY <2>3 DEF Lesser
  <2>5. new \in BookOrder
    <3> DEFINE c == Lesser(left.clip, left.reserve)
               at == BackPlace(others, left)
    <3>1. new = [left EXCEPT !.qty = c, !.reserve = left.reserve - c, !.place = at]
      BY <1>2 DEF Renewed
    <3>2. c \in Nat /\ left.reserve - c \in Nat /\ at \in Int
      BY <2>2, <2>3, <2>4
    <3> HIDE DEF c, at, left, new
    <3> QED BY <1>2, <3>1, <3>2 DEF BookOrder
  <2>6. /\ new.id = o.id /\ new.sym = o.sym /\ new.side = o.side
        /\ new.price = o.price /\ new.kind = o.kind /\ new.clip = left.clip
        /\ new.qty = Lesser(left.clip, left.reserve)
        /\ new.reserve = left.reserve - new.qty
    BY <1>2, <1>3 DEF Renewed, BookOrder
  <2>7. Shaped(new) /\ LeftOf(new, o, n)
    <3>1. new.qty \in Nat /\ left.qty = 0 /\ left.reserve \in Nat
      BY <2>4, <2>6, <1>8, <2>3
    <3>2. Remaining(new) = Remaining(left)
      BY <2>6, <3>1 DEF Remaining
    <3>3. Remaining(new) = Remaining(o) - n /\ Remaining(new) > 0
      BY <3>2, <1>2, <1>8
    <3> QED BY <2>3, <2>4, <2>6, <3>3, <1>8 DEF Shaped, LeftOf
  <2>8. GoodBook(others \cup {new})
    BY <1>4, <2>5, <2>6, <2>7 DEF GoodBook, Distinct
  <2> QED
    <3> HIDE DEF others, new
    <3> QED BY <2>1, <2>6, <2>7, <2>8, <1>5, <1>6
<1>9. CASE Remaining(left) # 0 /\ ~(o.kind = "Iceberg" /\ left.qty = 0)
  <2>1. AfterFill(B, o, n) = (B \ {o}) \cup {left}
    BY <1>9 DEF AfterFill
  <2>2. LeftOf(left, o, n)
    BY <1>2, <1>3, <1>9 DEF LeftOf
  <2>3. Shaped(left)
    BY <1>1, <1>2, <1>9 DEF Shaped, Reduced, Remaining, BookOrder, Fillable
  <2>4. GoodBook((B \ {o}) \cup {left})
    BY <1>2, <1>3, <2>3 DEF GoodBook, Distinct
  <2>5. \A p \in B : Alike(p, p)
    BY DEF Alike
  <2> QED
    <3> HIDE DEF left
    <3> QED BY <2>1, <2>2, <2>4, <2>5
<1> QED
  <2> HIDE DEF left
  <2> QED BY <1>7, <1>8, <1>9

\* An order with a new id joins the book, or leaves it as it is.
LEMMA AddGood ==
    ASSUME NEW B, GoodBook(B),
           NEW o \in [id : OrderIds, sym : Symbols, side : Sides, price : Int, kind : Kinds,
                      qty : Int, clip : Int],
           \A p \in B : p.id # o.id
    PROVE  /\ GoodBook(AddOrder(B, o))
           /\ \A x \in AddOrder(B, o) : x \in B \/
                 (/\ x.id = o.id /\ x.sym = o.sym /\ x.side = o.side
                  /\ x.price = o.price /\ x.kind = o.kind /\ Remaining(x) = o.qty)
<1> DEFINE shown == CASE o.kind = "Displayed" -> o.qty
                      [] o.kind = "Iceberg" -> o.clip
                      [] OTHER -> 0
           new == [id |-> o.id, sym |-> o.sym, side |-> o.side, price |-> o.price,
                   kind |-> o.kind, qty |-> shown, reserve |-> o.qty - shown,
                   clip |-> o.clip, place |-> BackPlace(B, o)]
<1>1. BackPlace(B, o) \in Int
  BY BackPlaceType DEF GoodBook
<1>2. CASE AddOrder(B, o) = B
  BY <1>2
<1>3. CASE /\ AddOrder(B, o) = B \cup {new} /\ o.qty > 0
           /\ o.kind = "Iceberg" => o.clip > 0 /\ o.qty >= o.clip
  <2>1. shown \in Nat /\ o.qty - shown \in Nat
    BY <1>3 DEF Kinds
  <2>2. new \in BookOrder
    BY <1>1, <2>1 DEF BookOrder
  <2>3. Shaped(new)
    BY <1>3 DEF Shaped, Kinds
  <2>4. Remaining(new) = o.qty
    BY <2>1 DEF Remaining
  <2>5. GoodBook(B \cup {new})
    <3>1. new.id = o.id
      OBVIOUS
    <3> HIDE DEF new
    <3> QED BY <2>2, <2>3, <3>1 DEF GoodBook, Distinct
  <2> QED
    <3>1. /\ new.id = o.id /\ new.sym = o.sym /\ new.side = o.side
          /\ new.price = o.price /\ new.kind = o.kind
      OBVIOUS
    <3> HIDE DEF new
    <3> QED BY <1>3, <2>4, <2>5, <3>1
<1> QED
  BY <1>2, <1>3 DEF AddOrder, ValidQty, ValidPrice

-----------------------------------------------------------------------------
(* The invariant holds initially and is preserved by every action.         *)

LEMMA InitInv == Init => EngineInv
<1> SUFFICES ASSUME Init PROVE EngineInv
  OBVIOUS
<1>1. 1 \in 1..(MaxOrderId + 1)
  BY AccountsAssumption
<1>2. NoOwner \in OwnerRecord \cup {NoOwner} /\ NoCredit \in Reserve
  BY DEF NoCredit, Reserve
<1>3. NoBand \in [lower : Int, upper : Int] /\ NoPrice \in Int
  BY DEF NoBand, NoPrice
<1>4. reserved \in [Accounts -> Balances] /\ booked \in [Accounts -> Entries]
  BY DEF Init, Balances, Entries
<1>5. /\ owner \in [OrderIds -> OwnerRecord \cup {NoOwner}] /\ held \in [OrderIds -> Reserve]
      /\ mark \in [Symbols -> Int] /\ phase \in [Symbols -> Phases]
      /\ band \in [Symbols -> [lower : Int, upper : Int]]
  BY <1>2, <1>3 DEF Init, Phases
<1>6. TypeOK
  BY <1>1, <1>4, <1>5, StartAssumption
     DEF Init, TypeOK, Points, Callers, Balances, Entries
<1>7. IsFiniteSet(stops)
  BY FS_EmptySet DEF Init
<1> QED BY <1>6, <1>7 DEF Init, EngineInv, WellShaped, BookOwned, IdsFresh

\* Nothing about the book changes when neither it nor the owners do.
LEMMA BookKept ==
    ASSUME WellShaped, BookOwned, UNCHANGED <<book, owner>>
    PROVE  WellShaped' /\ BookOwned'
BY DEF WellShaped, BookOwned, Claims, Shaped, Remaining

\* Ids stay fresh when the next id is given to a new order, and when none is given.
LEMMA NextIdGiven ==
    ASSUME EngineInv, nextId' = nextId + 1, UNCHANGED <<book, owner>>,
           pc' \in {"place", "match", "rest"} => taker'.id = nextId
    PROVE  IdsFresh'
<1>1. nextId \in Int /\ \A o \in book : o.id \in Int /\ o.id < nextId
  BY DEF EngineInv, TypeOK, BookOrder, OrderIds, IdsFresh
<1>2. \A id \in OrderIds : id \in Int /\ (owner[id] # NoOwner => id < nextId)
  BY DEF EngineInv, OrderIds, IdsFresh
<1> QED BY <1>1, <1>2 DEF IdsFresh

LEMMA NoIdGiven ==
    ASSUME EngineInv, UNCHANGED <<nextId, book, owner>>,
           pc' \in {"place", "match", "rest"} =>
               pc \in {"place", "match", "rest"} /\ taker'.id = taker.id
    PROVE  IdsFresh'
BY DEF EngineInv, IdsFresh

LEMMA SubmitOrderInv ==
    ASSUME EngineInv, NEW r \in OrderRequests, SubmitOrder(r)
    PROVE  EngineInv'
<1>1. Cardinality(stops) \in Nat
  BY FS_CardinalityType DEF EngineInv
<1>2. nextId \in OrderIds /\ nextId' \in 1..(MaxOrderId + 1)
  BY <1>1, AccountsAssumption DEF EngineInv, TypeOK, SubmitOrder, Room, OrderIds
<1>3. taker' \in TakerRecord /\ taker'.id = nextId
  BY <1>2, RequestsAssumption DEF SubmitOrder, NewTaker, TakerRecord
<1>4. TypeOK'
  BY <1>2, <1>3, RequestsAssumption
     DEF EngineInv, TypeOK, SubmitOrder, funds, market, settings, Points, Callers
<1>5. WellShaped' /\ BookOwned'
  BY BookKept DEF EngineInv, SubmitOrder
<1>6. IdsFresh'
  BY <1>3, NextIdGiven DEF SubmitOrder
<1> QED BY <1>4, <1>5, <1>6 DEF EngineInv, SubmitOrder

LEMMA MarketLimitType ==
    ASSUME TypeOK, NEW sym, NEW side, NEW qty, NEW p \in MarketLimit(book, sym, side, qty)
    PROVE  p \in Int
BY DEF MarketLimit, DisplayedPrices, Resting, TypeOK, BookOrder

LEMMA PlaceMarketType ==
    ASSUME TypeOK, NEW id \in OrderIds, NEW refused,
           NEW r, r.acct \in Accounts, r.sym \in Symbols, r.side \in Sides, r.qty \in Int,
           PlaceMarket(id, r, refused)
    PROVE  \/ pc' = refused /\ taker' = taker
           \/ pc' = "place" /\ taker' \in TakerRecord /\ taker'.id = id
BY MarketLimitType DEF PlaceMarket, NewTaker, TakerRecord, Tifs, Kinds

LEMMA SubmitMarketInv ==
    ASSUME EngineInv, NEW r \in MarketRequests, SubmitMarket(r)
    PROVE  EngineInv'
<1>1. Cardinality(stops) \in Nat
  BY FS_CardinalityType DEF EngineInv
<1>2. nextId \in OrderIds /\ nextId' \in 1..(MaxOrderId + 1)
  BY <1>1, AccountsAssumption DEF EngineInv, TypeOK, SubmitMarket, Room, OrderIds
<1>3. \/ pc' = "evaluate" /\ taker' = taker
      \/ pc' = "place" /\ taker' \in TakerRecord /\ taker'.id = nextId
  BY <1>2, PlaceMarketType, RequestsAssumption DEF EngineInv, SubmitMarket
<1>4. TypeOK'
  BY <1>2, <1>3, RequestsAssumption
     DEF EngineInv, TypeOK, SubmitMarket, funds, market, settings, Points, Callers
<1>5. WellShaped' /\ BookOwned'
  BY BookKept DEF EngineInv, SubmitMarket
<1>6. IdsFresh'
  BY <1>3, NextIdGiven DEF SubmitMarket
<1> QED BY <1>4, <1>5, <1>6 DEF EngineInv, SubmitMarket

LEMMA ToppedUpType ==
    ASSUME TypeOK, NEW a \in Accounts, NEW sym \in Symbols
    PROVE  /\ ToppedUpCash(a) \in [Accounts -> Int]
           /\ ToppedUpPosition(a, sym) \in [Accounts -> [Symbols -> Int]]
BY AccountsAssumption DEF TypeOK, ToppedUpCash, ToppedUpPosition, Greater

LEMMA RefuseOrderInv == EngineInv /\ RefuseOrder => EngineInv'
<1> SUFFICES ASSUME EngineInv, RefuseOrder PROVE EngineInv'
  OBVIOUS
<1>1. taker.acct \in Accounts /\ taker.sym \in Symbols
  BY DEF EngineInv, TypeOK, TakerRecord, RefuseOrder
<1>2. cash' \in [Accounts -> Int] /\ position' \in [Accounts -> [Symbols -> Int]]
  BY <1>1, ToppedUpType DEF EngineInv, TypeOK, RefuseOrder
<1>3. pc' \in {"idle", "evaluate", "stops"}
  BY DEF RefuseOrder, OrderDone, AfterOrder
<1>4. TypeOK'
  BY <1>2, <1>3 DEF EngineInv, TypeOK, RefuseOrder, OrderDone, market, settings, Points
<1>5. IdsFresh'
  BY <1>3, NoIdGiven DEF RefuseOrder
<1> QED BY <1>4, <1>5, BookKept DEF EngineInv, RefuseOrder

LEMMA AdmitOrderInv == EngineInv /\ AdmitOrder => EngineInv'
<1> SUFFICES ASSUME EngineInv, AdmitOrder PROVE EngineInv'
  OBVIOUS
<1>1. taker.acct \in Accounts /\ taker.sym \in Symbols /\ taker \in TakerRecord
  BY DEF EngineInv, TypeOK, TakerRecord, AdmitOrder
<1>2. cash' \in [Accounts -> Int] /\ position' \in [Accounts -> [Symbols -> Int]]
  BY <1>1, ToppedUpType DEF EngineInv, TypeOK, AdmitOrder
<1>3. \/ pc' \in {"idle", "evaluate", "stops"} /\ taker' = NoTaker
      \/ pc' \in {"rest", "match"} /\ taker' = taker
  BY DEF AdmitOrder, AfterOrder
<1>4. TypeOK'
  BY <1>1, <1>2, <1>3 DEF EngineInv, TypeOK, AdmitOrder, market, settings, Points
<1>5. IdsFresh'
  BY <1>3, NoIdGiven DEF AdmitOrder
<1> QED BY <1>4, <1>5, BookKept DEF EngineInv, AdmitOrder

LEMMA SubmitStopInv ==
    ASSUME EngineInv, NEW r \in StopRequests, SubmitStop(r)
    PROVE  EngineInv'
<1>1. Cardinality(stops) \in Nat
  BY FS_CardinalityType DEF EngineInv
<1>2. nextId \in OrderIds /\ nextId' \in 1..(MaxOrderId + 1)
  BY SMTT(30), <1>1, AccountsAssumption DEF EngineInv, TypeOK, SubmitStop, Room, OrderIds
<1>3. r \in [acct : Accounts, sym : Symbols, side : Sides, stop : Int, qty : Int, limit : Int]
  BY RequestsAssumption
<1> DEFINE st == [id |-> nextId, acct |-> r.acct, sym |-> r.sym, side |-> r.side,
                  stop |-> r.stop, qty |-> r.qty, limit |-> r.limit]
<1>4. stops' = stops \/ stops' = stops \cup {st}
  BY DEF SubmitStop
<1>5. stops' \subseteq StopRecord /\ IsFiniteSet(stops')
  <2>1. st \in StopRecord
    BY <1>2, <1>3 DEF StopRecord
  <2> HIDE DEF st
  <2>2. IsFiniteSet(stops \cup {st})
    BY FS_AddElement DEF EngineInv
  <2> QED BY <1>4, <2>1, <2>2 DEF EngineInv, TypeOK
<1>6. cash' \in [Accounts -> Int] /\ position' \in [Accounts -> [Symbols -> Int]]
  BY <1>3, ToppedUpType DEF EngineInv, TypeOK, SubmitStop
<1>7. TypeOK'
  BY <1>2, <1>3, <1>5, <1>6
     DEF EngineInv, TypeOK, SubmitStop, market, settings, Points, Callers
<1>8. IdsFresh'
  BY NextIdGiven DEF SubmitStop
<1> QED BY <1>5, <1>7, <1>8, BookKept DEF EngineInv, SubmitStop

LEMMA ReplaceStopInv ==
    ASSUME EngineInv, NEW a \in Accounts, NEW st \in stops, NEW r \in StopAmendments,
           ReplaceStop(a, st, r)
    PROVE  EngineInv'
<1>1. r \in [stop : Int, qty : Int, limit : Int]
  BY RequestsAssumption
<1> DEFINE limit == IF r.limit = NoPrice THEN st.limit ELSE r.limit
           new == [st EXCEPT !.stop = r.stop, !.qty = r.qty, !.limit = limit]
<1>2. st \in StopRecord /\ new \in StopRecord
  BY ZenonT(30), <1>1 DEF EngineInv, TypeOK, StopRecord
<1>3. stops' = (stops \ {st}) \cup {new}
  BY DEF ReplaceStop
<1>4. stops' \subseteq StopRecord /\ IsFiniteSet(stops')
  <2> HIDE DEF new
  <2>1. IsFiniteSet(stops \ {st})
    BY FS_RemoveElement DEF EngineInv
  <2>2. IsFiniteSet((stops \ {st}) \cup {new})
    BY <2>1, FS_AddElement
  <2> QED BY <1>2, <1>3, <2>2 DEF EngineInv, TypeOK
<1>5. st.sym \in Symbols
  BY <1>2 DEF StopRecord
<1>6. TypeOK'
  BY <1>4, <1>5 DEF EngineInv, TypeOK, ReplaceStop, funds, market, settings, Points, Callers
<1>7. IdsFresh'
  BY NoIdGiven DEF ReplaceStop
<1> QED BY <1>4, <1>6, <1>7, BookKept DEF EngineInv, ReplaceStop

LEMMA CancelStopInv ==
    ASSUME EngineInv, NEW a \in Accounts, NEW st \in stops, CancelStop(a, st)
    PROVE  EngineInv'
<1>1. IsFiniteSet(stops')
  BY FS_RemoveElement DEF EngineInv, CancelStop
<1>2. TypeOK'
  BY DEF EngineInv, TypeOK, CancelStop, funds, market, settings, control
<1>3. IdsFresh'
  BY NoIdGiven DEF CancelStop, control
<1> QED BY <1>1, <1>2, <1>3, BookKept DEF EngineInv, CancelStop

LEMMA ScanStopsInv == EngineInv /\ ScanStops => EngineInv'
<1> SUFFICES ASSUME EngineInv, ScanStops PROVE EngineInv'
  OBVIOUS
<1>1. ready' \subseteq OrderIds
  BY DEF EngineInv, TypeOK, StopRecord, ScanStops
<1>2. TypeOK'
  BY <1>1 DEF EngineInv, TypeOK, ScanStops, funds, market, settings, Points, Callers
<1>3. IdsFresh'
  BY NoIdGiven DEF ScanStops
<1> QED BY <1>2, <1>3, BookKept DEF EngineInv, ScanStops

LEMMA EndPassInv == EngineInv /\ EndPass => EngineInv'
<1> SUFFICES ASSUME EngineInv, EndPass PROVE EngineInv'
  OBVIOUS
<1>1. pc' \in {"scan", "idle"}
  BY DEF EndPass, AfterPass
<1>2. TypeOK'
  BY <1>1 DEF EngineInv, TypeOK, EndPass, funds, market, settings, Points, Callers
<1>3. IdsFresh'
  BY <1>1, NoIdGiven DEF EndPass
<1> QED BY <1>2, <1>3, BookKept DEF EngineInv, EndPass

LEMMA TriggerStopInv == EngineInv /\ TriggerStop => EngineInv'
<1> SUFFICES ASSUME EngineInv, TriggerStop PROVE EngineInv'
  OBVIOUS
<1>1. PICK st \in stops :
        /\ stops' = stops \ {st}
        /\ ready' = ready \ {st.id}
        /\ nextId' = nextId + 1
        /\ IF st.limit = NoPrice THEN PlaceMarket(nextId, st, "stops")
           ELSE /\ pc' = "place"
                /\ taker' = NewTaker(nextId, st, st.limit, "GTC", "Displayed", 0)
  BY DEF TriggerStop
<1>2. nextId \in OrderIds /\ nextId' \in 1..(MaxOrderId + 1)
  BY <1>1, AccountsAssumption DEF TriggerStop, OrderIds
<1>3. st \in StopRecord
  BY DEF EngineInv, TypeOK
<1>4. \/ pc' = "stops" /\ taker' = taker
      \/ pc' = "place" /\ taker' \in TakerRecord /\ taker'.id = nextId
  <2>1. CASE st.limit = NoPrice
    BY <1>1, <1>2, <1>3, <2>1, PlaceMarketType DEF EngineInv, StopRecord
  <2>2. CASE st.limit # NoPrice
    BY <1>1, <1>2, <1>3, <2>2 DEF NewTaker, TakerRecord, StopRecord, Tifs, Kinds
  <2> QED BY <2>1, <2>2
<1>5. IsFiniteSet(stops')
  BY <1>1, FS_RemoveElement DEF EngineInv
<1>6. TypeOK'
  BY <1>1, <1>2, <1>4
     DEF EngineInv, TypeOK, TriggerStop, funds, market, settings, Points, Callers
<1>7. IdsFresh'
  BY <1>1, <1>4, NextIdGiven DEF TriggerStop
<1> QED BY <1>5, <1>6, <1>7, BookKept DEF EngineInv, TriggerStop

LEMMA MarketControlInv ==
    ASSUME EngineInv, NEW sym \in Symbols,
           \/ HaltSymbol(sym) \/ ResumeSymbol(sym) \/ ClearPriceBands(sym)
           \/ \E new \in PhaseChoices : SetTradingPhase(sym, new)
           \/ \E new \in BandChoices : SetPriceBands(sym, new)
    PROVE  EngineInv'
<1>1. ASSUME NEW new \in Phases, ChangePhase(sym, new)
      PROVE  EngineInv'
  <2>1. TypeOK'
    BY <1>1 DEF EngineInv, TypeOK, ChangePhase, funds, settings, control
  <2>2. IdsFresh'
    BY <1>1, NoIdGiven DEF ChangePhase, control
  <2> QED BY <1>1, <2>1, <2>2, BookKept DEF EngineInv, ChangePhase
<1>2. ASSUME NEW new \in [lower : Int, upper : Int], ChangeBand(sym, new)
      PROVE  EngineInv'
  <2>1. TypeOK'
    BY <1>2 DEF EngineInv, TypeOK, ChangeBand, funds, settings, control
  <2>2. IdsFresh'
    BY <1>2, NoIdGiven DEF ChangeBand, control
  <2> QED BY <1>2, <2>1, <2>2, BookKept DEF EngineInv, ChangeBand
<1>3. "Halted" \in Phases /\ "Continuous" \in Phases /\ PhaseChoices \subseteq Phases
  BY ControlsAssumption DEF Phases
<1>4. NoBand \in [lower : Int, upper : Int] /\ BandChoices \subseteq [lower : Int, upper : Int]
  BY ControlsAssumption DEF NoBand, NoPrice
<1> QED BY <1>1, <1>2, <1>3, <1>4
        DEF HaltSymbol, ResumeSymbol, SetTradingPhase, SetPriceBands, ClearPriceBands

LEMMA SettingInv == EngineInv /\ Setting => EngineInv'
<1> SUFFICES ASSUME EngineInv, Setting PROVE EngineInv'
  OBVIOUS
<1>1. ASSUME NEW new \in FeeChoices, SetFeeModel(new)
      PROVE  EngineInv'
  <2>1. TypeOK'
    BY <1>1, ControlsAssumption DEF EngineInv, TypeOK, SetFeeModel, funds, market, control
  <2>2. IdsFresh'
    BY <1>1, NoIdGiven DEF SetFeeModel, control
  <2> QED BY <1>1, <2>1, <2>2, BookKept DEF EngineInv, SetFeeModel
<1>2. ASSUME NEW a \in Accounts, NEW new \in RiskChoices, SetAccountRiskConfig(a, new)
      PROVE  EngineInv'
  <2>1. risk' \in [Accounts -> RiskConfig]
    BY <1>2, ControlsAssumption DEF EngineInv, TypeOK, SetAccountRiskConfig
  <2>2. TypeOK'
    BY <1>2, <2>1 DEF EngineInv, TypeOK, SetAccountRiskConfig, funds, market, control
  <2>3. IdsFresh'
    BY <1>2, NoIdGiven DEF SetAccountRiskConfig, control
  <2> QED BY <1>2, <2>2, <2>3, BookKept DEF EngineInv, SetAccountRiskConfig
<1>3. ASSUME NEW a \in Accounts, NEW sym \in Symbols, NEW new \in StateChoices,
             SetAccountState(a, sym, new)
      PROVE  EngineInv'
  <2>1. new.cash \in Int /\ new.position \in Int
    BY ControlsAssumption
  <2>2. cash' \in [Accounts -> Int] /\ position' \in [Accounts -> [Symbols -> Int]]
    BY <1>3, <2>1 DEF EngineInv, TypeOK, SetAccountState
  <2>3. TypeOK'
    BY <1>3, <2>2 DEF EngineInv, TypeOK, SetAccountState, market, settings, control
  <2>4. IdsFresh'
    BY <1>3, NoIdGiven DEF SetAccountState, control
  <2> QED BY <1>3, <2>3, <2>4, BookKept DEF EngineInv, SetAccountState
<1> QED BY <1>1, <1>2, <1>3 DEF Setting

\* The invariant makes the book a good one, whose orders are claimed.
LEMMA InvBook ==
    ASSUME EngineInv
    PROVE  GoodBook(book) /\ (\A o \in book : Claims(owner[o.id], o) /\ o.id < nextId)
BY DEF EngineInv, GoodBook, TypeOK, WellShaped, BookOwned, Distinct, IdsFresh

LEMMA BookInv ==
    ASSUME GoodBook(book'), \A o \in book' : Claims(owner'[o.id], o)
    PROVE  WellShaped' /\ BookOwned' /\ book' \subseteq BookOrder
BY DEF GoodBook, WellShaped, BookOwned, Distinct, Claims, Remaining, Shaped

\* An order that only moved in its queue is claimed by the same record.
LEMMA AlikeClaims ==
    ASSUME NEW x, NEW p, Alike(x, p), NEW record, Claims(record, p)
    PROVE  Claims(record, x)
BY DEF Alike, Claims, Remaining

LEMMA WithdrawInv ==
    ASSUME EngineInv, NEW a \in Accounts, NEW id \in OrderIds, NEW o \in book, o.id = id,
           Withdraw(a, id, o)
    PROVE  /\ GoodBook(book')
           /\ \A x \in book' : x.id # id /\ x.id < nextId /\ Claims(owner'[x.id], x)
           /\ \A i \in OrderIds : owner'[i] # NoOwner => i < nextId
           /\ owner' \in [OrderIds -> OwnerRecord \cup {NoOwner}]
           /\ reserved' \in [Accounts -> Balances]
           /\ held' \in [OrderIds -> Reserve]
<1>1. GoodBook(book) /\ \A p \in book : Claims(owner[p.id], p) /\ p.id < nextId
  BY InvBook
<1>2. book' = Without(book, o)
  BY DEF Withdraw, CancelOrder
<1>3. GoodBook(book') /\ \A x \in book' : x.id # id
  BY <1>1, <1>2, WithoutGood
<1>4. owner' = [owner EXCEPT ![id] = NoOwner]
  BY DEF Withdraw
<1>5. owner' \in [OrderIds -> OwnerRecord \cup {NoOwner}]
  BY <1>4 DEF EngineInv, TypeOK
<1>6. ASSUME NEW x \in book'
      PROVE  x.id < nextId /\ Claims(owner'[x.id], x)
  <2>1. PICK p \in book \ {o} : Alike(x, p)
    BY <1>1, <1>2, WithoutGood
  <2>2. x.id = p.id /\ x.id \in OrderIds
    BY <2>1, <1>3 DEF Alike, GoodBook, BookOrder
  <2>3. owner'[x.id] = owner[p.id]
    BY <2>2, <1>3, <1>4 DEF EngineInv, TypeOK
  <2> QED BY <2>1, <2>2, <2>3, <1>1, AlikeClaims
<1>7. held[id].cash \in Int /\ held[id].qty \in Int /\ held[id].short \in Int
  BY DEF EngineInv, TypeOK, Reserve
<1>8. o.sym \in Symbols
  BY <1>1 DEF GoodBook, BookOrder
<1>9. reserved' \in [Accounts -> Balances]
  <2>1. reserved \in [Accounts -> Balances]
    BY DEF EngineInv, TypeOK, Balances
  <2>2. reserved' = [reserved EXCEPT ![a].cash = @ - held[id].cash,
                                     ![a].short = @ - held[id].short,
                                     ![a].qty[o.sym] = @ - held[id].qty]
    BY DEF Withdraw, ReleaseAll
  <2> DEFINE x == held[id].cash
             y == held[id].short
             z == held[id].qty
             sym == o.sym
  <2>3. x \in Int /\ y \in Int /\ z \in Int /\ sym \in Symbols
    BY <1>7, <1>8
  <2>4. [reserved EXCEPT ![a].cash = @ - x, ![a].short = @ - y, ![a].qty[sym] = @ - z]
            \in [Accounts -> Balances]
    <3> HIDE DEF x, y, z, sym
    <3> QED BY <2>1, <2>3, ReservedReleased
  <2> QED BY <2>2, <2>4
<1>10. held' \in [OrderIds -> Reserve]
  BY DEF EngineInv, TypeOK, Withdraw, ReleaseAll, NoCredit, Reserve
<1>11. \A i \in OrderIds : owner'[i] # NoOwner => i < nextId
  BY <1>4 DEF EngineInv, TypeOK, IdsFresh
<1> QED BY <1>3, <1>5, <1>6, <1>9, <1>10, <1>11

LEMMA CancelInv ==
    ASSUME EngineInv, NEW a \in Accounts, NEW id \in OrderIds, Cancel(a, id)
    PROVE  EngineInv'
<1>1. PICK o \in InBook(id) : Withdraw(a, id, o)
  BY DEF Cancel
<1>2. o \in book /\ o.id = id
  BY DEF InBook
<1>3. /\ GoodBook(book')
      /\ \A x \in book' : x.id # id /\ x.id < nextId /\ Claims(owner'[x.id], x)
      /\ \A i \in OrderIds : owner'[i] # NoOwner => i < nextId
      /\ owner' \in [OrderIds -> OwnerRecord \cup {NoOwner}]
      /\ reserved' \in [Accounts -> Balances]
      /\ held' \in [OrderIds -> Reserve]
  BY <1>1, <1>2, WithdrawInv
<1>4. WellShaped' /\ BookOwned' /\ book' \subseteq BookOrder
  BY <1>3, BookInv
<1>5. TypeOK'
  BY <1>3, <1>4 DEF EngineInv, TypeOK, Balances, Cancel, market, settings, control
<1>6. IdsFresh'
  BY <1>3 DEF IdsFresh, Cancel, control
<1> QED BY <1>4, <1>5, <1>6 DEF EngineInv, Cancel

LEMMA ReplaceInv ==
    ASSUME EngineInv, NEW a \in Accounts, NEW id \in OrderIds, NEW r \in Amendments,
           Replace(a, id, r)
    PROVE  EngineInv'
<1>1. owner[id] \in OwnerRecord
  BY DEF EngineInv, TypeOK, Replace
<1>2. taker' \in TakerRecord /\ taker'.id = id
  BY <1>1, RequestsAssumption
     DEF Replace, NewTaker, TakerRecord, OwnerRecord, Tifs, Kinds
<1>3. id < nextId
  BY DEF Replace, EngineInv, IdsFresh
<1>4. /\ GoodBook(book')
      /\ \A x \in book' : x.id # id /\ x.id < nextId /\ Claims(owner'[x.id], x)
      /\ \A i \in OrderIds : owner'[i] # NoOwner => i < nextId
      /\ owner' \in [OrderIds -> OwnerRecord \cup {NoOwner}]
      /\ reserved' \in [Accounts -> Balances]
      /\ held' \in [OrderIds -> Reserve]
  <2>1. CASE \E o \in InBook(id) : Withdraw(a, id, o)
    <3>1. PICK o \in InBook(id) : Withdraw(a, id, o)
      BY <2>1
    <3>2. o \in book /\ o.id = id
      BY DEF InBook
    <3> QED BY <3>1, <3>2, WithdrawInv
  <2>2. CASE InBook(id) = {} /\ UNCHANGED <<book, reserved, held, owner>>
    <3>1. \A x \in book : x.id # id
      BY <2>2, InvBook DEF InBook, Claims
    <3> QED BY <2>2, <3>1, InvBook DEF EngineInv, TypeOK, Balances, IdsFresh
  <2> QED BY <2>1, <2>2 DEF Replace
<1>5. WellShaped' /\ BookOwned' /\ book' \subseteq BookOrder
  BY <1>4, BookInv
<1>6. TypeOK'
  BY <1>2, <1>4, <1>5
     DEF EngineInv, TypeOK, Balances, Replace, market, settings, Points, Callers
<1>7. IdsFresh'
  BY <1>2, <1>3, <1>4 DEF IdsFresh, Replace
<1> QED BY <1>5, <1>6, <1>7 DEF EngineInv, Replace

\* rest_visible_order: the order joins the book under a record of its own, or stays
\* out of it, as an iceberg with less than a clip left does.
LEMMA RestTakerInv ==
    ASSUME EngineInv, pc \in {"place", "match", "rest"}, RestTaker
    PROVE  /\ GoodBook(book')
           /\ \A x \in book' : x.id < nextId /\ Claims(owner'[x.id], x)
           /\ \A i \in OrderIds : owner'[i] # NoOwner => i < nextId
           /\ owner' \in [OrderIds -> OwnerRecord \cup {NoOwner}]
           /\ reserved' \in [Accounts -> Balances]
           /\ held' \in [OrderIds -> Reserve]
<1> DEFINE a == taker.acct
           sym == taker.sym
           id == taker.id
           record == [acct |-> a, sym |-> sym, side |-> taker.side, price |-> taker.price,
                      qty |-> taker.left, kind |-> taker.kind]
           new == [id |-> id, sym |-> sym, side |-> taker.side, price |-> taker.price,
                   kind |-> taker.kind, qty |-> taker.left, clip |-> taker.clip]
<1>1. /\ taker \in TakerRecord /\ a \in Accounts /\ sym \in Symbols /\ id \in OrderIds
      /\ taker.left \in Int /\ taker.price \in Int
  BY DEF EngineInv, TypeOK, TakerRecord
<1>2. GoodBook(book) /\ \A o \in book : Claims(owner[o.id], o) /\ o.id < nextId
  BY InvBook
<1>3. id < nextId /\ \A o \in book : o.id # id
  BY DEF EngineInv, IdsFresh
<1>4. book' = AddOrder(book, new) /\ owner' = [owner EXCEPT ![id] = record]
  BY DEF RestTaker
<1>5. new \in [id : OrderIds, sym : Symbols, side : Sides, price : Int, kind : Kinds,
                qty : Int, clip : Int]
  BY DEF EngineInv, TypeOK, TakerRecord
<1>6. record \in OwnerRecord /\ record # NoOwner
  BY DEF EngineInv, TypeOK, TakerRecord, OwnerRecord, NoOwner
<1>7. /\ GoodBook(book')
      /\ \A x \in book' : x \in book \/
            (/\ x.id = id /\ x.sym = sym /\ x.side = taker.side /\ x.price = taker.price
             /\ x.kind = taker.kind /\ Remaining(x) = taker.left)
  <2>1. /\ new.id = id /\ new.sym = sym /\ new.side = taker.side /\ new.price = taker.price
        /\ new.kind = taker.kind /\ new.qty = taker.left
    OBVIOUS
  <2> HIDE DEF new, id, sym
  <2> QED BY <1>2, <1>3, <1>4, <1>5, <2>1, AddGood
<1>8. owner' \in [OrderIds -> OwnerRecord \cup {NoOwner}]
  <2> HIDE DEF record, id
  <2> QED BY <1>1, <1>4, <1>6 DEF EngineInv, TypeOK
<1>9. ASSUME NEW x \in book'
      PROVE  x.id < nextId /\ Claims(owner'[x.id], x)
  <2>1. x.id \in OrderIds
    BY <1>7 DEF GoodBook, BookOrder
  <2>2. CASE x \in book
    <3>1. x.id # id /\ owner'[x.id] = owner[x.id]
      <4> HIDE DEF record, id
      <4> QED BY <1>3, <1>4, <2>1, <2>2 DEF EngineInv, TypeOK
    <3> QED BY <1>2, <2>2, <3>1
  <2>3. CASE x \notin book
    <3>1. /\ x.id = id /\ x.sym = sym /\ x.side = taker.side /\ x.price = taker.price
          /\ x.kind = taker.kind /\ Remaining(x) = taker.left
      BY <1>7, <2>3
    <3>2. owner'[x.id] = record
      <4> HIDE DEF record, id
      <4> QED BY <1>4, <2>1, <3>1 DEF EngineInv, TypeOK
    <3> QED BY <1>1, <1>3, <1>6, <3>1, <3>2 DEF Claims
  <2> QED BY <2>2, <2>3
<1>10. \A i \in OrderIds : owner'[i] # NoOwner => i < nextId
  <2> HIDE DEF record, id
  <2> QED BY <1>3, <1>4 DEF EngineInv, TypeOK, IdsFresh
<1> DEFINE r == RestingReserve
<1>11. r.cash \in Int /\ r.qty \in Int /\ r.short \in Int
  <2>1. position[a][sym] \in Int /\ reserved[a].qty[sym] \in Int
    BY <1>1 DEF EngineInv, TypeOK
  <2> DEFINE free == Greater(0, position[a][sym] - reserved[a].qty[sym])
             long == Lesser(taker.left, free)
  <2>2. long \in Int /\ taker.left - long \in Int
    BY <1>1, <2>1 DEF Lesser, Greater
  <2>3. risk[a] \in RiskConfig /\ fee \in Fees
    BY <1>1 DEF EngineInv, TypeOK
  <2>4. BuyReserve(risk[a], fee, taker.price, taker.left) \in Int
    BY <1>1, <2>3, ReserveType
  <2>5. ShortReserve(risk[a], taker.price, taker.left - long) \in Int
    <3> HIDE DEF long
    <3> QED BY <1>1, <2>2, <2>3, ReserveType
  <2> QED BY <2>2, <2>4, <2>5 DEF RestingReserve
<1>12. reserved' \in [Accounts -> Balances]
  <2>1. reserved \in [Accounts -> Balances]
    BY DEF EngineInv, TypeOK, Balances
  <2>2. reserved' = [reserved EXCEPT ![a].cash = @ + r.cash, ![a].short = @ + r.short,
                                     ![a].qty[sym] = @ + r.qty]
    BY DEF RestTaker
  <2> DEFINE x == r.cash
             y == r.short
             z == r.qty
  <2>3. x \in Int /\ y \in Int /\ z \in Int
    BY <1>11
  <2>4. [reserved EXCEPT ![a].cash = @ + x, ![a].short = @ + y, ![a].qty[sym] = @ + z]
            \in [Accounts -> Balances]
    <3> HIDE DEF x, y, z, a, sym
    <3> QED BY <1>1, <2>1, <2>3, ReservedBlocked
  <2> QED BY <2>2, <2>4
<1>13. held' \in [OrderIds -> Reserve]
  <2> DEFINE x == IF taker.side = "Bid" THEN r.cash ELSE held[id].cash
             y == IF r.qty > 0 THEN r.qty ELSE held[id].qty
             z == IF r.short > 0 THEN r.short ELSE held[id].short
  <2>1. held \in [OrderIds -> Reserve]
    BY DEF EngineInv, TypeOK
  <2>2. held' = [held EXCEPT ![id].cash = x, ![id].qty = y, ![id].short = z]
    BY DEF RestTaker
  <2>3. x \in Int /\ y \in Int /\ z \in Int
    BY <1>1, <1>11, <2>1 DEF Reserve
  <2>4. [held EXCEPT ![id].cash = x, ![id].qty = y, ![id].short = z] \in [OrderIds -> Reserve]
    <3> HIDE DEF x, y, z, id
    <3> QED BY <1>1, <2>1, <2>3, HeldSet
  <2> QED BY <2>2, <2>4
<1> QED BY <1>7, <1>8, <1>9, <1>10, <1>12, <1>13

LEMMA FinishOrderInv == EngineInv /\ FinishOrder => EngineInv'
<1> SUFFICES ASSUME EngineInv, FinishOrder PROVE EngineInv'
  OBVIOUS
<1>1. /\ GoodBook(book')
      /\ \A x \in book' : x.id < nextId /\ Claims(owner'[x.id], x)
      /\ \A i \in OrderIds : owner'[i] # NoOwner => i < nextId
      /\ owner' \in [OrderIds -> OwnerRecord \cup {NoOwner}]
      /\ reserved' \in [Accounts -> Balances]
      /\ held' \in [OrderIds -> Reserve]
  <2>1. CASE RemainderRests(taker)
    BY <2>1, RestTakerInv DEF FinishOrder
  <2>2. CASE ~RemainderRests(taker)
    BY <2>2, InvBook DEF FinishOrder, EngineInv, TypeOK, IdsFresh, Balances
  <2> QED BY <2>1, <2>2
<1>2. WellShaped' /\ BookOwned' /\ book' \subseteq BookOrder
  BY <1>1, BookInv
<1>3. pc' \in {"idle", "evaluate", "stops"} /\ taker' = NoTaker
  BY DEF FinishOrder, OrderDone, AfterOrder
<1>4. TypeOK'
  BY <1>1, <1>2, <1>3
     DEF EngineInv, TypeOK, Balances, FinishOrder, OrderDone, market, settings, Points
<1>5. IdsFresh'
  BY <1>1, <1>3 DEF IdsFresh, FinishOrder
<1> QED BY <1>2, <1>4, <1>5 DEF EngineInv, FinishOrder

\* The accounts and quantities a fill is settled with are typed.
LEMMA MakerType ==
    ASSUME TypeOK, NEW id \in OrderIds, NEW n \in Int
    PROVE  MakerAccount(id) \in Accounts /\ OpenQty(id, n) \in Int
BY AccountsAssumption DEF TypeOK, OwnerRecord, MakerAccount, OpenQty

\* The record of a maker follows its order, or outlives it when the fill breached the
\* price band: either way what is left of the order is claimed.
LEMMA FilledOwnerClaims ==
    ASSUME EngineInv, NEW m \in book, NEW n \in Nat \ {0}, n <= Fillable(m),
           owner' = FilledOwner(m, n) \/ owner' = owner,
           NEW x \in AfterFill(book, m, n)
    PROVE  Claims(owner'[x.id], x)
<1>1. GoodBook(book) /\ \A o \in book : Claims(owner[o.id], o)
  BY InvBook
<1>2. m.id \in OrderIds /\ owner \in [OrderIds -> OwnerRecord \cup {NoOwner}]
  BY DEF EngineInv, TypeOK, BookOrder
<1>3. (\E p \in book \ {m} : Alike(x, p)) \/ LeftOf(x, m, n)
  BY <1>1, FillGood
<1>4. CASE \E p \in book \ {m} : Alike(x, p)
  <2>1. PICK p \in book \ {m} : Alike(x, p)
    BY <1>4
  <2>2. p.id # m.id /\ p.id \in OrderIds /\ x.id = p.id
    BY <1>1, <2>1 DEF GoodBook, Distinct, Alike, BookOrder
  <2>3. owner'[x.id] = owner[p.id]
    BY <1>2, <2>2 DEF FilledOwner
  <2> QED BY <1>1, <2>1, <2>3, AlikeClaims
<1>5. CASE LeftOf(x, m, n)
  <2>1. Claims(owner[m.id], m) /\ m \in BookOrder /\ owner[m.id] \in OwnerRecord
    BY <1>1, <1>2 DEF GoodBook, Claims
  <2>2. Remaining(m) \in Int /\ Remaining(m) # n /\ Remaining(x) = Remaining(m) - n
    BY <1>5, <2>1 DEF LeftOf, BookOrder, Remaining
  <2>3. CASE owner' = owner
    <3>1. owner[m.id].qty \in Int
      BY <2>1 DEF OwnerRecord
    <3>2. owner[m.id].qty >= Remaining(x)
      BY <2>1, <2>2, <3>1 DEF Claims
    <3> QED BY <1>5, <2>1, <2>3, <3>2 DEF Claims, LeftOf
  <2>4. CASE owner' = FilledOwner(m, n)
    <3>1. owner'[m.id] = [owner[m.id] EXCEPT !.qty = Remaining(m) - n]
      BY <1>2, <2>1, <2>2, <2>4 DEF FilledOwner, Claims
    <3>2. /\ owner'[m.id] \in OwnerRecord
          /\ owner'[m.id].qty = Remaining(x)
          /\ owner'[m.id].sym = owner[m.id].sym /\ owner'[m.id].side = owner[m.id].side
          /\ owner'[m.id].price = owner[m.id].price /\ owner'[m.id].kind = owner[m.id].kind
      BY <2>1, <2>2, <3>1 DEF OwnerRecord
    <3>3. owner'[m.id] # NoOwner
      BY <3>2 DEF OwnerRecord, NoOwner
    <3>4. x.id = m.id /\ Remaining(x) \in Int
      BY <1>5, <2>2 DEF LeftOf
    <3> QED BY <1>5, <2>1, <3>2, <3>3, <3>4 DEF Claims, LeftOf
  <2> QED BY <2>3, <2>4
<1> QED BY <1>3, <1>4, <1>5

LEMMA FilledOwnerType ==
    ASSUME TypeOK, NEW m \in book, NEW n \in Int
    PROVE  /\ FilledOwner(m, n) \in [OrderIds -> OwnerRecord \cup {NoOwner}]
           /\ \A i \in OrderIds : FilledOwner(m, n)[i] # NoOwner => owner[i] # NoOwner
<1>1. m \in BookOrder /\ owner \in [OrderIds -> OwnerRecord \cup {NoOwner}]
  BY DEF TypeOK
<1>2. m.id \in OrderIds /\ Remaining(m) - n \in Int
  BY <1>1 DEF BookOrder, Remaining
<1>3. CASE owner[m.id] = NoOwner
  BY <1>1, <1>3 DEF FilledOwner
<1>4. CASE owner[m.id] # NoOwner
  <2>1. [owner[m.id] EXCEPT !.qty = Remaining(m) - n] \in OwnerRecord
    BY <1>1, <1>2, <1>4 DEF OwnerRecord
  <2> QED BY <1>1, <1>2, <1>4, <2>1 DEF FilledOwner
<1> QED BY <1>3, <1>4

LEMMA ExecuteFillInv == EngineInv /\ ExecuteFill => EngineInv'
<1> SUFFICES ASSUME EngineInv, ExecuteFill PROVE EngineInv'
  OBVIOUS
<1>1. PICK m \in NextMaker(taker) :
        LET n == FillQty(m, taker.left)
            sym == taker.sym
            a == MakerAccount(m.id)
            b == IF taker.side = "Bid" THEN taker.acct ELSE a
            s == IF taker.side = "Bid" THEN a ELSE taker.acct
            takerFee == FeeForNotional(fee, m.price * n, "taker")
            makerFee == FeeForNotional(fee, m.price * n, "maker")
            buyerFee == IF taker.side = "Bid" THEN takerFee ELSE makerFee
            sellerFee == IF taker.side = "Bid" THEN makerFee ELSE takerFee
            free == TradeRelease(m.id, Opposite(taker.side), n, OpenQty(m.id, n))
        IN  /\ book' = AfterFill(book, m, n)
            /\ Settle(sym, b, s, m.price, n, buyerFee, sellerFee)
            /\ reserved' = [reserved EXCEPT ![a].cash = @ - free.cash,
                                            ![a].short = @ - free.short,
                                            ![a].qty[sym] = @ - free.qty]
            /\ held' = [held EXCEPT ![m.id].cash = @ - free.cash,
                                    ![m.id].qty = @ - free.qty,
                                    ![m.id].short = @ - free.short]
            /\ taker' = [taker EXCEPT !.left = @ - n]
            /\ cascade' = (cascade \/ caller = "stops")
            /\ IF InBand(sym, m.price)
               THEN /\ Record(sym, b, s, m.price, n, buyerFee, sellerFee)
                    /\ owner' = FilledOwner(m, n)
                    /\ UNCHANGED <<pc, phase>>
               ELSE BandBreach(sym)
  BY DEF ExecuteFill
<1> DEFINE n == FillQty(m, taker.left)
           sym == taker.sym
           id == m.id
           a == MakerAccount(m.id)
           b == IF taker.side = "Bid" THEN taker.acct ELSE a
           s == IF taker.side = "Bid" THEN a ELSE taker.acct
           takerFee == FeeForNotional(fee, m.price * n, "taker")
           makerFee == FeeForNotional(fee, m.price * n, "maker")
           buyerFee == IF taker.side = "Bid" THEN takerFee ELSE makerFee
           sellerFee == IF taker.side = "Bid" THEN makerFee ELSE takerFee
           free == TradeRelease(m.id, Opposite(taker.side), n, OpenQty(m.id, n))
           x == free.cash
           y == free.short
           z == free.qty
<1>2. GoodBook(book) /\ \A o \in book : Claims(owner[o.id], o) /\ o.id < nextId
  BY InvBook
<1>3. m \in book /\ m \in BookOrder /\ Shaped(m) /\ id \in OrderIds /\ m.price \in Int
  BY <1>2 DEF NextMaker, Front, Resting, GoodBook, BookOrder
<1>4. /\ taker \in TakerRecord /\ sym \in Symbols /\ taker.acct \in Accounts
      /\ taker.left \in Nat \ {0} /\ pc = "match"
  <2>1. pc = "match"
    BY DEF ExecuteFill
  <2>2. taker \in TakerRecord
    BY <2>1 DEF EngineInv, TypeOK
  <2>3. taker.left > 0
    BY DEF NextMaker
  <2> QED BY <2>1, <2>2, <2>3 DEF TakerRecord
<1>5. n \in Nat \ {0} /\ n <= Fillable(m)
  BY <1>3, <1>4, FillQtyBound
<1>6. a \in Accounts /\ b \in Accounts /\ s \in Accounts /\ OpenQty(id, n) \in Int
  BY <1>3, <1>4, <1>5, MakerType DEF EngineInv
<1>7. buyerFee \in Int /\ sellerFee \in Int
  <2>1. m.price * n \in Int /\ fee \in Fees
    BY <1>3, <1>5 DEF EngineInv, TypeOK
  <2>2. takerFee \in Int /\ makerFee \in Int
    <3> HIDE DEF n
    <3> QED BY <2>1, FeeType
  <2> QED BY <2>2
<1>8. x \in Int /\ y \in Int /\ z \in Int
  <2>1. free \in Reserve
    <3> HIDE DEF n
    <3> QED BY <1>3, <1>5, <1>6, TradeReleaseType DEF EngineInv
  <2> QED BY <2>1 DEF Reserve
<1>9. /\ cash' \in [Accounts -> Int] /\ position' \in [Accounts -> [Symbols -> Int]]
      /\ mark' \in [Symbols -> Int]
  <2>1. Settle(sym, b, s, m.price, n, buyerFee, sellerFee)
    BY <1>1
  <2> HIDE DEF n, b, s, sym, buyerFee, sellerFee
  <2> QED BY <1>3, <1>4, <1>5, <1>6, <1>7, <2>1, SettleType DEF EngineInv
<1>10. booked' \in [Accounts -> Entries]
  <2>1. Record(sym, b, s, m.price, n, buyerFee, sellerFee) \/ booked' = booked
    BY <1>1 DEF BandBreach
  <2>2. CASE Record(sym, b, s, m.price, n, buyerFee, sellerFee)
    <3> HIDE DEF n, b, s, sym, buyerFee, sellerFee
    <3> QED BY <1>3, <1>4, <1>5, <1>6, <1>7, <2>2, RecordType DEF EngineInv
  <2>3. CASE booked' = booked
    BY <2>3 DEF EngineInv, TypeOK, Entries
  <2> QED BY <2>1, <2>2, <2>3
<1>11. reserved' \in [Accounts -> Balances]
  <2>1. reserved \in [Accounts -> Balances]
    BY DEF EngineInv, TypeOK, Balances
  <2>2. reserved' = [reserved EXCEPT ![a].cash = @ - x, ![a].short = @ - y,
                                     ![a].qty[sym] = @ - z]
    BY <1>1
  <2> HIDE DEF x, y, z, a, sym
  <2> QED BY ZenonT(30), <1>4, <1>6, <1>8, <2>1, <2>2, ReservedReleased
<1>12. held' \in [OrderIds -> Reserve]
  <2>1. held \in [OrderIds -> Reserve]
    BY DEF EngineInv, TypeOK
  <2>2. held' = [held EXCEPT ![id].cash = @ - x, ![id].qty = @ - z, ![id].short = @ - y]
    BY <1>1
  <2> HIDE DEF x, y, z, id
  <2> QED BY <1>3, <1>8, <2>1, <2>2, HeldReleased
<1>13. taker' \in TakerRecord /\ taker'.id = taker.id
  <2>1. taker' = [taker EXCEPT !.left = @ - n]
    BY <1>1
  <2> HIDE DEF n
  <2> QED BY <1>4, <1>5, <2>1 DEF TakerRecord
<1>14. pc' \in {"match", "rest"} /\ phase' \in [Symbols -> Phases]
  BY <1>1, <1>4 DEF EngineInv, TypeOK, BandBreach, Phases
<1>15. owner' = FilledOwner(m, n) \/ owner' = owner
  BY <1>1 DEF BandBreach
<1>16. /\ owner' \in [OrderIds -> OwnerRecord \cup {NoOwner}]
       /\ \A i \in OrderIds : owner'[i] # NoOwner => i < nextId
  <2> HIDE DEF n
  <2> QED BY <1>3, <1>5, <1>15, FilledOwnerType DEF EngineInv, TypeOK, IdsFresh
<1>17. book' = AfterFill(book, m, n)
  BY <1>1
<1>18. GoodBook(book') /\ \A o \in book' : Claims(owner'[o.id], o)
  <2> HIDE DEF n
  <2> QED BY <1>2, <1>3, <1>5, <1>15, <1>17, FillGood, FilledOwnerClaims
<1>19. \A o \in book' : \E p \in book : o.id = p.id
  <2> HIDE DEF n
  <2> QED BY <1>2, <1>3, <1>5, <1>17, FillGood DEF Alike, LeftOf
<1>20. WellShaped' /\ BookOwned' /\ book' \subseteq BookOrder
  BY <1>18, BookInv
<1>21. cascade' \in BOOLEAN
  BY <1>1 DEF EngineInv, TypeOK
<1>22. TypeOK'
  <2> HIDE DEF n, sym, id, a, b, s, buyerFee, sellerFee, x, y, z
  <2> QED BY <1>9, <1>10, <1>11, <1>12, <1>13, <1>14, <1>16, <1>20, <1>21
          DEF EngineInv, TypeOK, ExecuteFill, Balances, Entries, settings, Points
<1>23. IdsFresh'
  <2>1. nextId' = nextId /\ taker.id < nextId /\ \A o \in book : o.id < nextId /\ o.id # taker.id
    BY <1>4, Zenon DEF EngineInv, IdsFresh, ExecuteFill
  <2>2. \A o \in book' : o.id < nextId /\ o.id # taker.id
    BY <1>19, <2>1, Zenon
  <2>. QED  BY <1>13, <1>16, <2>1, <2>2, Zenon DEF IdsFresh
<1> QED BY <1>20, <1>22, <1>23 DEF EngineInv, ExecuteFill

-----------------------------------------------------------------------------
(* Auctions.                                                               *)

\* The order a fill takes in an uncross is the displayed order the trade was sized
\* with, unless it is a hidden one.
LEMMA FrontShown ==
    ASSUME EngineInv, NEW side \in Sides,
           NEW shown \in ShownFront(side), NEW o \in FillFront(side), o.kind # "Hidden"
    PROVE  o = shown
<1> DEFINE R == Resting(book, auction.sym, side)
           prices == DisplayedPrices(book, auction.sym, side)
           top == TopLevel(book, auction.sym, side)
<1>1. o \in R /\ (\A p \in R \ {o} : Ahead(o, p))
  BY DEF FillFront, Front
<1>2. shown \in top /\ \A p \in top \ {shown} : Ahead(shown, p)
  BY DEF ShownFront, Front
<1>3. \A p \in R : p \in BookOrder /\ Shaped(p) /\ p.side = side
  BY InvBook DEF Resting, GoodBook
<1>4. o.qty > 0 /\ o.price \in prices
  BY <1>1, <1>3 DEF Shaped, DisplayedPrices
<1>5. \A q \in prices : ~Better(side, q, o.price)
  <2> SUFFICES ASSUME NEW q \in prices PROVE ~Better(side, q, o.price)
    OBVIOUS
  <2>1. PICK p \in R : p.price = q
    BY DEF DisplayedPrices
  <2>2. p = o \/ Ahead(o, p)
    BY <1>1
  <2> QED BY <1>1, <1>3, <2>1, <2>2 DEF Ahead, Better, BookOrder
<1>6. o \in top /\ shown \in R
  BY <1>1, <1>2, <1>4, <1>5 DEF TopLevel
<1> SUFFICES ASSUME o # shown PROVE FALSE
  OBVIOUS
<1>7. Ahead(o, shown) /\ Ahead(shown, o)
  BY <1>1, <1>2, <1>6
<1>8. /\ o.price \in Int /\ shown.price \in Int
      /\ o.kind \in Kinds /\ shown.kind \in Kinds
      /\ o.place \in Int /\ shown.place \in Int
      /\ o.side = side /\ shown.side = side
  BY <1>1, <1>3, <1>6 DEF BookOrder
<1> QED BY <1>7, <1>8 DEF Ahead, Better, QueueRank, Kinds

\* So it gives all the trade asks for, or, if it is hidden, all it has.
LEMMA AuctionFillQty ==
    ASSUME EngineInv, NEW side \in Sides,
           NEW shown \in ShownFront(side), NEW o \in FillFront(side),
           NEW n \in Nat \ {0}, n <= shown.qty
    PROVE  FillQty(o, n) = n \/ (Remaining(o) = FillQty(o, n) /\ o.kind = "Hidden")
<1>1. o \in BookOrder /\ Shaped(o)
  BY InvBook DEF FillFront, Front, Resting, GoodBook
<1>2. CASE o.kind = "Hidden"
  BY <1>1, <1>2 DEF FillQty, Shaped, Remaining, BookOrder, Lesser
<1>3. CASE o.kind # "Hidden"
  BY <1>1, <1>3, FrontShown DEF FillQty, Lesser, BookOrder
<1> QED BY <1>2, <1>3

\* The order an auction trade is sized with shows something.
LEMMA ShownFrontQty ==
    ASSUME EngineInv, NEW side \in Sides, NEW shown \in ShownFront(side)
    PROVE  shown.qty \in Nat \ {0}
<1> DEFINE R == Resting(book, auction.sym, side)
           top == TopLevel(book, auction.sym, side)
<1>1. shown \in top /\ \A p \in top \ {shown} : Ahead(shown, p)
  BY DEF ShownFront, Front
<1>2. top \subseteq R /\ \A p \in R : p \in BookOrder /\ Shaped(p) /\ p.side = side
  BY InvBook DEF TopLevel, Resting, GoodBook
<1>3. PICK p \in R : p.qty > 0 /\ p.price = shown.price
  BY <1>1 DEF TopLevel, DisplayedPrices
<1>4. p \in top
  BY <1>1, <1>3 DEF TopLevel
<1>5. p.kind # "Hidden" /\ (p = shown \/ Ahead(shown, p))
  BY <1>1, <1>2, <1>3, <1>4 DEF Shaped, BookOrder
<1>6. shown.kind # "Hidden"
  BY <1>1, <1>2, <1>3, <1>5 DEF Ahead, Better, QueueRank, Kinds, BookOrder
<1> QED BY <1>1, <1>2, <1>6 DEF Shaped, BookOrder

\* One side of an auction trade of n, of which its order o gives k.
LEMMA AuctionSide ==
    ASSUME NEW B, GoodBook(B), NEW w \in [OrderIds -> OwnerRecord \cup {NoOwner}],
           \A p \in B : Claims(w[p.id], p),
           NEW o \in B, NEW n \in Nat \ {0}, NEW k \in Nat \ {0}, k <= Fillable(o),
           k = n \/ Remaining(o) = k
    PROVE  /\ GoodBook(AfterFill(B, o, k))
           /\ \A x \in AfterFill(B, o, k) : Claims(AuctionOwner(w, o.id, n)[x.id], x)
           /\ \A x \in AfterFill(B, o, k) : \E p \in B : x.id = p.id
           /\ AuctionOwner(w, o.id, n) \in [OrderIds -> OwnerRecord \cup {NoOwner}]
           /\ \A i \in OrderIds : AuctionOwner(w, o.id, n)[i] # NoOwner => w[i] # NoOwner
           /\ \A p \in B : p.side # o.side => p \in AfterFill(B, o, k)
<1> DEFINE v == AuctionOwner(w, o.id, n)
           C == AfterFill(B, o, k)
<1>1. /\ GoodBook(C) /\ \A p \in B : p.side # o.side => p \in C
      /\ \A x \in C : (\E p \in B \ {o} : Alike(x, p)) \/ LeftOf(x, o, k)
  BY FillGood
<1>2. o \in BookOrder /\ o.id \in OrderIds /\ Claims(w[o.id], o) /\ w[o.id] \in OwnerRecord
  BY DEF GoodBook, BookOrder, Claims
<1>3. [w[o.id] EXCEPT !.qty = @ - n] \in OwnerRecord
  BY <1>2 DEF OwnerRecord
<1>4. v = [w EXCEPT ![o.id] = IF w[o.id].qty = n THEN NoOwner
                              ELSE [w[o.id] EXCEPT !.qty = @ - n]]
  BY <1>2 DEF AuctionOwner, Claims
<1>5. v \in [OrderIds -> OwnerRecord \cup {NoOwner}]
  <2> HIDE DEF v
  <2> QED BY <1>3, <1>4
<1>6. \A i \in OrderIds : v[i] # NoOwner => w[i] # NoOwner
  <2> HIDE DEF v
  <2> QED BY <1>2, <1>4 DEF Claims
<1>7. ASSUME NEW x \in C
      PROVE  Claims(v[x.id], x) /\ \E p \in B : x.id = p.id
  <2>1. CASE \E p \in B \ {o} : Alike(x, p)
    <3>1. PICK p \in B \ {o} : Alike(x, p)
      BY <2>1
    <3>2. x.id = p.id /\ p.id # o.id /\ p.id \in OrderIds
      BY <3>1 DEF Alike, GoodBook, Distinct, BookOrder
    <3>3. v[x.id] = w[p.id]
      <4> HIDE DEF v
      <4> QED BY <1>4, <3>2
    <3> QED BY <3>1, <3>2, <3>3, AlikeClaims
  <2>2. CASE LeftOf(x, o, k)
    <3> DEFINE record == w[o.id]
    <3>1. Remaining(o) \in Int /\ record.qty \in Int /\ record.qty >= Remaining(o)
      BY <1>2 DEF BookOrder, Remaining, OwnerRecord, Claims
    <3>2. k = n /\ Remaining(x) = Remaining(o) - n /\ Remaining(x) > 0
      BY <2>2, <3>1 DEF LeftOf
    <3>3. record.qty # n /\ record.qty - n >= Remaining(x)
      BY <3>1, <3>2
    <3>4. v[x.id] = [record EXCEPT !.qty = @ - n]
      <4>1. x.id = o.id
        BY <2>2 DEF LeftOf
      <4> HIDE DEF v
      <4> QED BY <1>2, <1>4, <3>3, <4>1
    <3>5. /\ v[x.id] \in OwnerRecord /\ v[x.id].qty = record.qty - n
          /\ v[x.id].sym = record.sym /\ v[x.id].side = record.side
          /\ v[x.id].price = record.price /\ v[x.id].kind = record.kind
      <4> HIDE DEF v
      <4> QED BY <1>2, <1>3, <3>4 DEF OwnerRecord
    <3>6. v[x.id] # NoOwner
      <4> HIDE DEF v
      <4> QED BY <3>5 DEF OwnerRecord, NoOwner
    <3> QED BY <1>2, <2>2, <3>3, <3>5, <3>6 DEF Claims, LeftOf
  <2> QED BY <1>1, <2>1, <2>2
<1> QED BY <1>1, <1>5, <1>6, <1>7

LEMMA StartUncrossInv ==
    ASSUME EngineInv, NEW sym \in Symbols, StartUncross(sym)
    PROVE  EngineInv'
<1>1. PICK p \in ClearingPrice(book, sym, mark[sym]) :
        IF InBand(sym, p)
        THEN /\ auction' = [sym |-> sym, price |-> p, left |-> Matched(book, sym, p)]
             /\ pc' = "uncross"
             /\ UNCHANGED phase
        ELSE /\ phase' = [phase EXCEPT ![sym] = "Halted"]
             /\ UNCHANGED <<auction, pc>>
  BY DEF StartUncross
<1>2. p \in Int /\ Matched(book, sym, p) \in Int
  BY DEF ClearingPrice, DisplayedPrices, Resting, EngineInv, TypeOK, BookOrder
<1>3. \/ /\ auction' \in [sym : Symbols, price : Int, left : Int]
         /\ pc' = "uncross" /\ phase' = phase
      \/ auction' = auction /\ pc' = "idle" /\ phase' \in [Symbols -> Phases]
  <2>1. CASE InBand(sym, p)
    BY <1>1, <1>2, <2>1
  <2>2. CASE ~InBand(sym, p)
    <3>1. "Halted" \in Phases /\ phase \in [Symbols -> Phases] /\ pc = "idle"
      BY DEF EngineInv, TypeOK, StartUncross, Phases
    <3> QED BY <1>1, <2>2, <3>1
  <2> QED BY <2>1, <2>2
<1>4. TypeOK'
  BY <1>3 DEF EngineInv, TypeOK, StartUncross, funds, settings, Points
<1>5. IdsFresh'
  BY <1>3, NoIdGiven DEF StartUncross
<1> QED BY <1>4, <1>5, BookKept DEF EngineInv, StartUncross

LEMMA EndUncrossInv == EngineInv /\ EndUncross => EngineInv'
<1> SUFFICES ASSUME EngineInv, EndUncross PROVE EngineInv'
  OBVIOUS
<1>1. phase' \in [Symbols -> Phases]
  BY DEF EngineInv, TypeOK, EndUncross, Phases
<1>2. TypeOK'
  BY <1>1 DEF EngineInv, TypeOK, EndUncross, funds, settings, Points
<1>3. IdsFresh'
  BY NoIdGiven DEF EndUncross
<1> QED BY <1>2, <1>3, BookKept DEF EngineInv, EndUncross

LEMMA AuctionTradeInv == EngineInv /\ AuctionTrade => EngineInv'
<1> SUFFICES ASSUME EngineInv, AuctionTrade PROVE EngineInv'
  OBVIOUS
<1>1. PICK sb \in ShownFront("Bid"), sa \in ShownFront("Ask"),
           bid \in FillFront("Bid"), ask \in FillFront("Ask") :
        LET n == Lesser(auction.left, Lesser(sb.qty, sa.qty))
            sym == auction.sym
            b == MakerAccount(bid.id)
            s == MakerAccount(ask.id)
            buyerFee == FeeForNotional(fee, auction.price * n, "taker")
            sellerFee == FeeForNotional(fee, auction.price * n, "maker")
            fromBid == TradeRelease(bid.id, "Bid", n, OpenQty(bid.id, n))
            fromAsk == TradeRelease(ask.id, "Ask", n, OpenQty(ask.id, n))
        IN  /\ book' = AfterFill(AfterFill(book, bid, FillQty(bid, n)), ask, FillQty(ask, n))
            /\ Settle(sym, b, s, auction.price, n, buyerFee, sellerFee)
            /\ Record(sym, b, s, auction.price, n, buyerFee, sellerFee)
            /\ reserved' = [reserved EXCEPT ![b].cash = @ - fromBid.cash,
                                            ![s].short = @ - fromAsk.short,
                                            ![s].qty[sym] = @ - fromAsk.qty]
            /\ held' = [held EXCEPT ![bid.id].cash = @ - fromBid.cash,
                                    ![ask.id].qty = @ - fromAsk.qty,
                                    ![ask.id].short = @ - fromAsk.short]
            /\ owner' = AuctionOwner(AuctionOwner(owner, bid.id, n), ask.id, n)
            /\ auction' = [auction EXCEPT !.left = @ - n]
  BY DEF AuctionTrade
<1> DEFINE n == Lesser(auction.left, Lesser(sb.qty, sa.qty))
           sym == auction.sym
           b == MakerAccount(bid.id)
           s == MakerAccount(ask.id)
           buyerFee == FeeForNotional(fee, auction.price * n, "taker")
           sellerFee == FeeForNotional(fee, auction.price * n, "maker")
           fromBid == TradeRelease(bid.id, "Bid", n, OpenQty(bid.id, n))
           fromAsk == TradeRelease(ask.id, "Ask", n, OpenQty(ask.id, n))
           kb == FillQty(bid, n)
           ka == FillQty(ask, n)
           B == AfterFill(book, bid, kb)
           w == AuctionOwner(owner, bid.id, n)
           bidId == bid.id
           askId == ask.id
           x == fromBid.cash
           y == fromAsk.short
           z == fromAsk.qty
<1>2. GoodBook(book) /\ \A o \in book : Claims(owner[o.id], o) /\ o.id < nextId
  BY InvBook
<1>3. /\ bid \in book /\ bid \in BookOrder /\ Shaped(bid) /\ bid.side = "Bid"
      /\ ask \in book /\ ask \in BookOrder /\ Shaped(ask) /\ ask.side = "Ask"
      /\ bid.id \in OrderIds /\ ask.id \in OrderIds
  BY <1>2 DEF FillFront, Front, Resting, GoodBook, BookOrder
<1>4. auction \in [sym : Symbols, price : Int, left : Int] /\ auction.left > 0
  BY DEF EngineInv, TypeOK, AuctionTrade, Uncrossable
<1>5. n \in Nat \ {0} /\ n <= sb.qty /\ n <= sa.qty
  <2>1. sb.qty \in Nat \ {0} /\ sa.qty \in Nat \ {0}
    BY ShownFrontQty DEF Sides
  <2> QED BY <1>4, <2>1 DEF Lesser
<1>6. /\ kb \in Nat \ {0} /\ kb <= Fillable(bid) /\ (kb = n \/ Remaining(bid) = kb)
      /\ ka \in Nat \ {0} /\ ka <= Fillable(ask) /\ (ka = n \/ Remaining(ask) = ka)
  <2> HIDE DEF n
  <2> QED BY <1>3, <1>5, FillQtyBound, AuctionFillQty DEF Sides
<1>7. /\ GoodBook(B) /\ (\A p \in B : Claims(w[p.id], p))
      /\ (\A p \in B : \E q \in book : p.id = q.id) /\ ask \in B
      /\ w \in [OrderIds -> OwnerRecord \cup {NoOwner}]
      /\ \A i \in OrderIds : w[i] # NoOwner => owner[i] # NoOwner
  <2>1. owner \in [OrderIds -> OwnerRecord \cup {NoOwner}]
    BY DEF EngineInv, TypeOK
  <2> HIDE DEF n, kb
  <2> QED BY <1>2, <1>3, <1>5, <1>6, <2>1, AuctionSide
<1>8. book' = AfterFill(B, ask, ka) /\ owner' = AuctionOwner(w, ask.id, n)
  BY <1>1
<1>9. /\ GoodBook(book') /\ (\A p \in book' : Claims(owner'[p.id], p))
      /\ (\A p \in book' : \E q \in B : p.id = q.id)
      /\ owner' \in [OrderIds -> OwnerRecord \cup {NoOwner}]
      /\ \A i \in OrderIds : owner'[i] # NoOwner => w[i] # NoOwner
  <2> HIDE DEF n, ka, B, w
  <2> QED BY <1>5, <1>6, <1>7, <1>8, AuctionSide
<1>10. WellShaped' /\ BookOwned' /\ book' \subseteq BookOrder
  <2> HIDE DEF n, ka, B, w
  <2> QED BY <1>9, BookInv
<1>11. (\A p \in book' : p.id < nextId) /\ \A i \in OrderIds : owner'[i] # NoOwner => i < nextId
  <2> HIDE DEF n, ka, B, w
  <2> QED BY <1>2, <1>7, <1>9 DEF EngineInv, IdsFresh
<1>12. sym \in Symbols /\ b \in Accounts /\ s \in Accounts /\ auction.price \in Int
  BY <1>3, <1>4, MakerType DEF EngineInv
<1>13. buyerFee \in Int /\ sellerFee \in Int
  <2>1. auction.price * n \in Int /\ fee \in Fees
    BY <1>5, <1>12 DEF EngineInv, TypeOK
  <2> HIDE DEF n
  <2> QED BY <2>1, FeeType
<1>14. x \in Int /\ y \in Int /\ z \in Int
  <2>1. n \in Int
    BY <1>5
  <2> HIDE DEF n
  <2>2. OpenQty(bid.id, n) \in Int /\ OpenQty(ask.id, n) \in Int
    BY <1>3, <2>1, MakerType DEF EngineInv
  <2>3. fromBid \in Reserve /\ fromAsk \in Reserve
    BY <1>3, <2>1, <2>2, TradeReleaseType DEF EngineInv
  <2> QED BY <2>3 DEF Reserve
<1>15. /\ cash' \in [Accounts -> Int] /\ position' \in [Accounts -> [Symbols -> Int]]
       /\ mark' \in [Symbols -> Int] /\ booked' \in [Accounts -> Entries]
  <2>1. /\ Settle(sym, b, s, auction.price, n, buyerFee, sellerFee)
        /\ Record(sym, b, s, auction.price, n, buyerFee, sellerFee)
    BY <1>1
  <2> HIDE DEF n, b, s, sym, buyerFee, sellerFee
  <2> QED BY <1>5, <1>12, <1>13, <2>1, SettleType, RecordType DEF EngineInv
<1>16. reserved' \in [Accounts -> Balances]
  <2>1. reserved \in [Accounts -> Balances]
    BY DEF EngineInv, TypeOK, Balances
  <2>2. reserved' = [reserved EXCEPT ![b].cash = @ - x, ![s].short = @ - y,
                                     ![s].qty[sym] = @ - z]
    BY <1>1
  <2>3. /\ b \in Accounts /\ s \in Accounts /\ sym \in Symbols
        /\ x \in Int /\ y \in Int /\ z \in Int
    BY <1>12, <1>14
  <2> HIDE DEF x, y, z, b, s, sym
  <2>4. [reserved EXCEPT ![b].cash = @ - x, ![s].short = @ - y, ![s].qty[sym] = @ - z]
            \in [Accounts -> Balances]
    BY <2>1, <2>3, ReservedReleased
  <2> QED BY <2>2, <2>4
<1>17. held' \in [OrderIds -> Reserve]
  <2>1. held \in [OrderIds -> Reserve]
    BY DEF EngineInv, TypeOK
  <2>2. held' = [held EXCEPT ![bidId].cash = @ - x, ![askId].qty = @ - z,
                             ![askId].short = @ - y]
    BY <1>1
  <2>3. bidId \in OrderIds /\ askId \in OrderIds
    BY <1>3
  <2> HIDE DEF x, y, z, bidId, askId
  <2> QED BY <1>14, <2>1, <2>2, <2>3, HeldReleased
<1>18. auction' \in [sym : Symbols, price : Int, left : Int]
  <2>1. auction' = [auction EXCEPT !.left = @ - n]
    BY <1>1
  <2> HIDE DEF n
  <2> QED BY <1>4, <1>5, <2>1
<1>19. TypeOK'
  <2> HIDE DEF n, sym, b, s, buyerFee, sellerFee, x, y, z, B, w, ka, kb
  <2> QED BY <1>9, <1>10, <1>15, <1>16, <1>17, <1>18
          DEF EngineInv, TypeOK, AuctionTrade, Balances, Entries, settings, Points
<1>20. IdsFresh'
  BY <1>11 DEF IdsFresh, AuctionTrade
<1> QED BY <1>10, <1>19, <1>20 DEF EngineInv, AuctionTrade

-----------------------------------------------------------------------------
(* The theorems.                                                           *)

LEMMA NextInv == EngineInv /\ [Next]_vars => EngineInv'
<1> SUFFICES ASSUME EngineInv, [Next]_vars PROVE EngineInv'
  OBVIOUS
<1>1. CASE Submission
  BY <1>1, SubmitOrderInv, SubmitMarketInv, SubmitStopInv DEF Submission
<1>2. CASE Amendment
  BY <1>2, CancelStopInv, CancelInv, ReplaceInv, ReplaceStopInv DEF Amendment
<1>3. CASE MarketControl
  BY <1>3, StartUncrossInv, MarketControlInv DEF MarketControl
<1>4. CASE Setting
  BY <1>4, SettingInv
<1>5. CASE Internal
  BY <1>5, RefuseOrderInv, AdmitOrderInv, ExecuteFillInv, FinishOrderInv, ScanStopsInv,
     TriggerStopInv, EndPassInv, AuctionTradeInv, EndUncrossInv DEF Internal
<1>6. CASE UNCHANGED vars
  <2>1. TypeOK'
    BY <1>6 DEF EngineInv, TypeOK, vars, funds, market, settings, control
  <2>2. IdsFresh'
    BY <1>6, NoIdGiven DEF vars, control
  <2> QED BY <1>6, <2>1, <2>2, BookKept DEF EngineInv, vars
<1> QED BY <1>1, <1>2, <1>3, <1>4, <1>5, <1>6 DEF Next, Inspect

\* The invariant holds of every behavior of the engine.
THEOREM EngineInvariant == Spec => []EngineInv
BY InitInv, NextInv, PTL DEF Spec

\* Whatever calls are made, in whatever order, every variable keeps its type: no order
\* is left with a negative quantity and no call uses an id that was not given out.
THEOREM TypesHold == Spec => []TypeOK
<1>1. EngineInv => TypeOK
  BY DEF EngineInv
<1> QED BY <1>1, EngineInvariant, PTL

\* Every resting order always has something to trade and shows a clip if it is an
\* iceberg (fill_from_queue), so that no loop of the engine fills nothing for ever.
THEOREM OrdersWellShaped == Spec => []WellShaped
<1>1. EngineInv => WellShaped
  BY DEF EngineInv
<1> QED BY <1>1, EngineInvariant, PTL

\* Every resting order is always owned by one record that claims at least what is left
\* of it: no fill is ever settled with the default account for want of an owner
\* (matching_engine.cpp, order_ownership_by_id_.find(...) == end()), in the auction
\* and after a circuit breaker as well, where records and orders part ways.
THEOREM BookAlwaysOwned == Spec => []BookOwned
<1>1. EngineInv => BookOwned
  BY DEF EngineInv
<1> QED BY <1>1, EngineInvariant, PTL

\* An id never names two orders, a replacement and the order it replaces included.
THEOREM IdsStayFresh == Spec => []IdsFresh
<1>1. EngineInv => IdsFresh
  BY DEF EngineInv
<1> QED BY <1>1, EngineInvariant, PTL
=============================================================================
