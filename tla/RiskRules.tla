----------------------------- MODULE RiskRules -----------------------------
(***************************************************************************)
(* Fees, reserves and the pre-trade risk check of                          *)
(* engine/src/matching_engine.cpp, as operators on an account's numbers.   *)
(*                                                                         *)
(* The code computes rates in double.  A rate is an integer here: a fee    *)
(* rate r stands for r / FeeUnit, a margin ratio for r / RiskUnit, and     *)
(* every comparison is multiplied out, so that nothing is rounded that the *)
(* code does not round.  Margin ratios are per account; the per-symbol     *)
(* overrides only choose which ratio is used and are left out.             *)
(***************************************************************************)
EXTENDS Integers, FiniteSets, FiniteSetsExt

CONSTANTS
    Symbols,    \* the traded symbols
    FeeUnit,    \* denominator of fee rates
    RiskUnit    \* denominator of margin ratios and of the leverage cap

ASSUME UnitsAssumption == FeeUnit \in Nat \ {0} /\ RiskUnit \in Nat \ {0}

\* std::max of two numbers.
AtLeast(a, b) == IF a < b THEN b ELSE a
Magnitude(a) == IF a < 0 THEN -a ELSE a
CeilDiv(a, b) == (a + b - 1) \div b

\* FeeModel: maker and taker are rates, fixed is charged on every trade.
Fees == [maker : Nat, taker : Nat, fixed : Nat]

\* AccountRiskConfig, without the per-symbol overrides.
RiskConfig == [mode : {"CashOnly", "Margin"}, short : BOOLEAN,
               leverage : Nat, initial : Nat \ {0}, onShort : Nat \ {0}]

\* llround of a non-negative amount, plus the fixed fee.
FeeForNotional(fee, notional, role) ==
    ((2 * notional * fee[role] + FeeUnit) \div (2 * FeeUnit)) + fee.fixed

\* The fee a limit order is charged in advance: the larger of the two roles.
WorstFee(fee, notional) ==
    AtLeast(FeeForNotional(fee, notional, "taker"), FeeForNotional(fee, notional, "maker"))

\* What a resting bid blocks.
BuyReserve(config, fee, price, qty) ==
    LET due == price * qty + WorstFee(fee, price * qty)
    IN  IF config.mode = "CashOnly" THEN due ELSE CeilDiv(due * config.initial, RiskUnit)

\* What the short part of a resting ask blocks.
ShortReserve(config, price, qty) ==
    IF qty <= 0 THEN 0 ELSE CeilDiv(price * qty * config.onShort, RiskUnit)

\* The part of a reserve set free when n of the before units it covers trade.
ProportionalRelease(held, n, before) ==
    IF before <= 0 THEN held
    ELSE LET share == CeilDiv(held * n, before) IN IF held < share THEN held ELSE share

-----------------------------------------------------------------------------
(* Margin mode.  mark2[s] is twice the mark price of s, so that the middle *)
(* of the best prices is an integer.  position is a function on Symbols.   *)

SumOver(f(_)) == MapThenSumSet(f, Symbols)

Equity2(cash, position, mark2) ==
    LET value(s) == position[s] * mark2[s] IN 2 * cash + SumOver(value)

Exposure2(position, mark2) ==
    LET size(s) == Magnitude(position[s]) * mark2[s] IN SumOver(size)

\* Twice RiskUnit times the margin the positions and reserves use.
MarginUsed2(config, position, mark2, reserved) ==
    LET used(s) == Magnitude(position[s]) * mark2[s]
                     * (IF position[s] < 0 THEN config.onShort ELSE config.initial)
    IN  SumOver(used) + 2 * RiskUnit * reserved

\* available_buying_power, multiplied by 2 * RiskUnit * config.initial.
BuyingPower(config, cash, position, mark2, reserved) ==
    LET equity == Equity2(cash, position, mark2)
        leverageCap == AtLeast(0, equity * config.leverage
                            - RiskUnit * (Exposure2(position, mark2) + 2 * reserved))
        marginCap == AtLeast(0, RiskUnit * equity
                            - MarginUsed2(config, position, mark2, reserved))
    IN  IF leverageCap * config.initial < marginCap * RiskUnit
        THEN leverageCap * config.initial ELSE marginCap * RiskUnit

(***************************************************************************)
(* validate_order_risk for one account: cash and position are its          *)
(* balances, reserved its blocked cash, short margin and quantities, and   *)
(* credit the reserves of the order being replaced (all zero for a new     *)
(* one).                                                                   *)
(***************************************************************************)
NoCredit == [cash |-> 0, qty |-> 0, short |-> 0]

\* Mutants of BidAllowed: the reserves of resting bids are forgotten; the reserve of
\* the order being replaced is counted twice.
BidAllowedGross(config, fee, cash, position, mark2, reserved, credit, price, qty) ==
    cash >= price * qty + WorstFee(fee, price * qty)
BidAllowedTwice(config, fee, cash, position, mark2, reserved, credit, price, qty) ==
    cash - (reserved.cash - 2 * credit.cash) >= price * qty + WorstFee(fee, price * qty)

BidAllowed(config, fee, cash, position, mark2, reserved, credit, price, qty) ==
    LET due == price * qty + WorstFee(fee, price * qty)
        scale == 2 * RiskUnit * config.initial
    IN  IF config.mode = "CashOnly"
        THEN cash - (reserved.cash - credit.cash) >= due
        ELSE BuyingPower(config, cash, position, mark2, reserved.cash + reserved.short)
                 + (credit.cash + credit.short) * 2 * RiskUnit * RiskUnit
             >= due * scale

\* Mutant of AskAllowed: units promised to resting asks can be sold again.
AskAllowedGross(config, cash, position, mark2, reserved, credit, sym, price, qty) ==
    position[sym] >= qty

AskAllowed(config, cash, position, mark2, reserved, credit, sym, price, qty) ==
    LET free == position[sym] - (reserved.qty[sym] - credit.qty)
        short == qty - AtLeast(0, free)
        scale == 2 * RiskUnit * config.initial
    IN  \/ free >= qty
        \/ /\ config.short
           /\ IF config.mode = "CashOnly"
              THEN cash - (reserved.cash - credit.cash) - (reserved.short - credit.short)
                       >= ShortReserve(config, price, short)
              ELSE BuyingPower(config, cash, position, mark2, reserved.cash + reserved.short)
                           * config.onShort
                       + credit.short * RiskUnit * scale
                   >= price * short * scale * config.onShort
=============================================================================
