----------------------------- MODULE RwcarMath -----------------------------
(***************************************************************************)
(* The integer arithmetic shared by the V2 contracts: Math.mulDiv in its   *)
(* two rounding modes, and the pricing formulas of RepoMarketV2 and        *)
(* RiskManagerV2 that are built from it.                                   *)
(*                                                                         *)
(* The scales are parameters.  10 ** decimals, 1e18 and 365 days do not    *)
(* fit TLC's integers and no property depends on their size, only on the   *)
(* rounding they cause; the runs give them small values, the theorems hold *)
(* for all of them.                                                        *)
(***************************************************************************)
EXTENDS Integers

CONSTANTS
    BPS_DENOMINATOR,    \* 10_000 in the contracts
    SECONDS_PER_YEAR,   \* a year, in clock units
    AssetScale,         \* 10 ** decimals of the CVA asset
    SettlementScale,    \* 10 ** decimals of the settlement token
    PriceScale          \* 1e18, the scale of priceE18

ASSUME ScalesAssumption ==
    /\ BPS_DENOMINATOR \in Nat \ {0}
    /\ SECONDS_PER_YEAR \in Nat \ {0}
    /\ AssetScale \in Nat \ {0}
    /\ SettlementScale \in Nat \ {0}
    /\ PriceScale \in Nat \ {0}

\* Math.mulDiv(a, b, c) and Math.mulDiv(a, b, c, Rounding.Ceil), for c > 0.
MulDiv(a, b, c) == (a * b) \div c
MulDivCeil(a, b, c) == (a * b + c - 1) \div c

Min2(a, b) == IF a <= b THEN a ELSE b
Max2(a, b) == IF a >= b THEN a ELSE b

(***************************************************************************)
(* RiskManagerV2.collateralValue: settlement units worth of an amount of   *)
(* collateral, rounded down twice.                                         *)
(***************************************************************************)
CollateralValue(amount, price) ==
    MulDiv(MulDiv(amount, price, AssetScale), SettlementScale, PriceScale)

\* RepoMarketV2._requireLtv: no value admits no debt.
WithinLtv(debt, value, maximumBps) ==
    /\ value # 0
    /\ MulDivCeil(debt, BPS_DENOMINATOR, value) <= maximumBps

\* RepoMarketV2._interest: simple ACT/365 interest, rounded up.
Interest(principal, annualRateBps, elapsed) ==
    IF annualRateBps = 0 \/ elapsed = 0
    THEN 0
    ELSE MulDivCeil(principal, annualRateBps * elapsed,
                    BPS_DENOMINATOR * SECONDS_PER_YEAR)

(***************************************************************************)
(* What an offer has handed over once `filled` of its target principal is  *)
(* filled.  A fill receives the difference of two such totals, so neither  *)
(* formula may depend on how the fills were split.                         *)
(***************************************************************************)
AllocatedCollateral(totalCollateral, filled, targetPrincipal) ==
    MulDiv(totalCollateral, filled, targetPrincipal)

CumulativeFee(filled, feeBps) == MulDivCeil(filled, feeBps, BPS_DENOMINATOR)
=============================================================================
