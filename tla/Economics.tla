----------------------------- MODULE Economics -----------------------------
(***************************************************************************)
(* The API's own arithmetic (economics.ts and margin-risk.ts): what it     *)
(* shows of a fill, a payoff, an auction and a claim before anybody signs. *)
(* It is written again in TypeScript over the indexer's rows, not read     *)
(* from the contracts, so its agreement with them is something to check.   *)
(*                                                                         *)
(* A function that throws a RangeError has a definition X and its domain   *)
(* XDefined.                                                               *)
(***************************************************************************)
EXTENDS RwcarMath

\* ceilDiv, which never adds to the numerator.
CeilDiv(numerator, denominator) ==
    IF numerator = 0 THEN 0 ELSE (numerator - 1) \div denominator + 1

-----------------------------------------------------------------------------
(* A fill of an offer row.                                                  *)

FilledAfter(row, fill) == row.targetPrincipal - row.remainingPrincipal + fill

\* Deviation: the collateral follows from the fill alone.
FillCollateralAlone(row, fill) == MulDiv(row.totalCollateral, fill, row.targetPrincipal)

\* The last fill takes what is left; the others the difference of two totals.
FillCollateralQuoted(row, fill) ==
    (IF fill = row.remainingPrincipal
     THEN row.totalCollateral
     ELSE MulDiv(row.totalCollateral, FilledAfter(row, fill), row.targetPrincipal))
    - (row.totalCollateral - row.remainingCollateral)

FillFeeQuoted(row, fill, feeBps) ==
    CeilDiv(FilledAfter(row, fill) * feeBps, BPS_DENOMINATOR) - row.cumulativeFee

FillEconomicsDefined(row, fill, feeBps) ==
    /\ fill \in 1..row.remainingPrincipal
    /\ row.targetPrincipal > 0 /\ row.totalCollateral > 0
    /\ FillFeeQuoted(row, fill, feeBps) < fill

-----------------------------------------------------------------------------
(* The payoff of a position row, with the early terms of its offer row.     *)

AccruedQuoted(principal, rateBps, seconds) ==
    CeilDiv(principal * rateBps * seconds, BPS_DENOMINATOR * SECONDS_PER_YEAR)

FullTermQuoted(row) ==
    AccruedQuoted(row.principal, row.annualRateBps, row.maturityAt - row.acceptedAt)

BreakFeeQuoted(row) == CeilDiv(row.principal * row.breakFeeBps, BPS_DENOMINATOR)

EarlyInterestQuoted(row, t) ==
    LET elapsed == Max2(t - row.acceptedAt, 0)
        accrued == AccruedQuoted(row.principal, row.annualRateBps,
                                 Max2(elapsed, row.minimumHoldSeconds))
    IN  Min2(accrued + BreakFeeQuoted(row), FullTermQuoted(row))

DefaultInterestQuoted(row, t) ==
    IF t > row.maturityAt
    THEN AccruedQuoted(row.principal, row.defaultRateBps, t - row.maturityAt)
    ELSE 0

PayoffEconomicsDefined(row, t) == t >= row.maturityAt \/ row.earlyRepurchaseEnabled

PayoffQuoted(row, t) ==
    row.principal + (IF t < row.maturityAt THEN EarlyInterestQuoted(row, t) ELSE FullTermQuoted(row))
                  + DefaultInterestQuoted(row, t)

-----------------------------------------------------------------------------
(* Auctions and what a sale or a closeout in kind is worth to whom.         *)

AuctionPriceQuoted(startPrice, floorPrice, startsAt, endsAt, t) ==
    IF t <= startsAt THEN startPrice
    ELSE IF t >= endsAt THEN floorPrice
    ELSE startPrice - MulDiv(startPrice - floorPrice, t - startsAt, endsAt - startsAt)

Waterfall(price, frozenDebt, liquidationFeeBps) ==
    LET lenderProceeds == Min2(price, frozenDebt)
        remainder == price - lenderProceeds
        liquidationFee == Min2(remainder,
                               CeilDiv(price * liquidationFeeBps, BPS_DENOMINATOR))
    IN  [lenderProceeds |-> lenderProceeds, liquidationFee |-> liquidationFee,
         sellerSurplus |-> remainder - liquidationFee,
         lenderShortfall |-> frozenDebt - lenderProceeds]

ProRataClaim(totalPool, remainingPool, weight, totalWeight, unclaimed) ==
    IF unclaimed = 1 THEN remainingPool ELSE MulDiv(totalPool, weight, totalWeight)

ProRataClaimDefined(totalPool, remainingPool, weight, totalWeight, unclaimed) ==
    /\ weight > 0 /\ totalWeight > 0 /\ unclaimed > 0
    /\ ProRataClaim(totalPool, remainingPool, weight, totalWeight, unclaimed) \in 1..remainingPool

\* calculateMarginCollateralValue, and the same product in createOffer and fill.
CollateralValueQuoted(amount, price) ==
    MulDiv(MulDiv(amount, price, AssetScale), SettlementScale, PriceScale)

\* The LTV that is compared with a limit: beyond every limit without a value.
LtvExceeded(debt, value, limitBps) ==
    value = 0 \/ CeilDiv(debt * BPS_DENOMINATOR, value) > limitBps
=============================================================================
