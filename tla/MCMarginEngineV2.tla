-------------------------- MODULE MCMarginEngineV2 --------------------------
(***************************************************************************)
(* Small instances of the cross-margin engine for TLC.                     *)
(***************************************************************************)
EXTENDS MarginEngineV2Properties, V2MarginPreflight

MCAccount == {"seller", "lender", "treasury"}
MCInitialCva == [seller |-> 2, lender |-> 0, treasury |-> 0]
MCInitialCash == [seller |-> 4, lender |-> 7, treasury |-> 20]

\* Wide bands: opening to 50 %, call from 60 %, liquidation from 90 % of the value.
MarginRisk ==
    [enabled |-> TRUE, initialLtvBps |-> 5000, maintenanceLtvBps |-> 6000,
     liquidationLtvBps |-> 9000, earlyMinHoldBps |-> 0, earlyBreakFeeBps |-> 0,
     defaultSpreadBps |-> 0, maxDefaultRateBps |-> 12000, liquidationFeeBps |-> 1000,
     auctionStartBps |-> 11000, auctionFloorBps |-> 2000, auctionDuration |-> 1,
     maxOracleAge |-> 2, marginCallPeriod |-> 1, staleOracleFallbackDelay |-> 1]

\* What governance may change while accounts are open.
TightMarginRisk == [MarginRisk EXCEPT !.initialLtvBps = 3000, !.auctionDuration = 2,
                                      !.marginCallPeriod = 2, !.liquidationLtvBps = 6500]

TighteningScheduled == {[config |-> TightMarginRisk, executeAfter |-> 0]}

MCMandate == [collateralAmount |-> 2, fundingTarget |-> 4, minimumFunding |-> 2,
              maxAnnualRateBps |-> 4000, duration |-> 1, window |-> 1,
              permittedLender |-> "none"]
\* A unit of collateral under two fills: the share of whoever claims it first rounds to zero.
OneUnitMandates == {[MCMandate EXCEPT !.collateralAmount = 1, !.fundingTarget = 2,
                                      !.minimumFunding = 1, !.permittedLender = "lender"]}
\* Room for three lenders in one netting set.
ThreeFills == {[MCMandate EXCEPT !.fundingTarget = 3, !.minimumFunding = 1]}
MCRiskConfigs == {TightMarginRisk}

MCApi == [sourcesRegistered |-> TRUE, marginEnabled |-> TRUE, policyPoolRegistered |-> TRUE,
          vaultCustodyReady |-> TRUE, escrowReady |-> TRUE, treasuryEligible |-> TRUE,
          allowedDurations |-> {1}]
=============================================================================
