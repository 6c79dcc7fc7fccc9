--------------------------- MODULE MCRepoMarketV2 ---------------------------
(***************************************************************************)
(* Small instances of the repo market for TLC.  Accounts are strings so    *)
(* that endowments can be written as functions of them.                    *)
(***************************************************************************)
EXTENDS RepoMarketV2Properties, V2Preflight

MCAccount == {"seller", "lender", "treasury"}
MCInitialCva == [seller |-> 6, lender |-> 0, treasury |-> 0]
ThreeCva == [seller |-> 3, lender |-> 0, treasury |-> 0]
MCInitialCash == [seller |-> 6, lender |-> 9, treasury |-> 3]

\* Short oracle life, one-tick fallback delay, two-tick auctions from 110% down to 50%.
BaseRisk ==
    [enabled |-> TRUE, initialLtvBps |-> 8000, maintenanceLtvBps |-> 8500,
     liquidationLtvBps |-> 9000, earlyMinHoldBps |-> 5000, earlyBreakFeeBps |-> 3000,
     defaultSpreadBps |-> 10000, maxDefaultRateBps |-> 12000, liquidationFeeBps |-> 1000,
     auctionStartBps |-> 11000, auctionFloorBps |-> 5000, auctionDuration |-> 2,
     maxOracleAge |-> 2, marginCallPeriod |-> 1, staleOracleFallbackDelay |-> 1]

\* The same with auctions of one tick, for the runs that spend their steps elsewhere.
QuickRisk == [BaseRisk EXCEPT !.auctionDuration = 1]

\* What governance may change while positions are open.
TightRisk == [BaseRisk EXCEPT !.liquidationFeeBps = 4000, !.auctionFloorBps = 1,
                              !.auctionDuration = 3, !.maxOracleAge = 1,
                              !.earlyBreakFeeBps = 0]
DisabledRisk == [BaseRisk EXCEPT !.enabled = FALSE]

MCOffer == [collateralAmount |-> 5, targetPrincipal |-> 4, minimumFill |-> 2,
            annualRateBps |-> 4000, duration |-> 1, lifetime |-> 1,
            permittedBuyer |-> "none", earlyRepurchaseEnabled |-> TRUE]

CloseoutOffers == {MCOffer}
GovernedOffers == {[MCOffer EXCEPT !.collateralAmount = 3, !.targetPrincipal = 2]}
MCRiskConfigs == {TightRisk, DisabledRisk}

\* An API in service, and one that offers no entry at all.
OpenApi == [listed |-> TRUE, policyPoolRegistered |-> TRUE, feeTreasuryEligible |-> TRUE,
            feeTreasury |-> "treasury", allowedDurations |-> {1, 2}, registered |-> Modules]
ClosedApi == [OpenApi EXCEPT !.listed = FALSE, !.policyPoolRegistered = FALSE,
                             !.feeTreasuryEligible = FALSE]
=============================================================================
