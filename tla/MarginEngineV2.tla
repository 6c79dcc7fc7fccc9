--------------------------- MODULE MarginEngineV2 ---------------------------
(***************************************************************************)
(* The cross-margin engine: one seller's collateral in a master netting    *)
(* set, funded in exposures by several lenders, called, liquidated or      *)
(* distributed in kind as a whole.  It has a vault, an auction house and   *)
(* an escrow of its own; risk manager and oracle are shared with the       *)
(* isolated market.                                                        *)
(*                                                                         *)
(* As in RepoMarketV2 an action is one successful transaction, and CanX    *)
(* collects what action X requires, of the callees too.                    *)
(***************************************************************************)
EXTENDS CollateralVaultV2, DutchAuctionV2, SettlementEscrowV2, RiskManagerV2, ValuationFeed

CONSTANTS
    Owner,              \* owner() of the engine and of its modules
    FeeTreasury,        \* immutable here, unlike the market's
    ProtocolFeeBps, GracePeriod,        \* constructor arguments
    MaxFundingWindow,   \* MAX_FUNDING_WINDOW
    AccountParams,      \* the openMarginAccount arguments sellers may choose, of allowed durations
    ExposureIds,        \* finite prefix of the exposure ids
    IN_KIND_AUCTION_OFFSET,     \* 1 << 255 in the contract
    Rates,              \* annual rates lenders may bid
    ClaimAmounts,       \* amounts of settlement claimed from escrow
    Limits,             \* limits callers set: maxFee, maxFaceDebt, maxPrice
    Recipients,         \* accounts that withdrawals and claims are directed to
    Suspendable,        \* accounts the compliance pool may suspend and readmit
    MaxTime,            \* bound: the clock stops here
    EntryHorizon,       \* bound: nothing is deposited, opened or funded after it
    MaxInterventions    \* bound: governance, oracle and compliance interventions

\* The vault's pool for a closeout in kind has an id no auction can have.
InKindPool(m) == IN_KIND_AUCTION_OFFSET + m

ASSUME MarginAssumption ==
    /\ Owner \in Account /\ FeeTreasury \in Account
    /\ ProtocolFeeBps \in Nat /\ ProtocolFeeBps < BPS_DENOMINATOR
    /\ GracePeriod \in Nat \ {0}
    /\ MaxFundingWindow \in Nat
    /\ AccountParams \subseteq
          [collateralAmount: Nat, fundingTarget: Nat, minimumFunding: Nat,
           maxAnnualRateBps: Nat, duration: Nat \ {0}, window: Int,
           permittedLender: Account \cup {NoAccount}]
    /\ Rates \subseteq Nat /\ ClaimAmounts \subseteq Nat /\ Limits \subseteq Nat
    /\ Recipients \subseteq Account /\ Suspendable \subseteq Account
    /\ {MaxTime, EntryHorizon, MaxInterventions} \subseteq Nat
    /\ MarginIds \subseteq Nat \ {0} /\ ExposureIds \subseteq Nat \ {0}
    /\ IsFiniteSet(ExposureIds)
    /\ References = MarginIds
    /\ IN_KIND_AUCTION_OFFSET \in Nat \ ({0} \cup AuctionIds)
    /\ \A m \in MarginIds : InKindPool(m) \in AuctionIds

\* Auction ids have 256 bits: they do not run out before the accounts do.
ASSUME AuctionIdsSuffice == 1..Cardinality(MarginIds) \subseteq AuctionIds

VARIABLES
    accounts, nextAccountId,        \* _accounts
    exposures, nextExposureId,      \* _exposures
    accountForAuction,              \* 0 for an auction id not used yet
    admission,                      \* custodyReady, the registry's flag, entryPaused
    pauseGuardian,
    interventions                   \* counts what MaxInterventions bounds

recordVars == <<accounts, nextAccountId, exposures, nextExposureId, accountForAuction>>
adminVars == <<admission, pauseGuardian>>
engineVars == <<recordVars, adminVars, interventions>>
vars == <<engineVars, vaultVars, auctionVars, escrowVars, riskVars, feedVars, now>>

-----------------------------------------------------------------------------
(* Accounts and exposures.                                                  *)

AccountStatus == {"NONE", "OPEN", "MARGIN_CALL", "LIQUIDATING", "LIQUIDATED",
                  "AUCTION_FAILED", "CLOSED"}
ExposureStatus == {"NONE", "ACTIVE", "REPAID", "PROCEEDS_CLAIMED", "COLLATERAL_CLAIMED"}

\* An account that may still be added to, repaid, called or liquidated.
Running == {"OPEN", "MARGIN_CALL"}

\* What an account keeps of the risk configuration in force at its opening.
Snapshot == [maxOracleAge: Nat, auctionDuration: Nat, marginCallPeriod: Nat,
             staleOracleFallbackDelay: Nat, initialLtvBps: Nat, maintenanceLtvBps: Nat,
             liquidationLtvBps: Nat, auctionStartBps: Nat, auctionFloorBps: Nat,
             liquidationFeeBps: Nat]

SnapshotOf(c) ==
    [maxOracleAge |-> c.maxOracleAge, auctionDuration |-> c.auctionDuration,
     marginCallPeriod |-> c.marginCallPeriod,
     staleOracleFallbackDelay |-> c.staleOracleFallbackDelay,
     initialLtvBps |-> c.initialLtvBps, maintenanceLtvBps |-> c.maintenanceLtvBps,
     liquidationLtvBps |-> c.liquidationLtvBps, auctionStartBps |-> c.auctionStartBps,
     auctionFloorBps |-> c.auctionFloorBps, liquidationFeeBps |-> c.liquidationFeeBps]

\* The seller's funding mandate, fixed at the opening.
Mandate == [fundingTarget: Nat, minimumFunding: Nat, maxAnnualRateBps: Nat,
            duration: Nat, fundingExpiry: Nat, permittedLender: Account \cup {NoAccount}]

MarginAccount ==
    [status: AccountStatus, seller: Account \cup {NoAccount}, collateralAmount: Nat,
     mandate: Mandate, fundingClosed: BOOLEAN, totalFunded: Nat, feeCharged: Nat,
     totalFaceDebt: Nat, activeExposureCount: Nat, marginCallDeadline: Nat,
     paymentDefaultDeclared: BOOLEAN, defaultDeclaredAt: Nat, snapshot: Snapshot,
     auctionId: AuctionIds \cup {0}, claimPoolId: AuctionIds \cup {0}, inKindCloseout: BOOLEAN,
     frozenDebt: Nat, unclaimedExposureCount: Nat, liquidationProceeds: Nat,
     remainingProceeds: Nat, remainingCollateral: Nat]

Exposure == [status: ExposureStatus, accountId: MarginIds \cup {0},
             lender: Account \cup {NoAccount}, principal: Nat, faceDebt: Nat,
             openedAt: Nat, maturity: Nat]

NoMandate == [fundingTarget |-> 0, minimumFunding |-> 0, maxAnnualRateBps |-> 0,
              duration |-> 0, fundingExpiry |-> 0, permittedLender |-> NoAccount]

NoMarginAccount ==
    [status |-> "NONE", seller |-> NoAccount, collateralAmount |-> 0, mandate |-> NoMandate,
     fundingClosed |-> FALSE, totalFunded |-> 0, feeCharged |-> 0, totalFaceDebt |-> 0,
     activeExposureCount |-> 0, marginCallDeadline |-> 0, paymentDefaultDeclared |-> FALSE,
     defaultDeclaredAt |-> 0, snapshot |-> SnapshotOf(InitialRisk), auctionId |-> 0,
     claimPoolId |-> 0, inKindCloseout |-> FALSE, frozenDebt |-> 0,
     unclaimedExposureCount |-> 0, liquidationProceeds |-> 0, remainingProceeds |-> 0,
     remainingCollateral |-> 0]

NoExposure == [status |-> "NONE", accountId |-> 0, lender |-> NoAccount, principal |-> 0,
               faceDebt |-> 0, openedAt |-> 0, maturity |-> 0]

Init ==
    /\ VaultInit /\ AuctionInit /\ EscrowInit /\ RiskInit /\ FeedInit
    /\ now = 1
    /\ accounts = [m \in MarginIds |-> NoMarginAccount] /\ nextAccountId = 1
    /\ exposures = [e \in ExposureIds |-> NoExposure] /\ nextExposureId = 1
    /\ accountForAuction = [x \in AuctionIds |-> 0]
    /\ admission = [custodyReady |-> TRUE, enabled |-> TRUE, entryPaused |-> FALSE]
    /\ pauseGuardian = Owner
    /\ interventions = 0

-----------------------------------------------------------------------------
(* Health.                                                                  *)

\* accountLtv does not revert: an account without debt needs no price.
LtvKnown(account) ==
    account.totalFaceDebt = 0 \/ PriceIsFresh(account.snapshot.maxOracleAge)

\* accountLtv <= limitBps, for `debt` against `collateral` at the oracle's price.
Covers(collateral, debt, limitBps) ==
    debt = 0 \/ WithinLtv(debt, CollateralValue(collateral, valuation.price), limitBps)

LtvWithin(account, limitBps) ==
    Covers(account.collateralAmount, account.totalFaceDebt, limitBps)

\* A step that writes one account's record and nothing else of the engine's.
SetAccount(m, account) ==
    /\ accounts' = [accounts EXCEPT ![m] = account]
    /\ UNCHANGED <<nextAccountId, nextExposureId, accountForAuction, adminVars, interventions>>

-----------------------------------------------------------------------------
(* The seller's collateral.                                                 *)

CanDepositCollateral(caller, amount) ==
    /\ admission.custodyReady /\ admission.enabled
    /\ caller \in compliant
    /\ now <= EntryHorizon
    /\ CanDeposit(caller, amount)

DepositCollateral(caller, amount) ==
    /\ CanDepositCollateral(caller, amount)
    /\ DepositFor(caller, amount)
    /\ UNCHANGED <<engineVars, auctionVars, escrowVars, riskVars, feedVars, now>>

CanWithdrawAvailable(caller, amount, recipient) ==
    /\ {caller, recipient} \subseteq compliant
    /\ CanDebitAvailable(caller, amount) /\ CanPayOut(amount)

WithdrawAvailable(caller, amount, recipient) ==
    /\ CanWithdrawAvailable(caller, amount, recipient)
    /\ WithdrawTo(caller, recipient, amount)
    /\ UNCHANGED <<engineVars, auctionVars, escrowVars, riskVars, feedVars, now>>

ValidAccountParams(caller, q) ==
    /\ q.collateralAmount > 0 /\ q.fundingTarget > 0 /\ q.minimumFunding > 0
    /\ q.minimumFunding <= q.fundingTarget
    /\ q.maxAnnualRateBps <= MAX_RATE_BPS
    /\ 0 < q.window /\ q.window <= MaxFundingWindow
    /\ q.permittedLender # caller

CanOpenMarginAccount(caller, q) ==
    /\ ~admission.entryPaused /\ admission.custodyReady /\ admission.enabled
    /\ now <= EntryHorizon
    /\ ValidAccountParams(caller, q)
    /\ caller \in compliant
    /\ risk.enabled
    /\ nextAccountId \in MarginIds
    /\ marginLocked[nextAccountId].owner = NoAccount
    /\ CanDebitAvailable(caller, q.collateralAmount)

OpenMarginAccount(caller, q) ==
    /\ CanOpenMarginAccount(caller, q)
    /\ accounts' = [accounts EXCEPT ![nextAccountId] =
          [NoMarginAccount EXCEPT
              !.status = "OPEN", !.seller = caller, !.collateralAmount = q.collateralAmount,
              !.mandate = [fundingTarget |-> q.fundingTarget,
                           minimumFunding |-> q.minimumFunding,
                           maxAnnualRateBps |-> q.maxAnnualRateBps, duration |-> q.duration,
                           fundingExpiry |-> now + q.window,
                           permittedLender |-> q.permittedLender],
              !.snapshot = SnapshotOf(risk)]]
    /\ nextAccountId' = nextAccountId + 1
    /\ ReserveMargin(caller, nextAccountId, q.collateralAmount)
    /\ UNCHANGED <<exposures, nextExposureId, accountForAuction, adminVars, interventions>>
    /\ UNCHANGED <<auctionVars, escrowVars, riskVars, feedVars, now>>

AddMarginCollateral(caller, m, amount) ==
    /\ accounts[m].status \in Running
    /\ caller = accounts[m].seller
    /\ AddMargin(caller, m, amount)
    /\ SetAccount(m, [accounts[m] EXCEPT !.collateralAmount = @ + amount])
    /\ UNCHANGED <<exposures, auctionVars, escrowVars, riskVars, feedVars, now>>

\* releaseMargin followed by withdrawTo in one transaction.
ReleaseMarginTo(owner, m, recipient, amount) ==
    /\ Owns(marginLocked[m], owner)
    /\ CanDebitBucket(marginLocked[m], amount)
    /\ marginLocked' = [marginLocked EXCEPT ![m] = Debited(@, amount)]
    /\ PayOut(recipient, amount)
    /\ UNCHANGED <<availableBalance, offerReserved, positionLocked, auctionLocked>>

WithdrawExcessCollateral(caller, m, amount, recipient) ==
    LET account == accounts[m]
        remaining == account.collateralAmount - amount
    IN  /\ account.status = "OPEN"
        /\ caller = account.seller
        /\ amount \in 1..account.collateralAmount
        /\ {caller, recipient} \subseteq compliant
        /\ LtvKnown(account)
        /\ Covers(remaining, account.totalFaceDebt, account.snapshot.initialLtvBps)
        /\ ReleaseMarginTo(caller, m, recipient, amount)
        /\ SetAccount(m, [account EXCEPT !.collateralAmount = remaining])
        /\ UNCHANGED <<exposures, auctionVars, escrowVars, riskVars, feedVars, now>>

CanCloseMarginAccount(caller, m) ==
    LET account == accounts[m]
    IN  /\ account.status = "OPEN"
        /\ caller = account.seller
        /\ account.totalFaceDebt = 0
        /\ account.collateralAmount > 0 =>
              /\ Owns(marginLocked[m], caller)
              /\ CanDebitBucket(marginLocked[m], account.collateralAmount)

CloseMarginAccount(caller, m) ==
    LET account == accounts[m]
    IN  /\ CanCloseMarginAccount(caller, m)
        /\ SetAccount(m, [account EXCEPT !.status = "CLOSED", !.collateralAmount = 0])
        /\ IF account.collateralAmount > 0
           THEN ReleaseMargin(caller, m, account.collateralAmount)
           ELSE UNCHANGED vaultVars
        /\ UNCHANGED <<exposures, auctionVars, escrowVars, riskVars, feedVars, now>>

-----------------------------------------------------------------------------
(* Funding and repayment.                                                   *)

CloseFunding(caller, m) ==
    /\ accounts[m].status \in Running
    /\ caller = accounts[m].seller
    /\ ~accounts[m].fundingClosed
    /\ SetAccount(m, [accounts[m] EXCEPT !.fundingClosed = TRUE])
    /\ UNCHANGED <<exposures, vaultVars, auctionVars, escrowVars, riskVars, feedVars, now>>

FaceDebt(account, principal, annualRateBps) ==
    principal + Interest(principal, annualRateBps, account.mandate.duration)
FundingFee(account, principal) ==
    CumulativeFee(account.totalFunded + principal, ProtocolFeeBps) - account.feeCharged

\* The seller's mandate admits this fill.
WithinMandate(lender, account, principal, annualRateBps) ==
    LET remaining == account.mandate.fundingTarget - account.totalFunded
    IN  /\ ~account.fundingClosed
        /\ now <= account.mandate.fundingExpiry
        /\ account.mandate.permittedLender \in {NoAccount, lender}
        /\ principal \in 1..remaining
        /\ principal >= account.mandate.minimumFunding \/ principal = remaining
        /\ annualRateBps <= account.mandate.maxAnnualRateBps

CanFund(lender, account, principal, annualRateBps, maxFee) ==
    /\ account.status = "OPEN"
    /\ lender # account.seller
    /\ WithinMandate(lender, account, principal, annualRateBps)
    /\ risk.enabled
    /\ {lender, account.seller} \subseteq compliant
    /\ PriceIsFresh(Min2(account.snapshot.maxOracleAge, risk.maxOracleAge))
    /\ Covers(account.collateralAmount,
              account.totalFaceDebt + FaceDebt(account, principal, annualRateBps),
              Min2(account.snapshot.initialLtvBps, risk.initialLtvBps))
    /\ FundingFee(account, principal) <= maxFee
    /\ FundingFee(account, principal) < principal

Funded(account, principal, annualRateBps) ==
    [account EXCEPT !.totalFunded = @ + principal,
                    !.totalFaceDebt = @ + FaceDebt(account, principal, annualRateBps),
                    !.feeCharged = @ + FundingFee(account, principal),
                    !.activeExposureCount = @ + 1,
                    !.fundingClosed = (account.totalFunded + principal
                                          = account.mandate.fundingTarget)]

CanFundMarginAccount(lender, m, principal, annualRateBps, maxFee) ==
    LET account == accounts[m]
        fee == FundingFee(account, principal)
        proceedsPaid == PaidTo(book, lender, account.seller, principal - fee)
    IN  /\ ~admission.entryPaused /\ admission.custodyReady /\ admission.enabled
        /\ now <= EntryHorizon
        /\ nextExposureId \in ExposureIds
        /\ CanFund(lender, account, principal, annualRateBps, maxFee)
        /\ CanPay(book, lender, principal - fee)
        /\ fee > 0 => CanPayOrEscrow(proceedsPaid, lender, FeeTreasury, fee)

FundMarginAccount(lender, m, principal, annualRateBps, maxFee) ==
    LET account == accounts[m]
        fee == FundingFee(account, principal)
        proceedsPaid == PaidTo(book, lender, account.seller, principal - fee)
    IN  /\ CanFundMarginAccount(lender, m, principal, annualRateBps, maxFee)
        /\ exposures' = [exposures EXCEPT ![nextExposureId] =
              [status |-> "ACTIVE", accountId |-> m, lender |-> lender,
               principal |-> principal,
               faceDebt |-> FaceDebt(account, principal, annualRateBps),
               openedAt |-> now, maturity |-> now + account.mandate.duration]]
        /\ nextExposureId' = nextExposureId + 1
        /\ accounts' = [accounts EXCEPT ![m] = Funded(account, principal, annualRateBps)]
        /\ book' = PaidOrEscrowed(proceedsPaid, lender, FeeTreasury, fee)
        /\ UNCHANGED <<nextAccountId, accountForAuction, adminVars, interventions>>
        /\ UNCHANGED <<vaultVars, auctionVars, compliant, riskVars, feedVars, now>>

\* The last repayment clears a declared default.
Repaid(account, faceDebt) ==
    [account EXCEPT !.totalFaceDebt = @ - faceDebt,
                    !.activeExposureCount = @ - 1,
                    !.paymentDefaultDeclared = @ /\ account.totalFaceDebt # faceDebt,
                    !.defaultDeclaredAt = IF account.totalFaceDebt = faceDebt THEN 0 ELSE @]

\* A lender who may not hold settlement now is credited in escrow, if the seller says so.
CanRepayExposure(caller, e, m, maxFaceDebt, useEscrow) ==
    LET exposure == exposures[e]
    IN  /\ exposure.accountId = m
        /\ exposure.status = "ACTIVE"
        /\ accounts[m].status \in Running
        /\ caller = accounts[m].seller
        /\ exposure.faceDebt <= maxFaceDebt
        /\ caller \in compliant
        /\ CanPay(book, caller, exposure.faceDebt)
        /\ IF useEscrow
           THEN CanRecordClaims(PaidToEscrow(book, caller, exposure.faceDebt), exposure.faceDebt)
           ELSE exposure.lender \in compliant

RepayDirect(exposure, seller) ==
    /\ exposure.lender \in compliant
    /\ book' = PaidTo(book, seller, exposure.lender, exposure.faceDebt)

RepayEscrowed(exposure, seller) ==
    LET deposited == PaidToEscrow(book, seller, exposure.faceDebt)
    IN  /\ CanRecordClaims(deposited, exposure.faceDebt)
        /\ book' = WithClaim(deposited, exposure.lender, exposure.faceDebt)

RepayExposure(caller, e, maxFaceDebt, useEscrow) ==
    \E m \in MarginIds :
        /\ CanRepayExposure(caller, e, m, maxFaceDebt, useEscrow)
        /\ exposures' = [exposures EXCEPT ![e].status = "REPAID"]
        /\ SetAccount(m, Repaid(accounts[m], exposures[e].faceDebt))
        /\ IF useEscrow THEN RepayEscrowed(exposures[e], caller)
                        ELSE RepayDirect(exposures[e], caller)
        /\ UNCHANGED <<vaultVars, auctionVars, compliant, riskVars, feedVars, now>>

-----------------------------------------------------------------------------
(* Default, margin call and cure.                                           *)

CanDeclarePaymentDefault(e, m) ==
    /\ exposures[e].accountId = m
    /\ exposures[e].status = "ACTIVE"
    /\ now > exposures[e].maturity + GracePeriod
    /\ accounts[m].status \in Running
    /\ accounts[m].totalFaceDebt # 0
    /\ ~accounts[m].paymentDefaultDeclared

DeclarePaymentDefault(e) ==
    \E m \in MarginIds :
        /\ CanDeclarePaymentDefault(e, m)
        /\ SetAccount(m, [accounts[m] EXCEPT !.paymentDefaultDeclared = TRUE,
                                             !.defaultDeclaredAt = now])
        /\ UNCHANGED <<exposures, vaultVars, auctionVars, escrowVars, riskVars, feedVars, now>>

OpenMarginCall(m) ==
    LET account == accounts[m]
    IN  /\ account.status = "OPEN"
        /\ LtvKnown(account)
        /\ ~LtvWithin(account, account.snapshot.maintenanceLtvBps)
        /\ SetAccount(m, [account EXCEPT
                            !.status = "MARGIN_CALL",
                            !.marginCallDeadline = now + account.snapshot.marginCallPeriod])
        /\ UNCHANGED <<exposures, vaultVars, auctionVars, escrowVars, riskVars, feedVars, now>>

CanCureMarginCall(m) ==
    LET account == accounts[m]
    IN  /\ account.status = "MARGIN_CALL"
        /\ LtvKnown(account)
        /\ LtvWithin(account, account.snapshot.maintenanceLtvBps)
        /\ ~account.paymentDefaultDeclared

CureMarginCall(m) ==
    /\ CanCureMarginCall(m)
    /\ SetAccount(m, [accounts[m] EXCEPT !.status = "OPEN", !.marginCallDeadline = 0])
    /\ UNCHANGED <<exposures, vaultVars, auctionVars, escrowVars, riskVars, feedVars, now>>

-----------------------------------------------------------------------------
(* Liquidation of the netting set.                                          *)

\* Deviation: a call that ran out counts even if the price has recovered since.
UncuredCallOnDeadline(account) ==
    account.status = "MARGIN_CALL" /\ now > account.marginCallDeadline

UncuredCall(account) ==
    /\ account.status = "MARGIN_CALL"
    /\ now > account.marginCallDeadline
    /\ ~LtvWithin(account, account.snapshot.maintenanceLtvBps)

LiquidationOpen(account) ==
    \/ account.paymentDefaultDeclared
    \/ ~LtvWithin(account, account.snapshot.liquidationLtvBps)
    \/ UncuredCall(account)

\* Deviation: a floor may round to zero, which the auction house refuses.
AuctionFloorUnclamped(account, value) ==
    MulDiv(value, account.snapshot.auctionFloorBps, BPS_DENOMINATOR)
AuctionFloor(account, value) ==
    Max2(1, MulDiv(value, account.snapshot.auctionFloorBps, BPS_DENOMINATOR))
AuctionStart(account, value) ==
    Max2(AuctionFloor(account, value),
         Max2(account.totalFaceDebt,
              MulDivCeil(value, account.snapshot.auctionStartBps, BPS_DENOMINATOR)))

\* Debt and claimants are frozen together; what is due is shared over them.
Frozen(account, status, auctionId, pool) ==
    [account EXCEPT !.status = status, !.auctionId = auctionId, !.claimPoolId = pool,
                    !.inKindCloseout = (auctionId = 0),
                    !.frozenDebt = account.totalFaceDebt,
                    !.unclaimedExposureCount = account.activeExposureCount]

CanStartMarginLiquidation(m) ==
    LET account == accounts[m]
        value == CollateralValue(account.collateralAmount, valuation.price)
    IN  /\ account.status \in Running
        /\ account.totalFaceDebt # 0
        /\ LtvKnown(account)
        /\ LiquidationOpen(account)
        /\ CanCreate(m, account.collateralAmount, AuctionStart(account, value),
                     AuctionFloor(account, value), account.snapshot.auctionDuration)
        /\ Owns(marginLocked[m], account.seller) /\ marginLocked[m].amount > 0
        /\ auctionLocked[nextAuctionId].owner = NoAccount

StartMarginLiquidation(m) ==
    LET account == accounts[m]
        value == CollateralValue(account.collateralAmount, valuation.price)
    IN  /\ CanStartMarginLiquidation(m)
        /\ Create(m, account.collateralAmount, AuctionStart(account, value),
                  AuctionFloor(account, value), account.snapshot.auctionDuration)
        /\ accounts' = [accounts EXCEPT ![m] =
                           Frozen(account, "LIQUIDATING", nextAuctionId, nextAuctionId)]
        /\ accountForAuction' = [accountForAuction EXCEPT ![nextAuctionId] = m]
        /\ AllocateMarginAuction(account.seller, m, nextAuctionId)
        /\ UNCHANGED <<nextAccountId, exposures, nextExposureId, adminVars, interventions>>
        /\ UNCHANGED <<escrowVars, riskVars, feedVars, now>>

CanStartInKindOracleFallback(m) ==
    LET account == accounts[m]
    IN  /\ account.status \in Running
        /\ account.paymentDefaultDeclared
        /\ now > account.defaultDeclaredAt + account.snapshot.staleOracleFallbackDelay
        /\ ~PriceIsFresh(account.snapshot.maxOracleAge)
        /\ Owns(marginLocked[m], account.seller) /\ marginLocked[m].amount > 0
        /\ auctionLocked[InKindPool(m)].owner = NoAccount

StartInKindOracleFallback(m) ==
    LET account == accounts[m]
    IN  /\ CanStartInKindOracleFallback(m)
        /\ SetAccount(m, [Frozen(account, "AUCTION_FAILED", 0, InKindPool(m))
                            EXCEPT !.remainingCollateral = account.collateralAmount])
        /\ AllocateMarginAuction(account.seller, m, InKindPool(m))
        /\ UNCHANGED <<exposures, auctionVars, escrowVars, riskVars, feedVars, now>>

\* How the sale price is shared; the lenders' part waits in escrow for their claims.
LenderPool(account, price) == Min2(price, account.frozenDebt)
LiquidationFee(account, price) ==
    Min2(price - LenderPool(account, price),
         MulDivCeil(price, account.snapshot.liquidationFeeBps, BPS_DENOMINATOR))
SellerSurplus(account, price) ==
    price - LenderPool(account, price) - LiquidationFee(account, price)

\* The account an auction decides.
InAuction(x, m) ==
    /\ accountForAuction[x] = m
    /\ accounts[m].status = "LIQUIDATING"
    /\ accounts[m].auctionId = x

BuyMarginAuction(caller, x, maxPrice) ==
    \E m \in MarginIds :
        LET account == accounts[m]
            price == PriceAt(auctions[x], now)
            deposited == PaidToEscrow(book, caller, price)
        IN  /\ InAuction(x, m)
            /\ caller # account.seller
            /\ caller \in compliant
            /\ MarkSold(x, caller, maxPrice)
            /\ CanPay(book, caller, price)
            /\ CanRecordClaims(deposited, price - LenderPool(account, price))
            /\ book' = WithClaim(
                          WithClaim(deposited, FeeTreasury, LiquidationFee(account, price)),
                          account.seller, SellerSurplus(account, price))
            /\ SetAccount(m, [account EXCEPT
                                !.status = "LIQUIDATED",
                                !.liquidationProceeds = LenderPool(account, price),
                                !.remainingProceeds = LenderPool(account, price)])
            /\ ReleaseAuction(x, caller)
            /\ UNCHANGED <<exposures, compliant, riskVars, feedVars, now>>

FinalizeFailedMarginAuction(x) ==
    \E m \in MarginIds :
        /\ InAuction(x, m)
        /\ MarkFailed(x)
        /\ SetAccount(m, [accounts[m] EXCEPT !.status = "AUCTION_FAILED",
                                             !.remainingCollateral = accounts[m].collateralAmount])
        /\ UNCHANGED <<exposures, vaultVars, escrowVars, riskVars, feedVars, now>>

-----------------------------------------------------------------------------
(* The lenders' claims: a share by face debt, and to the last all that is   *)
(* left.                                                                    *)

\* Deviation: shares are taken of what is left, not of the frozen pool.
ProRataShareOfRest(account, exposure, pool, remaining) ==
    IF account.unclaimedExposureCount = 1
    THEN remaining
    ELSE MulDiv(remaining, exposure.faceDebt, account.frozenDebt)

ProRataShare(account, exposure, pool, remaining) ==
    IF account.unclaimedExposureCount = 1
    THEN remaining
    ELSE MulDiv(pool, exposure.faceDebt, account.frozenDebt)

ProceedsShare(e, m) ==
    ProRataShare(accounts[m], exposures[e], accounts[m].liquidationProceeds,
                 accounts[m].remainingProceeds)

CanMaterializeLiquidationClaim(e, m) ==
    /\ exposures[e].accountId = m
    /\ accounts[m].status = "LIQUIDATED"
    /\ exposures[e].status = "ACTIVE"
    /\ ProceedsShare(e, m) <= accounts[m].remainingProceeds
    /\ CanRecordClaims(book, ProceedsShare(e, m))

MaterializeLiquidationClaim(e) ==
    \E m \in MarginIds :
        LET account == accounts[m]
            amount == ProceedsShare(e, m)
        IN  /\ CanMaterializeLiquidationClaim(e, m)
            /\ exposures' = [exposures EXCEPT ![e].status = "PROCEEDS_CLAIMED"]
            /\ SetAccount(m, [account EXCEPT !.unclaimedExposureCount = @ - 1,
                                             !.remainingProceeds = @ - amount])
            /\ book' = WithClaim(book, exposures[e].lender, amount)
            /\ UNCHANGED <<vaultVars, auctionVars, compliant, riskVars, feedVars, now>>

\* Deviation: the vault is asked to release a share of zero, and refuses.
CanPayFromPoolAlways(pool, amount) ==
    CanDebitBucket(auctionLocked[pool], amount) /\ CanPayOut(amount)

\* A share that rounds to zero is closed without a transfer.
CanPayFromPool(pool, amount) ==
    amount > 0 => CanDebitBucket(auctionLocked[pool], amount) /\ CanPayOut(amount)

\* Deviation: the first claimant takes the whole pool, even with a share of zero.
PayFromPoolWhole(pool, recipient, amount) == ReleaseAuction(pool, recipient)

PayFromPool(pool, recipient, amount) ==
    IF amount > 0 THEN ReleaseAuctionPartial(pool, recipient, amount) ELSE UNCHANGED vaultVars

CollateralShare(e, m) ==
    ProRataShare(accounts[m], exposures[e], accounts[m].collateralAmount,
                 accounts[m].remainingCollateral)

CanClaimFailedCollateral(caller, e, m, recipient) ==
    /\ exposures[e].accountId = m
    /\ accounts[m].status = "AUCTION_FAILED"
    /\ exposures[e].status = "ACTIVE"
    /\ caller = exposures[e].lender
    /\ {caller, recipient} \subseteq compliant
    /\ CollateralShare(e, m) <= accounts[m].remainingCollateral
    /\ CanPayFromPool(accounts[m].claimPoolId, CollateralShare(e, m))

ClaimFailedCollateral(caller, e, recipient) ==
    \E m \in MarginIds :
        LET account == accounts[m]
            amount == CollateralShare(e, m)
        IN  /\ CanClaimFailedCollateral(caller, e, m, recipient)
            /\ exposures' = [exposures EXCEPT ![e].status = "COLLATERAL_CLAIMED"]
            /\ SetAccount(m, [account EXCEPT !.unclaimedExposureCount = @ - 1,
                                             !.remainingCollateral = @ - amount])
            /\ PayFromPool(account.claimPoolId, recipient, amount)
            /\ UNCHANGED <<auctionVars, escrowVars, riskVars, feedVars, now>>

-----------------------------------------------------------------------------
(* Administration of the engine, and its surroundings.                      *)

Intervene == interventions < MaxInterventions /\ interventions' = interventions + 1

SetCleanverseCustodyReady(ready) ==
    /\ admission' = [admission EXCEPT !.custodyReady = ready]
    /\ UNCHANGED pauseGuardian

\* CvaAssetRegistry.setAsset
SetAssetEnabled(enabled) ==
    /\ admission' = [admission EXCEPT !.enabled = enabled]
    /\ UNCHANGED pauseGuardian

SetEntryPaused(paused) ==
    /\ admission' = [admission EXCEPT !.entryPaused = paused]
    /\ UNCHANGED pauseGuardian

GuardianPauseEntry(caller) ==
    /\ caller = pauseGuardian
    /\ admission' = [admission EXCEPT !.entryPaused = TRUE]
    /\ UNCHANGED pauseGuardian

SetPauseGuardian(guardian) ==
    /\ pauseGuardian' = guardian
    /\ UNCHANGED admission

Administer ==
    /\ Intervene
    /\ \/ \E flag \in BOOLEAN : SetCleanverseCustodyReady(flag)
       \/ \E flag \in BOOLEAN : SetAssetEnabled(flag)
       \/ \E flag \in BOOLEAN : SetEntryPaused(flag)
       \/ \E a \in Account : GuardianPauseEntry(a)
       \/ \E a \in Suspendable : SetPauseGuardian(a)
    /\ adminVars' # adminVars      \* setting what is already set is no step
    /\ UNCHANGED <<recordVars, vaultVars, auctionVars, escrowVars, riskVars, feedVars, now>>

GovernRisk ==
    /\ Intervene
    /\ \/ \E c \in RiskConfigs : ScheduleConfig(c)
       \/ \E c \in RiskConfigs : ApplyConfig(c)
       \/ CancelConfig
    /\ UNCHANGED <<recordVars, adminVars, vaultVars, auctionVars, escrowVars, feedVars, now>>

ChangeCompliance ==
    /\ Intervene
    /\ \E a \in Suspendable, ok \in BOOLEAN : SetCompliance(a, ok)
    /\ UNCHANGED <<recordVars, adminVars, vaultVars, auctionVars, riskVars, feedVars, now>>

InvalidateValuation ==
    /\ Intervene
    /\ Invalidate
    /\ UNCHANGED <<recordVars, adminVars, vaultVars, auctionVars, escrowVars, riskVars, now>>

SubmitValuation(price, observedAt, validity, token) ==
    /\ Publish(price, observedAt, validity, token)
    /\ UNCHANGED <<engineVars, vaultVars, auctionVars, escrowVars, riskVars, now>>

EscrowClaim(caller, c, amount, recipient) ==
    /\ ClaimSettlement(caller, c, amount, recipient)
    /\ UNCHANGED <<engineVars, vaultVars, auctionVars, riskVars, feedVars, now>>

Tick ==
    /\ now < MaxTime
    /\ now' = now + 1
    /\ UNCHANGED <<engineVars, vaultVars, auctionVars, escrowVars, riskVars, feedVars>>

-----------------------------------------------------------------------------
SellerStep(a) ==
    \/ \E n \in Amounts : DepositCollateral(a, n)
    \/ \E b \in Recipients, n \in Amounts : WithdrawAvailable(a, n, b)
    \/ \E q \in AccountParams : OpenMarginAccount(a, q)
    \/ \E m \in MarginIds, n \in Amounts : AddMarginCollateral(a, m, n)
    \/ \E m \in MarginIds, b \in Recipients, n \in Amounts : WithdrawExcessCollateral(a, m, n, b)
    \/ \E m \in MarginIds : CloseFunding(a, m)
    \/ \E m \in MarginIds : CloseMarginAccount(a, m)
    \/ \E e \in ExposureIds, limit \in Limits, useEscrow \in BOOLEAN :
          RepayExposure(a, e, limit, useEscrow)

\* What lenders and bidders do.
BuyerStep(a) ==
    \/ \E m \in MarginIds, rate \in Rates, limit \in Limits :
          \E principal \in 1..accounts[m].mandate.fundingTarget :
             FundMarginAccount(a, m, principal, rate, limit)
    \/ \E x \in AuctionIds, limit \in Limits : BuyMarginAuction(a, x, limit)
    \/ \E e \in ExposureIds, b \in Recipients : ClaimFailedCollateral(a, e, b)
    \/ \E c \in DOMAIN book.claims, n \in ClaimAmounts, b \in Recipients :
          EscrowClaim(a, c, n, b)

\* What anybody, the keeper included, may do.
LifecycleStep ==
    \/ \E m \in MarginIds : OpenMarginCall(m)
    \/ \E m \in MarginIds : CureMarginCall(m)
    \/ \E m \in MarginIds : StartMarginLiquidation(m)
    \/ \E m \in MarginIds : StartInKindOracleFallback(m)
    \/ \E e \in ExposureIds : DeclarePaymentDefault(e)
    \/ \E e \in ExposureIds : MaterializeLiquidationClaim(e)
    \/ \E x \in AuctionIds : FinalizeFailedMarginAuction(x)

Next ==
    \/ Tick
    \/ \E a \in Account : SellerStep(a)
    \/ \E a \in Account : BuyerStep(a)
    \/ LifecycleStep
    \/ \E price \in Prices, observedAt \in 1..now, v \in Validity, t \in SettlementTokens :
          SubmitValuation(price, observedAt, v, t)
    \/ InvalidateValuation
    \/ ChangeCompliance
    \/ GovernRisk
    \/ Administer

Spec == Init /\ [][Next]_vars
=============================================================================
