------------------------- MODULE V2MarginPreflight -------------------------
(***************************************************************************)
(* The transactions the API prepares for users of the margin engine        *)
(* (marginAction of v2-preflight.ts), as V2Preflight does for the market:  *)
(* the reasons found before the simulation, the approvals, the calls.      *)
(* Accounts and exposures are read from the chain.                         *)
(***************************************************************************)
EXTENDS MarginEngineV2, Economics, Eligibility

CONSTANTS
    Api     \* the configuration of the API and of its database

ASSUME ApiAssumption ==
    Api \in [sourcesRegistered: BOOLEAN, marginEnabled: BOOLEAN, policyPoolRegistered: BOOLEAN,
             vaultCustodyReady: BOOLEAN, escrowReady: BOOLEAN, treasuryEligible: BOOLEAN,
             allowedDurations: SUBSET Nat]

EngineCall(function, args) == <<Transaction("engine", function, args)>>

\* What is asked of every action.
Sources == Blocking([CONTRACT_NOT_CONFIGURED |-> ~Api.sourcesRegistered])

\* New credit needs the flag, every readiness switch and an open engine.
EntryReasons ==
    Blocking([ASSET_NOT_ALLOWED |-> ~admission.enabled,
              MARGIN_ACCOUNT_RESTRICTED |-> ~Api.marginEnabled,
              VAULT_NOT_AUTHORIZED |->
                  \/ ~Api.policyPoolRegistered \/ ~Api.vaultCustodyReady
                  \/ ~Api.escrowReady \/ ~Api.treasuryEligible
                  \/ ~admission.custodyReady \/ admission.entryPaused])

-----------------------------------------------------------------------------
(* The seller's collateral.                                                 *)

\* What a deposit takes out of the seller's free collateral in the repo market's vault.
RepoSweep(actor, amount, source) ==
    CASE source = "WALLET" -> 0
      [] source = "REPO_VAULT" -> amount
      [] source = "AUTO" -> Max2(0, amount - cva[actor])

(***************************************************************************)
(* A deposit lowers risk, so it stays open while entry is paused.  The     *)
(* repo market is outside this model: `repo` says what is available there  *)
(* and whether its custody is proven.                                      *)
(***************************************************************************)
DepositPreflight(actor, amount, source, repo, allowance) ==
    LET sweep == RepoSweep(actor, amount, source)
        swept == sweep > 0 /\ repo.proven
    IN  Prepared(
            Sources \cup
            Blocking([ASSET_NOT_ALLOWED |-> ~admission.enabled,
                      VAULT_NOT_AUTHORIZED |->
                          \/ ~Api.policyPoolRegistered \/ ~Api.vaultCustodyReady
                          \/ ~admission.custodyReady
                          \/ sweep > 0 /\ ~repo.proven,
                      INVALID_FILL_AMOUNT |-> amount <= 0,
                      INSUFFICIENT_BALANCE |->
                          IF source = "WALLET" THEN cva[actor] < amount
                                               ELSE sweep > repo.available,
                      INSUFFICIENT_ALLOWANCE |-> allowance < amount])
            \cup EvaluateEdges({Edge(Cva, actor, Vault)} \cup
                               {edge \in {Edge(Cva, Vault, actor)} : swept}),
            ApprovalsFor(Cva, Vault, amount, allowance),
            (IF swept THEN <<Transaction("market", "withdrawCollateral",
                                         [amount |-> sweep, recipient |-> actor])>>
                      ELSE <<>>)
            \o EngineCall("depositCollateral", [amount |-> amount]))

WithdrawPreflight(actor, amount, recipient) ==
    Prepared(Sources \cup Blocking([INSUFFICIENT_BALANCE |-> availableBalance[actor] < amount])
             \cup EvaluateEdges({Edge(Cva, Vault, recipient)})
             \cup EvaluateParticipants({actor}, Cva),
             {}, EngineCall("withdrawAvailable", [amount |-> amount, recipient |-> recipient]))

OpenAccountPreflight(actor, q) ==
    Prepared(
        Sources \cup EntryReasons \cup
        Blocking([INSUFFICIENT_BALANCE |-> availableBalance[actor] < q.collateralAmount,
                  INVALID_FILL_AMOUNT |-> \/ q.collateralAmount <= 0 \/ q.fundingTarget <= 0
                                          \/ q.minimumFunding \notin 1..q.fundingTarget,
                  INVALID_DURATION |-> q.duration \notin Api.allowedDurations,
                  INVALID_OFFER_EXPIRY |-> q.window \notin 1..MaxFundingWindow,
                  BUYER_NOT_PERMITTED |-> q.permittedLender = actor,
                  ASSET_NOT_ALLOWED |-> ~risk.enabled])
        \cup EvaluateParticipants({actor}, Cva),
        {}, EngineCall("openMarginAccount", q))

AddCollateralPreflight(actor, m, amount) ==
    IF accounts[m].seller # actor
    THEN RoleNotAllowed
    ELSE Prepared(Sources \cup
                  Blocking([INSUFFICIENT_BALANCE |-> availableBalance[actor] < amount]),
                  {}, EngineCall("addMarginCollateral", [accountId |-> m, amount |-> amount]))

WithdrawExcessPreflight(actor, m, amount, recipient) ==
    IF accounts[m].seller # actor
    THEN RoleNotAllowed
    ELSE Prepared(
        Sources \cup Blocking([INSUFFICIENT_BALANCE |-> amount > accounts[m].collateralAmount])
        \cup EvaluateEdges({Edge(Cva, Vault, recipient)})
        \cup EvaluateParticipants({actor}, Cva),
        {}, EngineCall("withdrawExcessCollateral",
                       [accountId |-> m, amount |-> amount, recipient |-> recipient]))

-----------------------------------------------------------------------------
(* Funding and repayment.                                                   *)

FundingFeeQuoted(account, principal) ==
    CeilDiv((account.totalFunded + principal) * ProtocolFeeBps, BPS_DENOMINATOR)
      - account.feeCharged

\* Deviation: the interest of the term is forgotten.
FaceDebtWithoutInterest(account, principal, rateBps) == principal

FaceDebtQuoted(account, principal, rateBps) ==
    principal + AccruedQuoted(principal, rateBps, account.mandate.duration)

\* The stricter of the limit at the opening and the one in force.
FundingLimit(account) == Min2(account.snapshot.initialLtvBps, risk.initialLtvBps)

FundingRiskReasons(account, principal, rateBps) ==
    LET fresh == PriceIsFresh(Min2(account.snapshot.maxOracleAge, risk.maxOracleAge))
        value == CollateralValueQuoted(account.collateralAmount, valuation.price)
        debtAfter == account.totalFaceDebt + FaceDebtQuoted(account, principal, rateBps)
    IN  Blocking([ASSET_NOT_ALLOWED |-> ~risk.enabled,
                  ORACLE_STALE |-> ~fresh,
                  LTV_LIMIT_EXCEEDED |->
                      fresh /\ LtvExceeded(debtAfter, value, FundingLimit(account))])

\* A treasury that cannot be paid is credited in escrow.
FeeRecipient ==
    IF ParticipantReasons(FeeTreasury, Settlement) = {} THEN FeeTreasury ELSE Escrow

\* Ceiling 0 stands for none given, here and below.
FundPreflight(actor, m, principal, rateBps, ceiling, allowance) ==
    LET account == accounts[m]
        mandate == account.mandate
        remaining == mandate.fundingTarget - account.totalFunded
        fee == FundingFeeQuoted(account, principal)
        maxFee == IF ceiling = 0 THEN fee ELSE ceiling
    IN  Prepared(
            Sources \cup EntryReasons \cup
            Blocking([BUYER_NOT_PERMITTED |->
                          \/ actor = account.seller
                          \/ mandate.permittedLender \notin {NoAccount, actor},
                      OFFER_NOT_OPEN |-> account.fundingClosed \/ now > mandate.fundingExpiry,
                      INVALID_FILL_AMOUNT |->
                          \/ principal \notin 1..remaining
                          \/ principal < mandate.minimumFunding /\ principal # remaining,
                      INVALID_RATE |-> rateBps > mandate.maxAnnualRateBps,
                      SLIPPAGE_EXCEEDED |-> maxFee < fee])
            \cup FundingRiskReasons(account, principal, rateBps)
            \cup FundsReasons(book.cash[actor], allowance, principal)
            \cup EvaluateEdges(
                    {edge \in {Edge(Settlement, actor, account.seller)} : principal > fee} \cup
                    {edge \in {Edge(Settlement, actor, FeeRecipient)} : fee > 0})
            \cup EvaluateParticipants({actor, account.seller}, Cva),
            ApprovalsFor(Settlement, "engine", principal, allowance),
            EngineCall("fundMarginAccount",
                       [accountId |-> m, principal |-> principal, rateBps |-> rateBps,
                        maxFee |-> maxFee]))

\* Deviation: the lender is always paid directly.
PaysIntoEscrowNever(exposure) == FALSE

PaysIntoEscrow(exposure) == ParticipantReasons(exposure.lender, Settlement) # {}

RepayPreflight(actor, e, ceiling, allowance) ==
    LET exposure == exposures[e]
        maxFaceDebt == IF ceiling = 0 THEN exposure.faceDebt ELSE ceiling
        payee == IF PaysIntoEscrow(exposure) THEN Escrow ELSE exposure.lender
    IN  IF accounts[exposure.accountId].seller # actor
        THEN RoleNotAllowed
        ELSE Prepared(
            Sources \cup Blocking([SLIPPAGE_EXCEEDED |-> maxFaceDebt < exposure.faceDebt])
            \cup FundsReasons(book.cash[actor], allowance, exposure.faceDebt)
            \cup EvaluateEdges({Edge(Settlement, actor, payee)}),
            ApprovalsFor(Settlement, "engine", exposure.faceDebt, allowance),
            EngineCall("repayExposure",
                       [exposureId |-> e, maxFaceDebt |-> maxFaceDebt,
                        useEscrow |-> PaysIntoEscrow(exposure)]))

-----------------------------------------------------------------------------
(* Default and closeout.                                                    *)

\* DECLARE_PAYMENT_DEFAULT and MATERIALIZE_LIQUIDATION_CLAIM: left to the simulation.
ExposurePreflight(e, function) ==
    Prepared(Sources, {}, EngineCall(function, [exposureId |-> e]))

AccountFunctions ==
    [CLOSE_FUNDING |-> "closeFunding", OPEN_MARGIN_CALL |-> "openMarginCall",
     CURE |-> "cureMarginCall", LIQUIDATE |-> "startMarginLiquidation",
     START_IN_KIND_ORACLE_FALLBACK |-> "startInKindOracleFallback",
     CLOSE_ACCOUNT |-> "closeMarginAccount"]

AccountPreflight(actor, m, action) ==
    IF action \in {"CLOSE_FUNDING", "CLOSE_ACCOUNT"} /\ accounts[m].seller # actor
    THEN RoleNotAllowed
    ELSE Prepared(Sources, {}, EngineCall(AccountFunctions[action], [accountId |-> m]))

FinalizePreflight(x) ==
    Prepared(Sources, {}, EngineCall("finalizeFailedMarginAuction", [auctionId |-> x]))

BuyAuctionPreflight(actor, x, ceiling, allowance) ==
    LET price == PriceAt(auctions[x], now)
        maxPrice == IF ceiling = 0 THEN price ELSE ceiling
    IN  Prepared(
            Sources \cup
            Blocking([BUYER_NOT_PERMITTED |-> accounts[accountForAuction[x]].seller = actor,
                      SLIPPAGE_EXCEEDED |-> maxPrice < price])
            \cup FundsReasons(book.cash[actor], allowance, price)
            \cup EvaluateEdges({Edge(Settlement, actor, Escrow), Edge(Cva, Vault, actor)}),
            ApprovalsFor(Settlement, "engine", price, allowance),
            EngineCall("buyMarginAuction", [auctionId |-> x, maxPrice |-> maxPrice]))

\* A share that rounds to zero makes calculateProRataClaim throw.
ClaimFailedPreflight(actor, e, recipient) ==
    LET account == accounts[exposures[e].accountId]
        shareDefined == ProRataClaimDefined(account.collateralAmount, account.remainingCollateral,
                            exposures[e].faceDebt, account.frozenDebt,
                            account.unclaimedExposureCount)
    IN  IF exposures[e].lender # actor
        THEN RoleNotAllowed
        ELSE Prepared(
            Sources \cup Blocking([TRANSACTION_WOULD_REVERT |-> ~shareDefined])
            \cup EvaluateEdges({Edge(Cva, Vault, recipient)})
            \cup EvaluateParticipants({actor}, Cva),
            {}, EngineCall("claimFailedCollateral",
                           [exposureId |-> e, recipient |-> recipient]))

-----------------------------------------------------------------------------
(* What preparing a margin transaction promises.                            *)

CvaReceivers == {a \in Account : cva'[a] > cva[a]}

\* Collateral that leaves the vault for its owner's wishes.
CollateralExitPrepared ==
    vaultAssets' < vaultAssets /\ UNCHANGED exposures =>
        /\ \A a \in Account :
              availableBalance'[a] < availableBalance[a] =>
                  \A b \in CvaReceivers :
                      WithdrawPreflight(a, vaultAssets - vaultAssets', b).reasons = {}
        /\ \A m \in MarginIds :
              accounts'[m].collateralAmount < accounts[m].collateralAmount =>
                  \A b \in CvaReceivers :
                      WithdrawExcessPreflight(accounts[m].seller, m,
                                              vaultAssets - vaultAssets', b).reasons = {}

\* Collateral that a seller adds to an account, to cure a call or to keep one away.
TopUpPrepared ==
    \A m \in MarginIds :
        LET more == accounts'[m].collateralAmount - accounts[m].collateralAmount
        IN  accounts[m].status \in Running /\ more > 0 =>
                AddCollateralPreflight(accounts[m].seller, m, more).reasons = {}

AccountExitPrepared(m) ==
    LET seller == accounts[m].seller
        x == accounts[m].auctionId
    IN  CASE accounts'[m].status = "CLOSED" ->
                AccountPreflight(seller, m, "CLOSE_ACCOUNT").reasons = {}
          [] accounts'[m].status = "LIQUIDATED" ->
                BuyAuctionPreflight(auctions'[x].buyer, x, 0, auctions'[x].salePrice).reasons = {}
          [] OTHER -> TRUE

\* What the API has against a lender's claim of unsold collateral, which the engine takes.
ClaimObjections(share) == IF share = 0 THEN {"TRANSACTION_WOULD_REVERT"} ELSE {}

ExposureExitPrepared(e) ==
    LET exposure == exposures[e]
        account == accounts[exposure.accountId]
        share == ProRataShare(account, exposure, account.collateralAmount,
                              account.remainingCollateral)
    IN  CASE exposures'[e].status = "REPAID" ->
                RepayPreflight(account.seller, e, 0, exposure.faceDebt).reasons = {}
          [] exposures'[e].status = "PROCEEDS_CLAIMED" ->
                ExposurePreflight(e, "materializeLiquidationClaim").reasons = {}
          [] exposures'[e].status = "COLLATERAL_CLAIMED" ->
                \A b \in compliant :
                    ClaimFailedPreflight(exposure.lender, e, b).reasons = ClaimObjections(share)
          [] OTHER -> TRUE

EveryMarginExitPrepared ==
    Api.sourcesRegistered /\ CustodyRecorded =>
        /\ CollateralExitPrepared /\ TopUpPrepared
        /\ \A m \in MarginIds :
              accounts'[m].status # accounts[m].status => AccountExitPrepared(m)
        /\ \A e \in ExposureIds :
              exposures[e].status = "ACTIVE" /\ exposures'[e].status # "ACTIVE"
              => ExposureExitPrepared(e)

(***************************************************************************)
(* Of all ways out of a margin account, and of those to save one with more *)
(* collateral, the API refuses exactly one kind: whatever the engine       *)
(* allows, in whatever state admission, risk parameters and compliance     *)
(* are, and with margin switched off, the checks of the same call find     *)
(* nothing against it, except that a lender's claim whose share rounds to  *)
(* zero is always refused as a call that would revert.  It would not: the  *)
(* engine closes such a claim without a transfer, so that the last lender  *)
(* gets the rest (claimFailedCollateral), and its lender has to make the   *)
(* call without the API.                                                   *)
(***************************************************************************)
OnlyEmptyClaimsRefused == [][EveryMarginExitPrepared]_vars

\* Out of the wallet, with nothing to be swept from the market's vault.
DepositsExecute ==
    \A a \in Account, n \in Amounts :
        /\ now <= EntryHorizon
        /\ DepositPreflight(a, n, "WALLET", [available |-> 0, proven |-> FALSE], n).reasons = {}
        => CanDepositCollateral(a, n)

\* The rate's range is left to the simulation.
OpeningsExecute ==
    \A a \in Account, q \in AccountParams :
        /\ now <= EntryHorizon /\ nextAccountId \in MarginIds
        /\ q.maxAnnualRateBps <= MAX_RATE_BPS
        /\ OpenAccountPreflight(a, q).reasons = {}
        => CanOpenMarginAccount(a, q)

\* The account's status and a fee that would take the whole principal are left to it, too.
FundingsExecute ==
    \A a \in Account, m \in MarginIds, rateBps \in Rates :
        \A principal \in 1..accounts[m].mandate.fundingTarget :
            /\ accounts[m].status = "OPEN"
            /\ FundingFee(accounts[m], principal) < principal
            /\ now <= EntryHorizon /\ nextExposureId \in ExposureIds
            /\ FundPreflight(a, m, principal, rateBps, 0, principal).reasons = {}
            => CanFundMarginAccount(a, m, principal, rateBps,
                                    FundingFee(accounts[m], principal))

(***************************************************************************)
(* A way in that the API prepares succeeds: before any simulation, its     *)
(* checks of a deposit, an opening and a funding cover the mandate, both   *)
(* LTV limits, both oracle ages, the admission and all eligibility.        *)
(***************************************************************************)
ApprovedFundingExecutes == DepositsExecute /\ OpeningsExecute /\ FundingsExecute
=============================================================================
