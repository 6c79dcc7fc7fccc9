---------------------------- MODULE V2Preflight ----------------------------
(***************************************************************************)
(* The transactions the API prepares for users of the repo market          *)
(* (v2-preflight.ts): for each request the reasons not to send anything,   *)
(* the exact approvals still missing, and the calls to sign.               *)
(*                                                                         *)
(* The checks read the indexer's rows (of an indexer that has caught up),  *)
(* the chain, and the compliance service.  When none of them objects and   *)
(* no approval is missing, the API also simulates the call, which accepts  *)
(* what the contract accepts: the reasons below are those found before it. *)
(***************************************************************************)
EXTENDS RepoMarketV2, Economics, Eligibility

CONSTANTS
    Api     \* the configuration of the API and of its database

Modules == {"REPO_MARKET", "DUTCH_AUCTION", "SETTLEMENT_ESCROW", "VALUATION_ORACLE",
            "RISK_MANAGER", "COLLATERAL_VAULT"}

ASSUME ApiAssumption ==
    Api \in [listed: BOOLEAN, policyPoolRegistered: BOOLEAN, feeTreasuryEligible: BOOLEAN,
             feeTreasury: Account \cup {NoAccount}, allowedDurations: SUBSET Nat,
             registered: SUBSET Modules]

\* The deployment hands the API the durations it builds the market with.
ASSUME DurationsAssumption == Api.allowedDurations \subseteq AllowedDurations

-----------------------------------------------------------------------------
(* The rows of an offer, a position and an auction, as the projector leaves *)
(* them: what remains instead of what is filled, and terms in seconds.      *)

OfferRow(o) ==
    LET offer == offers[o]
    IN  [status |-> offer.status, seller |-> offer.seller,
         permittedBuyer |-> offer.permittedBuyer,
         totalCollateral |-> offer.totalCollateral,
         remainingCollateral |-> offer.totalCollateral - offer.allocatedCollateral,
         targetPrincipal |-> offer.targetPrincipal,
         remainingPrincipal |-> offer.targetPrincipal - offer.filledPrincipal,
         cumulativeFee |-> offer.feeCharged, minimumFill |-> offer.minimumFill,
         offerExpiry |-> offer.offerExpiry]

\* A position with the early terms the API reads from its offer; the hold is rounded down.
PositionRow(p) ==
    LET position == positions[p]
        terms == position.terms
    IN  [status |-> position.status, seller |-> position.seller, buyer |-> position.buyer,
         principal |-> position.principalAmount, acceptedAt |-> position.acceptedAt,
         maturityAt |-> position.maturity, repaymentDeadline |-> position.repaymentDeadline,
         annualRateBps |-> terms.annualRateBps, defaultRateBps |-> terms.defaultAnnualRateBps,
         earlyRepurchaseEnabled |-> terms.earlyRepurchaseEnabled,
         minimumHoldSeconds |-> MulDiv(terms.duration, terms.earlyMinHoldBps, BPS_DENOMINATOR),
         breakFeeBps |-> terms.earlyBreakFeeBps,
         maxOracleAge |-> position.closeout.maxOracleAge,
         staleOracleFallbackDelay |-> position.closeout.staleOracleFallbackDelay]

AuctionRow(x) ==
    [open |-> auctions[x].status = "LIVE", startsAt |-> auctions[x].startedAt,
     endsAt |-> auctions[x].endsAt, startPrice |-> auctions[x].startPrice,
     floorPrice |-> auctions[x].floorPrice,
     seller |-> positions[positionForAuction[x]].seller]

-----------------------------------------------------------------------------
(* The gates of entry.                                                      *)

\* marketSourcesRegistered, without and with the vault.
MarketSourcesRegistered(modules) == modules \subseteq Api.registered
CoreModules == Modules \ {"COLLATERAL_VAULT"}

\* Deviation: the pause switch is not read.
EntryConfiguredWhilePaused == Api.feeTreasury \in {NoAccount, feeTreasury}

\* marketEntryConfigured; the other addresses are those of the deployment.
MarketEntryConfigured ==
    /\ ~entryPaused
    /\ Api.feeTreasury \in {NoAccount, feeTreasury}

\* The gate of a deposit, and with the treasury's eligibility that of an offer.
VaultOpenForEntry ==
    /\ asset.configured /\ asset.ready /\ asset.enabled
    /\ Api.policyPoolRegistered
    /\ MarketEntryConfigured
    /\ MarketSourcesRegistered(Modules)

\* The oracle's part of createOffer and fill, which a stale price cuts short.
RiskReasons(principal, collateral) ==
    LET value == CollateralValueQuoted(collateral, valuation.price)
        fresh == PriceIsFresh(risk.maxOracleAge)
    IN  Blocking([ASSET_NOT_ALLOWED |-> ~risk.enabled,
                  ORACLE_STALE |-> ~fresh,
                  LTV_LIMIT_EXCEEDED |->
                      fresh /\ LtvExceeded(principal, value, risk.initialLtvBps)])

-----------------------------------------------------------------------------
(* Collateral of a seller and offers.                                       *)

DepositPreflight(actor, amount, allowance) ==
    Prepared(
        Blocking([INVALID_FILL_AMOUNT |-> amount <= 0,
                  ASSET_NOT_ALLOWED |-> ~Api.listed,
                  VAULT_NOT_AUTHORIZED |-> ~VaultOpenForEntry])
        \cup FundsReasons(cva[actor], allowance, amount)
        \cup EvaluateEdges({Edge(Cva, actor, Vault)}),
        ApprovalsFor(Cva, Vault, amount, allowance),
        <<Transaction("market", "depositCollateral", [amount |-> amount])>>)

WithdrawPreflight(actor, amount, recipient) ==
    Prepared(
        Blocking([INVALID_FILL_AMOUNT |-> amount <= 0,
                  INSUFFICIENT_BALANCE |-> availableBalance[actor] < amount])
        \cup EvaluateEdges({Edge(Cva, Vault, recipient)})
        \cup EvaluateParticipants({actor, recipient}, Cva),
        {},
        <<Transaction("market", "withdrawCollateral", [amount |-> amount, recipient |-> recipient])>>)

\* What the seller must still deposit for an offer of this much collateral.
DepositDeficit(seller, collateral) == Max2(0, collateral - availableBalance[seller])

\* Only the call to be sent first is simulated: with a deficit, the offer itself is not.
CreateOfferPreflight(seller, q, allowance) ==
    LET deficit == DepositDeficit(seller, q.collateralAmount)
        create == <<Transaction("market", "createOffer", q)>>
    IN  Prepared(
            Blocking([INVALID_FILL_AMOUNT |->
                          q.minimumFill <= 0 \/ q.minimumFill > q.targetPrincipal,
                      OFFER_EXPIRED |-> q.lifetime <= 0,
                      INVALID_OFFER_EXPIRY |-> q.lifetime > MaxOfferLifetime,
                      INVALID_DURATION |-> q.duration \notin Api.allowedDurations,
                      ASSET_NOT_ALLOWED |-> ~Api.listed,
                      VAULT_NOT_AUTHORIZED |-> ~VaultOpenForEntry \/ ~Api.feeTreasuryEligible])
            \cup FundsReasons(IF deficit > 0 THEN cva[seller] ELSE 0,
                              IF deficit > 0 THEN allowance ELSE 0, deficit)
            \cup RiskReasons(q.targetPrincipal, q.collateralAmount)
            \cup EvaluateEdges(IF deficit > 0 THEN {Edge(Cva, seller, Vault)} ELSE {})
            \cup EvaluateParticipants({seller}, Cva),
            ApprovalsFor(Cva, Vault, deficit, allowance),
            IF deficit > 0
            THEN <<Transaction("market", "depositCollateral", [amount |-> deficit])>> \o create
            ELSE create)

\* previewFill reverts, or calculateFillEconomics throws.
FillQuoted(row, fill) == FillEconomicsDefined(row, fill, ProtocolFeeBps)

FillPreflight(actor, o, fill, allowance) ==
    LET row == OfferRow(o)
        collateral == IF FillQuoted(row, fill) THEN FillCollateral(offers[o], fill) ELSE 0
        fee == IF FillQuoted(row, fill) THEN FillFee(offers[o], fill) ELSE 0
        proceeds == IF FillQuoted(row, fill) THEN fill - fee ELSE 0
    IN  Prepared(
            Blocking([VAULT_NOT_AUTHORIZED |-> ~VaultOpenForEntry \/ ~Api.feeTreasuryEligible,
                      OFFER_NOT_OPEN |-> row.status \notin Fillable,
                      OFFER_EXPIRED |-> now > row.offerExpiry,
                      BUYER_NOT_PERMITTED |-> \/ row.permittedBuyer \notin {NoAccount, actor}
                                              \/ row.seller = actor,
                      INVALID_FILL_AMOUNT |-> ~FillQuoted(row, fill),
                      BELOW_MINIMUM_FILL |->
                          fill < row.minimumFill /\ fill # row.remainingPrincipal])
            \cup FundsReasons(book.cash[actor], allowance, fill)
            \cup EvaluateEdges(
                    {edge \in {Edge(Settlement, actor, row.seller)} : proceeds > 0} \cup
                    {edge \in {Edge(Settlement, actor, feeTreasury)} : fee > 0})
            \cup RiskReasons(fill, collateral)
            \cup EvaluateParticipants({actor, row.seller}, Cva),
            ApprovalsFor(Settlement, "market", fill, allowance),
            <<Transaction("market", "fillOffer", [offerId |-> o, fill |-> fill, maxFee |-> fee])>>)

\* offerLifecycle
CancelPreflight(actor, o) ==
    IF OfferRow(o).seller # actor
    THEN RoleNotAllowed
    ELSE Prepared(Blocking([OFFER_NOT_OPEN |-> OfferRow(o).status \notin Fillable]), {},
                  <<Transaction("market", "cancelOffer", [offerId |-> o])>>)

ExpiryPreflight(o) ==
    Prepared(Blocking([OFFER_NOT_OPEN |-> \/ OfferRow(o).status \notin Fillable
                                          \/ now <= OfferRow(o).offerExpiry]),
             {}, <<Transaction("market", "finalizeOfferExpiry", [offerId |-> o])>>)

-----------------------------------------------------------------------------
(* Repayment.                                                               *)

\* The lender is paid in escrow as soon as a direct payment would be refused.
PaysIntoEscrow(row) == ParticipantReasons(row.buyer, Settlement) # {}

\* The live payoff replaces the one computed from the row; ceiling 0 stands for none given.
RepayPreflight(actor, p, ceiling, allowance) ==
    LET row == PositionRow(p)
        quoted == PayoffEconomicsDefined(row, now)
        livePayoff == IF PayoffDefined(positions[p], now) THEN Payoff(positions[p], now)
                      ELSE IF quoted THEN PayoffQuoted(row, now) ELSE row.principal
        maxPayoff == IF ceiling = 0 THEN livePayoff ELSE ceiling
        payee == IF PaysIntoEscrow(row) THEN Escrow ELSE row.buyer
    IN  IF row.seller # actor
        THEN RoleNotAllowed
        ELSE Prepared(
            Blocking([POSITION_NOT_ACTIVE |-> row.status # "ACTIVE",
                      CONTRACT_NOT_CONFIGURED |-> ~MarketSourcesRegistered(CoreModules),
                      EARLY_REPURCHASE_DISABLED |-> ~quoted,
                      TRANSACTION_WOULD_REVERT |-> ~PayoffDefined(positions[p], now),
                      SLIPPAGE_EXCEEDED |-> maxPayoff < livePayoff])
            \cup FundsReasons(book.cash[actor], allowance, livePayoff)
            \cup EvaluateEdges({Edge(Settlement, actor, payee)}),
            ApprovalsFor(Settlement, "market", livePayoff, allowance),
            <<Transaction("market", "repurchase",
                          [positionId |-> p, maxPayoff |-> maxPayoff,
                           useEscrow |-> PaysIntoEscrow(row)])>>)

-----------------------------------------------------------------------------
(* Default.                                                                 *)

StartAuctionPreflight(p) ==
    LET row == PositionRow(p)
        due == row.status = "ACTIVE" /\ now > row.repaymentDeadline
    IN  Prepared(
            Blocking([CONTRACT_NOT_CONFIGURED |-> ~MarketSourcesRegistered(CoreModules),
                      POSITION_NOT_ACTIVE |-> row.status # "ACTIVE",
                      NOT_AT_MATURITY |-> now <= row.repaymentDeadline,
                      ORACLE_STALE |-> /\ due /\ MarketSourcesRegistered(CoreModules)
                                       /\ ~PriceIsFresh(row.maxOracleAge)]),
            {}, <<Transaction("market", "startAuction", [positionId |-> p])>>)

BuyAuctionPreflight(actor, x, ceiling, allowance) ==
    LET row == AuctionRow(x)
        livePrice == PriceAt(auctions[x], now)
        maxPrice == IF ceiling = 0 THEN livePrice ELSE ceiling
    IN  Prepared(
            Blocking([CONTRACT_NOT_CONFIGURED |-> ~MarketSourcesRegistered(Modules),
                      AUCTION_NOT_OPEN |-> ~row.open,
                      BUYER_NOT_PERMITTED |-> row.seller = actor,
                      AUCTION_EXPIRED |-> now > row.endsAt,
                      SLIPPAGE_EXCEEDED |-> maxPrice < livePrice])
            \cup FundsReasons(book.cash[actor], allowance, livePrice)
            \cup EvaluateEdges({Edge(Settlement, actor, Escrow), Edge(Cva, Vault, actor)}),
            ApprovalsFor(Settlement, "market", livePrice, allowance),
            <<Transaction("market", "buyAuction", [auctionId |-> x, maxPrice |-> maxPrice])>>)

FinalizePreflight(x) ==
    Prepared(Blocking([CONTRACT_NOT_CONFIGURED |-> ~MarketSourcesRegistered(CoreModules),
                       AUCTION_NOT_OPEN |-> ~AuctionRow(x).open \/ now <= AuctionRow(x).endsAt]),
             {}, <<Transaction("market", "finalizeFailedAuction", [auctionId |-> x])>>)

\* Deviation: readiness, an entry gate, is asked of a claim too.
ClaimReasonsWhenReady(actor, recipient) ==
    Blocking([CONTRACT_NOT_CONFIGURED |-> ~MarketSourcesRegistered(CoreModules),
              VAULT_NOT_AUTHORIZED |-> ~asset.configured \/ ~asset.ready])
    \cup EvaluateEdges({Edge(Cva, Vault, recipient)})
    \cup EvaluateParticipants({actor}, Cva)

\* What both ways of taking collateral in kind have in common.
ClaimReasons(actor, recipient) ==
    Blocking([CONTRACT_NOT_CONFIGURED |-> ~MarketSourcesRegistered(CoreModules),
              VAULT_NOT_AUTHORIZED |-> ~asset.configured])
    \cup EvaluateEdges({Edge(Cva, Vault, recipient)})
    \cup EvaluateParticipants({actor}, Cva)

ClaimDefaultPreflight(actor, p, recipient) ==
    IF PositionRow(p).buyer # actor
    THEN RoleNotAllowed
    ELSE Prepared(ClaimReasons(actor, recipient) \cup
                  Blocking([POSITION_NOT_ACTIVE |-> PositionRow(p).status # "AUCTION_FAILED"]),
                  {}, <<Transaction("market", "claimDefaultCollateral",
                                    [positionId |-> p, recipient |-> recipient])>>)

OracleFailurePreflight(actor, p, recipient) ==
    LET row == PositionRow(p)
        open == now > row.repaymentDeadline + row.staleOracleFallbackDelay
    IN  IF row.buyer # actor
        THEN RoleNotAllowed
        ELSE Prepared(
            ClaimReasons(actor, recipient) \cup
            Blocking([POSITION_NOT_ACTIVE |-> row.status # "ACTIVE",
                      ORACLE_FALLBACK_NOT_OPEN |-> ~open,
                      ORACLE_STILL_LIVE |-> /\ open /\ row.status = "ACTIVE"
                                            /\ PriceIsFresh(row.maxOracleAge)]),
            {}, <<Transaction("market", "claimCollateralOnOracleFailure",
                              [positionId |-> p, recipient |-> recipient])>>)

\* claimSettlement from the market's own escrow, the only one a repo claim can name.
ClaimSettlementPreflight(actor, c, amount, recipient) ==
    IF book.claims[c].beneficiary # actor
    THEN RoleNotAllowed
    ELSE Prepared(
        Blocking([INVALID_FILL_AMOUNT |-> amount \notin 1..book.claims[c].remaining])
        \cup EvaluateEdges({edge \in {Edge(Settlement, Escrow, recipient)} : amount > 0})
        \cup EvaluateParticipants({actor}, Settlement),
        {}, <<Transaction("escrow", "claim",
                          [claimId |-> c, amount |-> amount, recipient |-> recipient])>>)

-----------------------------------------------------------------------------
(* What preparing a transaction promises.                                   *)

\* The API can vouch for the contracts of the market, its custody included.
ExitsConfigured == MarketSourcesRegistered(Modules) /\ CustodyRecorded

OfferExitPrepared(o) ==
    /\ offers'[o].status = "CANCELLED" => CancelPreflight(offers[o].seller, o).reasons = {}
    /\ offers'[o].status = "EXPIRED" => ExpiryPreflight(o).reasons = {}

\* Whoever received CVA in this step.
CvaReceivers == {a \in Account : cva'[a] > cva[a]}

PositionExitPrepared(p) ==
    LET position == positions[p]
        x == position.auctionId
    IN  CASE positions'[p].status = "REPAID" ->
                RepayPreflight(position.seller, p, 0, Payoff(position, now)).reasons = {}
          [] positions'[p].status = "AUCTION" ->
                StartAuctionPreflight(p).reasons = {}
          [] positions'[p].status = "LIQUIDATED" ->
                BuyAuctionPreflight(auctions'[x].buyer, x, 0, auctions'[x].salePrice).reasons = {}
          [] positions'[p].status = "AUCTION_FAILED" ->
                FinalizePreflight(x).reasons = {}
          [] positions'[p].status = "COLLATERAL_CLAIMED" ->
                \A a \in CvaReceivers :
                    IF x = 0
                    THEN OracleFailurePreflight(position.buyer, p, a).reasons = {}
                    ELSE ClaimDefaultPreflight(position.buyer, p, a).reasons = {}
          [] OTHER -> TRUE

WithdrawalPrepared(a) ==
    vaultAssets' < vaultAssets /\ availableBalance'[a] < availableBalance[a] =>
        \A b \in CvaReceivers :
            WithdrawPreflight(a, availableBalance[a] - availableBalance'[a], b).reasons = {}

EscrowClaimPrepared(c) ==
    book'.claims[c].remaining < book.claims[c].remaining =>
        \A b \in {a \in Account : book'.cash[a] > book.cash[a]} :
            ClaimSettlementPreflight(book.claims[c].beneficiary, c,
                book.claims[c].remaining - book'.claims[c].remaining, b).reasons = {}

EveryExitPrepared ==
    ExitsConfigured =>
        /\ \A o \in OfferIds : offers'[o].status # offers[o].status => OfferExitPrepared(o)
        /\ \A p \in PositionIds :
              /\ positions[p].status # "NONE"
              /\ positions'[p].status # positions[p].status
              => PositionExitPrepared(p)
        /\ \A a \in Account : WithdrawalPrepared(a)
        /\ \A c \in DOMAIN book.claims : EscrowClaimPrepared(c)

(***************************************************************************)
(* The API stands in nobody's way out: whatever exit the contracts let a   *)
(* user take, however entry is paused, disabled, unattested or left out of *)
(* the API's configuration, its checks of the same call find no reason     *)
(* against it (once the funds it spends are approved).                     *)
(***************************************************************************)
PreflightKeepsExitsOpen == [][EveryExitPrepared]_vars

DepositsExecute ==
    \A a \in Account, n \in Amounts :
        DepositPreflight(a, n, n).reasons = {} => CanDepositCollateral(a, n)

\* The rate is the one bound createOffer leaves to the contract.
OffersExecute ==
    \A a \in Account, q \in OfferParams :
        /\ nextOfferId \in OfferIds
        /\ DepositDeficit(a, q.collateralAmount) = 0
        /\ q.annualRateBps <= risk.maxDefaultRateBps
        /\ CreateOfferPreflight(a, q, 0).reasons = {}
        => CanCreateOffer(a, q)

FillsExecute ==
    \A a \in Account, o \in OfferIds :
        \A fill \in 1..offers[o].targetPrincipal :
            nextPositionId \in PositionIds /\ FillPreflight(a, o, fill, fill).reasons = {}
            => CanFillOffer(a, o, fill, FillFee(offers[o], fill))

RepaymentsExecute ==
    \A p \in PositionIds :
        LET position == positions[p]
            payoff == Payoff(position, now)
            useEscrow == PaysIntoEscrow(PositionRow(p))
        IN  /\ PayoffDefined(position, now)
            /\ RepayPreflight(position.seller, p, 0, payoff).reasons = {}
            => CanRepurchase(position.seller, p, payoff, useEscrow)

(***************************************************************************)
(* What the API prepares, the contracts execute: its own checks, before    *)
(* any simulation, cover every gate of a deposit, an offer, a fill and a   *)
(* repayment, in the order in which governance, compliance and the oracle  *)
(* may change them; and a repayment to a suspended lender is routed into   *)
(* escrow, where it succeeds.                                              *)
(***************************************************************************)
ApprovedCallsExecute ==
    /\ now <= EntryHorizon => DepositsExecute /\ OffersExecute /\ FillsExecute
    /\ RepaymentsExecute

\* The three quotes that repeat a formula of the contracts.
FillsQuotedExactly ==
    \A o \in OfferIds :
        offers[o].status \in Fillable =>
            \A fill \in 1..OfferRow(o).remainingPrincipal :
                /\ FillCollateralQuoted(OfferRow(o), fill) = FillCollateral(offers[o], fill)
                /\ FillFeeQuoted(OfferRow(o), fill, ProtocolFeeBps) = FillFee(offers[o], fill)

\* Its hold being rounded down, the quoted payoff may fall short before maturity.
PayoffsQuoted ==
    \A p \in PositionIds :
        LET quoted == PayoffQuoted(PositionRow(p), now)
            payoff == Payoff(positions[p], now)
        IN  PayoffDefined(positions[p], now) =>
            quoted <= payoff /\ (now >= positions[p].maturity => quoted = payoff)

SalesQuotedExactly ==
    \A x \in {y \in AuctionIds : auctions[y].status = "LIVE"} :
        LET row == AuctionRow(x)
            price == AuctionPriceQuoted(row.startPrice, row.floorPrice, row.startsAt, row.endsAt, now)
            position == positions[positionForAuction[x]]
        IN  /\ price = PriceAt(auctions[x], now)
            /\ Waterfall(price, position.frozenDebt, position.closeout.liquidationFeeBps) =
                  [lenderProceeds |-> LenderShare(position, price),
                   liquidationFee |-> FeeShare(position, price),
                   sellerSurplus |-> SellerShare(position, price),
                   lenderShortfall |-> position.frozenDebt - LenderShare(position, price)]

(***************************************************************************)
(* What users are shown before they sign is what the contracts do: the     *)
(* fills, sale prices and waterfalls computed in TypeScript from rows that *)
(* keep remainders equal the contracts' own, computed from totals, after   *)
(* any sequence of fills; a payoff never looks larger than it is.          *)
(***************************************************************************)
QuotesMatchContract ==
    FillsQuotedExactly /\ PayoffsQuoted /\ SalesQuotedExactly
=============================================================================
