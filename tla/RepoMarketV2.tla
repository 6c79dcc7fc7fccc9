---------------------------- MODULE RepoMarketV2 ----------------------------
(***************************************************************************)
(* The isolated-repo market for one CVA asset, with the contracts it       *)
(* calls: the collateral vault, the auction house, the settlement escrow,  *)
(* the risk manager and the valuation oracle.                              *)
(*                                                                         *)
(* An action is one successful transaction.  A call that reverts leaves no *)
(* trace, so each `revert` is the negation of a conjunct.  The vault's and *)
(* the auction house's operations are conjoined to the market's own; token *)
(* payments and escrow claims compose into the next `book`.                *)
(*                                                                         *)
(* `CanX` collects what action X requires, of the callees too: the rest of *)
(* X assigns each variable its next value, so that X is enabled when CanX  *)
(* holds.                                                                  *)
(***************************************************************************)
EXTENDS CollateralVaultV2, DutchAuctionV2, SettlementEscrowV2, RiskManagerV2, ValuationFeed

CONSTANTS
    Owner,              \* owner() of the market and of its modules
    ProtocolFeeBps, GracePeriod, AllowedDurations,      \* constructor arguments
    MaxOfferLifetime,   \* MAX_OFFER_LIFETIME
    OfferParams,        \* the createOffer arguments sellers may choose
    Predeployed,        \* whether the asset's vault is deployed and attested at the start
    ClaimAmounts,       \* amounts of settlement claimed from escrow
    Limits,             \* limits callers set: maxFee, maxPayoff, maxPrice
    Recipients,         \* accounts that withdrawals and claims are directed to
    Suspendable,        \* accounts the compliance pool may suspend and readmit
    Appointees,         \* accounts governance may make treasury or guardian
    MaxTime,            \* bound: the clock stops here
    EntryHorizon,       \* bound: no offer is made or filled after it
    MaxInterventions    \* bound: governance, oracle and compliance interventions

ASSUME MarketAssumption ==
    /\ Owner \in Account
    /\ ProtocolFeeBps \in Nat /\ ProtocolFeeBps < BPS_DENOMINATOR
    /\ GracePeriod \in Nat \ {0}
    /\ AllowedDurations \subseteq Nat \ {0}
    /\ MaxOfferLifetime \in Nat
    /\ OfferParams \subseteq
          [collateralAmount: Nat, targetPrincipal: Nat, minimumFill: Nat, annualRateBps: Nat,
           duration: Nat, lifetime: Int, permittedBuyer: Account \cup {NoAccount},
           earlyRepurchaseEnabled: BOOLEAN]
    /\ Predeployed \in BOOLEAN
    /\ ClaimAmounts \subseteq Nat /\ Limits \subseteq Nat
    /\ Recipients \subseteq Account
    /\ Suspendable \subseteq Account /\ Appointees \subseteq Account
    /\ {MaxTime, EntryHorizon, MaxInterventions} \subseteq Nat
    /\ OfferIds \subseteq Nat \ {0}
    /\ PositionIds \subseteq Nat \ {0}
    /\ References = PositionIds

\* Auction ids have 256 bits: they do not run out before the positions do.
ASSUME AuctionIdsSuffice == 1..Cardinality(PositionIds) \subseteq AuctionIds

VARIABLES
    offers, nextOfferId,            \* _offers
    positions, nextPositionId,      \* _positions
    positionForAuction,             \* 0 for an auction id not used yet
    asset,                          \* _assets[asset] and the registry's flag
    entryPaused,
    feeTreasury,
    pauseGuardian,
    interventions                   \* counts what MaxInterventions bounds

recordVars == <<offers, nextOfferId, positions, nextPositionId, positionForAuction>>
adminVars == <<asset, entryPaused, feeTreasury, pauseGuardian>>
marketVars == <<recordVars, adminVars, interventions>>
vars == <<marketVars, vaultVars, auctionVars, escrowVars, riskVars, feedVars, now>>

-----------------------------------------------------------------------------
(* Offers and positions.                                                    *)

OfferStatus == {"NONE", "OPEN", "PARTIALLY_FILLED", "FILLED", "CANCELLED", "EXPIRED"}
PositionStatus == {"NONE", "ACTIVE", "REPAID", "AUCTION", "LIQUIDATED", "AUCTION_FAILED",
                   "COLLATERAL_CLAIMED"}

Fillable == {"OPEN", "PARTIALLY_FILLED"}

\* What a position inherits from its offer.
Terms == [annualRateBps: Nat, defaultAnnualRateBps: Nat, duration: Nat, earlyMinHoldBps: Nat,
          earlyBreakFeeBps: Nat, earlyRepurchaseEnabled: BOOLEAN]

\* What a position keeps of the risk configuration in force at its fill.
CloseoutTerms == [liquidationFeeBps: Nat, auctionStartBps: Nat, auctionFloorBps: Nat,
                  auctionDuration: Nat, maxOracleAge: Nat, staleOracleFallbackDelay: Nat]

Offer == [status: OfferStatus, seller: Account \cup {NoAccount},
          permittedBuyer: Account \cup {NoAccount}, totalCollateral: Nat,
          targetPrincipal: Nat, filledPrincipal: Nat, allocatedCollateral: Nat,
          feeCharged: Nat, minimumFill: Nat, offerExpiry: Nat, terms: Terms]

Position == [status: PositionStatus, offerId: OfferIds \cup {0}, auctionId: AuctionIds \cup {0},
             seller: Account \cup {NoAccount}, buyer: Account \cup {NoAccount},
             collateralAmount: Nat, principalAmount: Nat, frozenDebt: Nat,
             acceptedAt: Nat, maturity: Nat, repaymentDeadline: Nat,
             terms: Terms, closeout: CloseoutTerms]

NoTerms == [annualRateBps |-> 0, defaultAnnualRateBps |-> 0, duration |-> 0,
            earlyMinHoldBps |-> 0, earlyBreakFeeBps |-> 0, earlyRepurchaseEnabled |-> FALSE]

SnapshotOf(c) ==
    [liquidationFeeBps |-> c.liquidationFeeBps, auctionStartBps |-> c.auctionStartBps,
     auctionFloorBps |-> c.auctionFloorBps, auctionDuration |-> c.auctionDuration,
     maxOracleAge |-> c.maxOracleAge, staleOracleFallbackDelay |-> c.staleOracleFallbackDelay]

NoOffer == [status |-> "NONE", seller |-> NoAccount, permittedBuyer |-> NoAccount,
            totalCollateral |-> 0, targetPrincipal |-> 0, filledPrincipal |-> 0,
            allocatedCollateral |-> 0, feeCharged |-> 0, minimumFill |-> 0,
            offerExpiry |-> 0, terms |-> NoTerms]

NoPosition == [status |-> "NONE", offerId |-> 0, auctionId |-> 0, seller |-> NoAccount,
               buyer |-> NoAccount, collateralAmount |-> 0, principalAmount |-> 0,
               frozenDebt |-> 0, acceptedAt |-> 0, maturity |-> 0, repaymentDeadline |-> 0,
               terms |-> NoTerms, closeout |-> SnapshotOf(InitialRisk)]

Init ==
    /\ VaultInit /\ AuctionInit /\ EscrowInit /\ RiskInit /\ FeedInit
    /\ now = 1
    /\ offers = [o \in OfferIds |-> NoOffer] /\ nextOfferId = 1
    /\ positions = [p \in PositionIds |-> NoPosition] /\ nextPositionId = 1
    /\ positionForAuction = [x \in AuctionIds |-> 0]
    /\ asset = [configured |-> Predeployed, enabled |-> TRUE, ready |-> Predeployed]
    /\ entryPaused = FALSE
    /\ feeTreasury = Owner
    /\ pauseGuardian = Owner
    /\ interventions = 0

\* _requireEntryAsset
EntryAssetOpen == asset.configured /\ asset.enabled /\ asset.ready

-----------------------------------------------------------------------------
(* Collateral inventory of a seller.                                        *)

CanDepositCollateral(caller, amount) ==
    /\ ~entryPaused
    /\ EntryAssetOpen
    /\ caller \in compliant
    /\ now <= EntryHorizon
    /\ CanDeposit(caller, amount)

DepositCollateral(caller, amount) ==
    /\ CanDepositCollateral(caller, amount)
    /\ DepositFor(caller, amount)
    /\ UNCHANGED <<marketVars, auctionVars, escrowVars, riskVars, feedVars, now>>

\* Deviation: the admission checks of entry guard the exit too.
CanWithdrawWhileAdmitted(caller, amount, recipient) ==
    /\ EntryAssetOpen
    /\ {caller, recipient} \subseteq compliant
    /\ CanDebitAvailable(caller, amount) /\ CanPayOut(amount)

CanWithdrawCollateral(caller, amount, recipient) ==
    /\ asset.configured
    /\ {caller, recipient} \subseteq compliant
    /\ CanDebitAvailable(caller, amount) /\ CanPayOut(amount)

WithdrawCollateral(caller, amount, recipient) ==
    /\ CanWithdrawCollateral(caller, amount, recipient)
    /\ WithdrawTo(caller, recipient, amount)
    /\ UNCHANGED <<marketVars, auctionVars, escrowVars, riskVars, feedVars, now>>

-----------------------------------------------------------------------------
(* Offers.                                                                  *)

ValidOfferParams(q) ==
    /\ q.collateralAmount > 0 /\ q.targetPrincipal > 0 /\ q.minimumFill > 0
    /\ q.minimumFill <= q.targetPrincipal
    /\ q.duration \in AllowedDurations
    /\ 0 < q.lifetime /\ q.lifetime <= MaxOfferLifetime

CanCreateOffer(caller, q) ==
    /\ ~entryPaused
    /\ EntryAssetOpen
    /\ now <= EntryHorizon
    /\ ValidOfferParams(q)
    /\ caller \in compliant
    /\ risk.enabled
    /\ PriceIsFresh(risk.maxOracleAge)
    /\ WithinLtv(q.targetPrincipal, CollateralValue(q.collateralAmount, valuation.price),
                 risk.initialLtvBps)
    /\ q.annualRateBps <= risk.maxDefaultRateBps
    /\ nextOfferId \in OfferIds
    /\ offerReserved[nextOfferId].owner = NoAccount
    /\ CanDebitAvailable(caller, q.collateralAmount)

CreateOffer(caller, q) ==
    /\ CanCreateOffer(caller, q)
    /\ offers' = [offers EXCEPT ![nextOfferId] =
          [status |-> "OPEN", seller |-> caller, permittedBuyer |-> q.permittedBuyer,
           totalCollateral |-> q.collateralAmount, targetPrincipal |-> q.targetPrincipal,
           filledPrincipal |-> 0, allocatedCollateral |-> 0, feeCharged |-> 0,
           minimumFill |-> q.minimumFill, offerExpiry |-> now + q.lifetime,
           terms |-> [annualRateBps |-> q.annualRateBps,
                      defaultAnnualRateBps |-> Min2(q.annualRateBps + risk.defaultSpreadBps,
                                                    risk.maxDefaultRateBps),
                      duration |-> q.duration,
                      earlyMinHoldBps |-> risk.earlyMinHoldBps,
                      earlyBreakFeeBps |-> risk.earlyBreakFeeBps,
                      earlyRepurchaseEnabled |-> q.earlyRepurchaseEnabled]]]
    /\ nextOfferId' = nextOfferId + 1
    /\ ReserveOffer(caller, nextOfferId, q.collateralAmount)
    /\ UNCHANGED <<positions, nextPositionId, positionForAuction, adminVars, interventions>>
    /\ UNCHANGED <<auctionVars, escrowVars, riskVars, feedVars, now>>

\* What the next fill of an offer hands over; previewFill returns the same amounts.
FillCollateral(offer, fill) ==
    AllocatedCollateral(offer.totalCollateral, offer.filledPrincipal + fill,
                        offer.targetPrincipal) - offer.allocatedCollateral
\* Deviation: the fee is rounded up on each fill.
FillFeeAlone(offer, fill) == MulDivCeil(fill, ProtocolFeeBps, BPS_DENOMINATOR)
FillFee(offer, fill) ==
    CumulativeFee(offer.filledPrincipal + fill, ProtocolFeeBps) - offer.feeCharged

NewPosition(buyer, o, fill) ==
    [status |-> "ACTIVE", offerId |-> o, auctionId |-> 0,
     seller |-> offers[o].seller, buyer |-> buyer,
     collateralAmount |-> FillCollateral(offers[o], fill), principalAmount |-> fill,
     frozenDebt |-> 0, acceptedAt |-> now,
     maturity |-> now + offers[o].terms.duration,
     repaymentDeadline |-> now + offers[o].terms.duration + GracePeriod,
     terms |-> offers[o].terms, closeout |-> SnapshotOf(risk)]

FilledBy(offer, fill) ==
    [offer EXCEPT !.filledPrincipal = @ + fill,
                  !.allocatedCollateral = @ + FillCollateral(offer, fill),
                  !.feeCharged = @ + FillFee(offer, fill),
                  !.status = IF offer.filledPrincipal + fill = offer.targetPrincipal
                             THEN "FILLED" ELSE "PARTIALLY_FILLED"]

CanFill(buyer, offer, fill, maxFee) ==
    /\ offer.status \in Fillable
    /\ now <= offer.offerExpiry
    /\ buyer # offer.seller
    /\ offer.permittedBuyer \in {NoAccount, buyer}
    /\ fill \in 1..(offer.targetPrincipal - offer.filledPrincipal)
    /\ fill >= offer.minimumFill \/ fill = offer.targetPrincipal - offer.filledPrincipal
    /\ {buyer, offer.seller} \subseteq compliant
    /\ risk.enabled
    /\ PriceIsFresh(risk.maxOracleAge)
    /\ WithinLtv(fill, CollateralValue(FillCollateral(offer, fill), valuation.price),
                 risk.initialLtvBps)
    /\ FillFee(offer, fill) <= maxFee
    /\ FillFee(offer, fill) < fill

CanFillOffer(buyer, o, fill, maxFee) ==
    LET fee == FillFee(offers[o], fill)
        proceedsPaid == PaidTo(book, buyer, offers[o].seller, fill - fee)
    IN  /\ ~entryPaused
        /\ EntryAssetOpen
        /\ now <= EntryHorizon
        /\ nextPositionId \in PositionIds
        /\ CanFill(buyer, offers[o], fill, maxFee)
        /\ CanPay(book, buyer, fill - fee)
        /\ fee > 0 => CanPayOrEscrow(proceedsPaid, buyer, feeTreasury, fee)
        /\ Owns(offerReserved[o], offers[o].seller)
        /\ positionLocked[nextPositionId].owner = NoAccount
        /\ CanDebitBucket(offerReserved[o], FillCollateral(offers[o], fill))

FillOffer(buyer, o, fill, maxFee) ==
    LET fee == FillFee(offers[o], fill)
        proceedsPaid == PaidTo(book, buyer, offers[o].seller, fill - fee)
    IN  /\ CanFillOffer(buyer, o, fill, maxFee)
        /\ positions' = [positions EXCEPT ![nextPositionId] = NewPosition(buyer, o, fill)]
        /\ nextPositionId' = nextPositionId + 1
        /\ offers' = [offers EXCEPT ![o] = FilledBy(@, fill)]
        /\ AllocatePosition(offers[o].seller, o, nextPositionId, FillCollateral(offers[o], fill))
        /\ book' = PaidOrEscrowed(proceedsPaid, buyer, feeTreasury, fee)
        /\ UNCHANGED <<nextOfferId, positionForAuction, adminVars, interventions>>
        /\ UNCHANGED <<auctionVars, compliant, riskVars, feedVars, now>>

\* The end of an offer releases whatever its fills have not taken.
CanCloseOffer(o) ==
    LET unallocated == offers[o].totalCollateral - offers[o].allocatedCollateral
    IN  /\ offers[o].status \in Fillable
        /\ unallocated > 0 => /\ Owns(offerReserved[o], offers[o].seller)
                              /\ CanDebitBucket(offerReserved[o], unallocated)

CloseOffer(o, status) ==
    /\ CanCloseOffer(o)
    /\ offers' = [offers EXCEPT ![o].status = status]
    /\ IF offers[o].totalCollateral > offers[o].allocatedCollateral
       THEN ReleaseOffer(offers[o].seller, o,
                         offers[o].totalCollateral - offers[o].allocatedCollateral)
       ELSE UNCHANGED vaultVars
    /\ UNCHANGED <<nextOfferId, positions, nextPositionId, positionForAuction>>
    /\ UNCHANGED <<adminVars, interventions, auctionVars, escrowVars, riskVars, feedVars, now>>

CanCancelOffer(caller, o) == caller = offers[o].seller /\ CanCloseOffer(o)
CancelOffer(caller, o) == CanCancelOffer(caller, o) /\ CloseOffer(o, "CANCELLED")

\* Deviation: pausing entry also stops expiry.
FinalizeOfferExpiryWhileOpen(o) ==
    /\ ~entryPaused
    /\ now > offers[o].offerExpiry
    /\ CloseOffer(o, "EXPIRED")

FinalizeOfferExpiry(o) ==
    /\ now > offers[o].offerExpiry
    /\ CloseOffer(o, "EXPIRED")

-----------------------------------------------------------------------------
(* Repayment.                                                               *)

ScheduledInterest(position) ==
    Interest(position.principalAmount, position.terms.annualRateBps, position.terms.duration)

\* Deviation: the break fee is not capped by the schedule.
EarlyInterestUncapped(position, t) ==
    LET minimumHold == MulDivCeil(position.terms.duration, position.terms.earlyMinHoldBps,
                                  BPS_DENOMINATOR)
    IN  Interest(position.principalAmount, position.terms.annualRateBps,
                 Max2(t - position.acceptedAt, minimumHold))
          + MulDivCeil(position.principalAmount, position.terms.earlyBreakFeeBps, BPS_DENOMINATOR)

\* Before maturity: interest for at least the minimum hold, plus a break fee, at most the schedule.
EarlyInterest(position, t) ==
    LET minimumHold == MulDivCeil(position.terms.duration, position.terms.earlyMinHoldBps,
                                  BPS_DENOMINATOR)
        accrued == Interest(position.principalAmount, position.terms.annualRateBps,
                            Max2(t - position.acceptedAt, minimumHold))
        breakFee == MulDivCeil(position.principalAmount, position.terms.earlyBreakFeeBps,
                               BPS_DENOMINATOR)
    IN  Min2(ScheduledInterest(position), accrued + breakFee)

\* From maturity on: the schedule plus default-rate interest for the time overdue.
LateInterest(position, t) ==
    ScheduledInterest(position)
      + Interest(position.principalAmount, position.terms.defaultAnnualRateBps,
                 t - position.maturity)

\* previewPayoff, where it does not revert.
PayoffDefined(position, t) ==
    /\ position.status = "ACTIVE"
    /\ t >= position.acceptedAt
    /\ t >= position.maturity \/ position.terms.earlyRepurchaseEnabled
Payoff(position, t) ==
    position.principalAmount
      + IF t < position.maturity THEN EarlyInterest(position, t) ELSE LateInterest(position, t)

RepurchaseDirect(book0, position, payoff) ==
    /\ position.buyer \in compliant
    /\ book' = PaidTo(book0, position.seller, position.buyer, payoff)

\* Deviation: the claim is for the principal and leaves the interest unclaimed.
RepurchaseEscrowedPrincipal(book0, position, payoff) ==
    LET deposited == PaidToEscrow(book0, position.seller, payoff)
    IN  /\ CanRecordClaims(deposited, payoff)
        /\ book' = WithClaim(deposited, position.buyer, position.principalAmount)

RepurchaseEscrowed(book0, position, payoff) ==
    LET deposited == PaidToEscrow(book0, position.seller, payoff)
    IN  /\ CanRecordClaims(deposited, payoff)
        /\ book' = WithClaim(deposited, position.buyer, payoff)

CanRepurchase(caller, p, maxPayoff, useEscrow) ==
    LET position == positions[p]
        payoff == Payoff(position, now)
    IN  /\ position.status = "ACTIVE"
        /\ caller = position.seller
        /\ caller \in compliant
        /\ PayoffDefined(position, now)
        /\ payoff <= maxPayoff
        /\ CanPay(book, caller, payoff)
        /\ IF useEscrow THEN CanRecordClaims(PaidToEscrow(book, caller, payoff), payoff)
                        ELSE position.buyer \in compliant
        /\ Owns(positionLocked[p], caller) /\ positionLocked[p].amount > 0

Repurchase(caller, p, maxPayoff, useEscrow) ==
    LET position == positions[p]
        payoff == Payoff(position, now)
    IN  /\ CanRepurchase(caller, p, maxPayoff, useEscrow)
        /\ positions' = [positions EXCEPT ![p].status = "REPAID"]
        /\ IF useEscrow THEN RepurchaseEscrowed(book, position, payoff)
                        ELSE RepurchaseDirect(book, position, payoff)
        /\ ReleasePosition(position.seller, p)
        /\ UNCHANGED <<offers, nextOfferId, nextPositionId, positionForAuction>>
        /\ UNCHANGED <<adminVars, interventions, auctionVars, compliant, riskVars, feedVars, now>>

-----------------------------------------------------------------------------
(* Default: auction, or collateral in kind when the auction fails or the    *)
(* oracle stays silent.                                                     *)

\* Deviation: the deadline itself already counts as default.
DefaultOpenAtDeadline(position) ==
    position.status = "ACTIVE" /\ now >= position.repaymentDeadline
DefaultOpen(position) == position.status = "ACTIVE" /\ now > position.repaymentDeadline

\* Deviation: a floor may round to zero, which the auction house refuses.
AuctionFloorUnclamped(position, value) ==
    MulDiv(value, position.closeout.auctionFloorBps, BPS_DENOMINATOR)
AuctionFloor(position, value) ==
    Max2(1, MulDiv(value, position.closeout.auctionFloorBps, BPS_DENOMINATOR))
AuctionStart(position, value, debt) ==
    Max2(AuctionFloor(position, value),
         Max2(debt, MulDivCeil(value, position.closeout.auctionStartBps, BPS_DENOMINATOR)))

\* Deviation: the auction lasts as long as the configuration in force says.
AuctionLengthInForce(position) == risk.auctionDuration
AuctionLength(position) == position.closeout.auctionDuration

CanStartAuction(p) ==
    LET position == positions[p]
        debt == Payoff(position, now)
        value == CollateralValue(position.collateralAmount, valuation.price)
    IN  /\ DefaultOpen(position)
        /\ asset.configured
        /\ PriceIsFresh(position.closeout.maxOracleAge)
        /\ PayoffDefined(position, now)
        /\ CanCreate(p, position.collateralAmount, AuctionStart(position, value, debt),
                     AuctionFloor(position, value), AuctionLength(position))
        /\ Owns(positionLocked[p], position.seller) /\ positionLocked[p].amount > 0
        /\ auctionLocked[nextAuctionId].owner = NoAccount

StartAuction(p) ==
    LET position == positions[p]
        debt == Payoff(position, now)
        value == CollateralValue(position.collateralAmount, valuation.price)
    IN  /\ CanStartAuction(p)
        /\ Create(p, position.collateralAmount, AuctionStart(position, value, debt),
                  AuctionFloor(position, value), AuctionLength(position))
        /\ positions' = [positions EXCEPT ![p].status = "AUCTION",
                                          ![p].auctionId = nextAuctionId,
                                          ![p].frozenDebt = debt]
        /\ positionForAuction' = [positionForAuction EXCEPT ![nextAuctionId] = p]
        /\ AllocateAuction(position.seller, p, nextAuctionId)
        /\ UNCHANGED <<offers, nextOfferId, nextPositionId>>
        /\ UNCHANGED <<adminVars, interventions, escrowVars, riskVars, feedVars, now>>

\* How the sale price is shared: the lender first, then the fee, then the seller.
\* Deviation: the fee comes off the price before the lender's debt.
LenderShareAfterFee(position, price) ==
    Min2(price - MulDivCeil(price, position.closeout.liquidationFeeBps, BPS_DENOMINATOR),
         position.frozenDebt)
LenderShare(position, price) == Min2(price, position.frozenDebt)
FeeShare(position, price) ==
    Min2(price - LenderShare(position, price),
         MulDivCeil(price, position.closeout.liquidationFeeBps, BPS_DENOMINATOR))
SellerShare(position, price) ==
    price - LenderShare(position, price) - FeeShare(position, price)

Settled(b, position, price) ==
    WithClaim(
      WithClaim(
        WithClaim(b, position.buyer, LenderShare(position, price)),
        feeTreasury, FeeShare(position, price)),
      position.seller, SellerShare(position, price))

\* The position an auction decides.
InAuction(x, p) ==
    /\ positionForAuction[x] = p
    /\ positions[p].status = "AUCTION"
    /\ positions[p].auctionId = x

BuyAuction(caller, x, maxPrice) ==
    \E p \in PositionIds :
        LET price == PriceAt(auctions[x], now)
        IN  /\ InAuction(x, p)
            /\ caller # positions[p].seller
            /\ caller \in compliant
            /\ MarkSold(x, caller, maxPrice)
            /\ CanPay(book, caller, price)
            /\ CanRecordClaims(PaidToEscrow(book, caller, price), price)
            /\ positions' = [positions EXCEPT ![p].status = "LIQUIDATED"]
            /\ book' = Settled(PaidToEscrow(book, caller, price), positions[p], price)
            /\ ReleaseAuction(x, caller)
            /\ UNCHANGED <<offers, nextOfferId, nextPositionId, positionForAuction>>
            /\ UNCHANGED <<adminVars, interventions, compliant, riskVars, feedVars, now>>

FinalizeFailedAuction(x) ==
    \E p \in PositionIds :
        /\ InAuction(x, p)
        /\ MarkFailed(x)
        /\ positions' = [positions EXCEPT ![p].status = "AUCTION_FAILED"]
        /\ UNCHANGED <<offers, nextOfferId, nextPositionId, positionForAuction>>
        /\ UNCHANGED <<adminVars, interventions, vaultVars, escrowVars, riskVars, feedVars, now>>

ClaimDefaultCollateral(caller, p, recipient) ==
    /\ positions[p].status = "AUCTION_FAILED"
    /\ caller = positions[p].buyer
    /\ {caller, recipient} \subseteq compliant
    /\ positions' = [positions EXCEPT ![p].status = "COLLATERAL_CLAIMED"]
    /\ ReleaseAuction(positions[p].auctionId, recipient)
    /\ UNCHANGED <<offers, nextOfferId, nextPositionId, positionForAuction>>
    /\ UNCHANGED <<adminVars, interventions, auctionVars, escrowVars, riskVars, feedVars, now>>

\* Deviation: the oracle counts as failed only once its valuation has expired.
FallbackOpenOnExpiry(position) ==
    /\ position.status = "ACTIVE"
    /\ now > position.repaymentDeadline + position.closeout.staleOracleFallbackDelay
    /\ now > valuation.validUntil

FallbackOpen(position) ==
    /\ position.status = "ACTIVE"
    /\ now > position.repaymentDeadline + position.closeout.staleOracleFallbackDelay
    /\ ~PriceIsFresh(position.closeout.maxOracleAge)

CanClaimCollateralOnOracleFailure(caller, p, recipient) ==
    /\ FallbackOpen(positions[p])
    /\ caller = positions[p].buyer
    /\ {caller, recipient} \subseteq compliant
    /\ positionLocked[p].amount > 0 /\ CanPayOut(positionLocked[p].amount)

ClaimCollateralOnOracleFailure(caller, p, recipient) ==
    /\ CanClaimCollateralOnOracleFailure(caller, p, recipient)
    /\ positions' = [positions EXCEPT ![p].status = "COLLATERAL_CLAIMED"]
    /\ SeizePosition(p, recipient)
    /\ UNCHANGED <<offers, nextOfferId, nextPositionId, positionForAuction>>
    /\ UNCHANGED <<adminVars, interventions, auctionVars, escrowVars, riskVars, feedVars, now>>

-----------------------------------------------------------------------------
(* Administration of the market.                                            *)

Intervene == interventions < MaxInterventions /\ interventions' = interventions + 1

ConfigureAsset ==
    /\ asset.enabled
    /\ ~asset.configured
    /\ asset' = [asset EXCEPT !.configured = TRUE, !.ready = FALSE]
    /\ UNCHANGED <<entryPaused, feeTreasury, pauseGuardian>>

SetAssetVaultReady(ready) ==
    /\ asset.configured
    /\ asset' = [asset EXCEPT !.ready = ready]
    /\ UNCHANGED <<entryPaused, feeTreasury, pauseGuardian>>

\* CvaAssetRegistry.setAsset
SetAssetEnabled(enabled) ==
    /\ asset' = [asset EXCEPT !.enabled = enabled]
    /\ UNCHANGED <<entryPaused, feeTreasury, pauseGuardian>>

SetEntryPaused(paused) ==
    /\ entryPaused' = paused
    /\ UNCHANGED <<asset, feeTreasury, pauseGuardian>>

GuardianPauseEntry(caller) ==
    /\ caller = pauseGuardian
    /\ ~entryPaused
    /\ entryPaused' = TRUE
    /\ UNCHANGED <<asset, feeTreasury, pauseGuardian>>

SetPauseGuardian(guardian) ==
    /\ pauseGuardian' = guardian
    /\ UNCHANGED <<asset, entryPaused, feeTreasury>>

SetFeeTreasury(treasury) ==
    /\ feeTreasury' = treasury
    /\ UNCHANGED <<asset, entryPaused, pauseGuardian>>

Administer ==
    /\ Intervene
    /\ \/ ConfigureAsset
       \/ \E flag \in BOOLEAN : SetAssetVaultReady(flag)
       \/ \E flag \in BOOLEAN : SetAssetEnabled(flag)
       \/ \E flag \in BOOLEAN : SetEntryPaused(flag)
       \/ \E a \in Account : GuardianPauseEntry(a)
       \/ \E a \in Appointees : SetPauseGuardian(a)
       \/ \E a \in Appointees : SetFeeTreasury(a)
    /\ adminVars' # adminVars      \* setting what is already set is no step
    /\ UNCHANGED <<recordVars, vaultVars, auctionVars, escrowVars, riskVars, feedVars, now>>

GovernRisk ==
    /\ Intervene
    /\ \/ \E c \in RiskConfigs : ScheduleConfig(c)
       \/ \E c \in RiskConfigs : ApplyConfig(c)
       \/ CancelConfig
    /\ UNCHANGED <<recordVars, adminVars, vaultVars, auctionVars, escrowVars, feedVars, now>>

ChangeCompliance ==
    /\ Intervene
    /\ \E a \in Suspendable, ok \in BOOLEAN : SetCompliance(a, ok)
    /\ UNCHANGED <<recordVars, adminVars, vaultVars, auctionVars, riskVars, feedVars, now>>

InvalidateValuation ==
    /\ Intervene
    /\ Invalidate
    /\ UNCHANGED <<recordVars, adminVars, vaultVars, auctionVars, escrowVars, riskVars, now>>

SubmitValuation(price, observedAt, validity, token) ==
    /\ Publish(price, observedAt, validity, token)
    /\ UNCHANGED <<marketVars, vaultVars, auctionVars, escrowVars, riskVars, now>>

EscrowClaim(caller, c, amount, recipient) ==
    /\ ClaimSettlement(caller, c, amount, recipient)
    /\ UNCHANGED <<marketVars, vaultVars, auctionVars, riskVars, feedVars, now>>

Tick ==
    /\ now < MaxTime
    /\ now' = now + 1
    /\ UNCHANGED <<marketVars, vaultVars, auctionVars, escrowVars, riskVars, feedVars>>

-----------------------------------------------------------------------------
Next ==
    \/ Tick
    \/ \E a \in Account, n \in Amounts : DepositCollateral(a, n)
    \/ \E a \in Account, b \in Recipients, n \in Amounts : WithdrawCollateral(a, n, b)
    \/ \E a \in Account, q \in OfferParams : CreateOffer(a, q)
    \/ \E a \in Account, o \in OfferIds, limit \in Limits :
          \E fill \in 1..offers[o].targetPrincipal : FillOffer(a, o, fill, limit)
    \/ \E a \in Account, o \in OfferIds : CancelOffer(a, o)
    \/ \E o \in OfferIds : FinalizeOfferExpiry(o)
    \/ \E a \in Account, p \in PositionIds, limit \in Limits, useEscrow \in BOOLEAN :
          Repurchase(a, p, limit, useEscrow)
    \/ \E p \in PositionIds : StartAuction(p)
    \/ \E a \in Account, x \in AuctionIds, limit \in Limits : BuyAuction(a, x, limit)
    \/ \E x \in AuctionIds : FinalizeFailedAuction(x)
    \/ \E a \in Account, b \in Recipients, p \in PositionIds : ClaimDefaultCollateral(a, p, b)
    \/ \E a \in Account, b \in Recipients, p \in PositionIds :
          ClaimCollateralOnOracleFailure(a, p, b)
    \/ \E a \in Account, b \in Recipients, n \in ClaimAmounts :
          \E c \in DOMAIN book.claims : EscrowClaim(a, c, n, b)
    \/ \E price \in Prices, observedAt \in 1..now, v \in Validity, t \in SettlementTokens :
          SubmitValuation(price, observedAt, v, t)
    \/ InvalidateValuation
    \/ ChangeCompliance
    \/ GovernRisk
    \/ Administer

Spec == Init /\ [][Next]_vars

(***************************************************************************)
(* The clock runs.  The keeper (v2-keeper.ts) has a durable job for every  *)
(* position past its deadline, every auction past its end and every offer  *)
(* past its expiry, and retries it until the call succeeds.  A lender      *)
(* collects what is due to it.  Nothing is assumed of sellers, bidders,    *)
(* signers or governance.                                                  *)
(***************************************************************************)
Fairness ==
    /\ WF_vars(Tick)
    /\ \A o \in OfferIds : WF_vars(FinalizeOfferExpiry(o))
    /\ \A p \in PositionIds : WF_vars(StartAuction(p))
    /\ \A x \in AuctionIds : WF_vars(FinalizeFailedAuction(x))
    /\ \A p \in PositionIds :
          WF_vars(\E a \in Recipients : ClaimDefaultCollateral(a, p, a))
    /\ \A p \in PositionIds :
          WF_vars(\E a \in Recipients : ClaimCollateralOnOracleFailure(a, p, a))

FairSpec == Spec /\ Fairness
=============================================================================
