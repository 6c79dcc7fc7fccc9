------------------------- MODULE RepoMarketV2Proofs -------------------------
(***************************************************************************)
(* What holds of the market for every value of the constants.  First its   *)
(* types, custody, cumulative fills and closeout order, with the           *)
(* inductive invariant they rest on.  Then what no step may do: how        *)
(* collateral leaves, how a repayment and a sale are shared, what waiting  *)
(* costs, which terms a close-out runs on; the books of vault, escrow and  *)
(* offers, with the vault's refinement of custody; that nobody is locked   *)
(* out; and what the API's preflight keeps of all this: it quotes the      *)
(* contracts' amounts, objects to no exit, and what it prepares executes.  *)
(***************************************************************************)
EXTENDS RepoMarketV2Properties, V2Preflight, ProtocolModulesV2Theorems

(***************************************************************************)
(* What the records of the market keep to themselves and each other, and   *)
(* what the properties need to be inductive: amounts are positive, ids are *)
(* handed out in order, a position leaves ACTIVE unpaid only after its     *)
(* deadline, and it names the auction that names it.                       *)
(***************************************************************************)
OfferSound(o) ==
    offers[o].status # "NONE" =>
        /\ offers[o].seller \in Account
        /\ offers[o].totalCollateral > 0
        /\ offers[o].targetPrincipal > 0

PositionSound(p) ==
    LET position == positions[p]
    IN  position.status # "NONE" =>
        /\ p < nextPositionId
        /\ position.seller \in Account /\ position.buyer \in Account \ {position.seller}
        /\ position.collateralAmount > 0
        /\ position.acceptedAt <= now
        /\ position.acceptedAt + position.terms.duration = position.maturity
        /\ position.status \notin {"ACTIVE", "REPAID"} => now > position.repaymentDeadline
        /\ position.status \in {"AUCTION", "AUCTION_FAILED"} =>
              /\ position.auctionId \in AuctionIds
              /\ positionForAuction[position.auctionId] = p

OffersInv ==
    /\ \A o \in OfferIds : OfferSound(o) /\ OfferCustody(o)
    /\ FillsAreCumulative

CloseoutInv ==
    /\ \A p \in PositionIds : PositionSound(p) /\ PositionCustody(p)
    /\ \A x \in AuctionIds : AuctionCustody(x)
    /\ AuctionsSound
    /\ AuctionAgreement

RecordsInv == OffersInv /\ CloseoutInv

IInv == TypeOK /\ RecordsInv

-----------------------------------------------------------------------------
(* Pricing.                                                                 *)

\* Where previewPayoff does not revert, it returns at least the principal.
LEMMA PayoffType ==
    ASSUME NEW position \in Position, NEW t \in Nat, PayoffDefined(position, t)
    PROVE  Payoff(position, t) \in Nat /\ Payoff(position, t) >= position.principalAmount
<1>1. /\ position.principalAmount \in Nat /\ position.acceptedAt \in Nat
      /\ position.maturity \in Nat /\ position.terms \in Terms
    BY DEF Position
<1>2. /\ position.terms.annualRateBps \in Nat /\ position.terms.defaultAnnualRateBps \in Nat
      /\ position.terms.duration \in Nat /\ position.terms.earlyMinHoldBps \in Nat
      /\ position.terms.earlyBreakFeeBps \in Nat
    BY <1>1 DEF Terms
<1>3. ScheduledInterest(position) \in Nat
    BY <1>1, <1>2, InterestType DEF ScheduledInterest
<1>4. CASE t < position.maturity
  <2>1. MulDivCeil(position.terms.duration, position.terms.earlyMinHoldBps, BPS_DENOMINATOR) \in Nat
    BY <1>2, MulDivType, ScalesAssumption
  <2>2. MulDivCeil(position.principalAmount, position.terms.earlyBreakFeeBps, BPS_DENOMINATOR) \in Nat
    BY <1>1, <1>2, MulDivType, ScalesAssumption
  <2>3. t - position.acceptedAt \in Nat
    BY <1>1 DEF PayoffDefined
  <2> DEFINE minimumHold == MulDivCeil(position.terms.duration, position.terms.earlyMinHoldBps,
                                       BPS_DENOMINATOR)
             elapsed == Max2(t - position.acceptedAt, minimumHold)
             accrued == Interest(position.principalAmount, position.terms.annualRateBps, elapsed)
             breakFee == MulDivCeil(position.principalAmount, position.terms.earlyBreakFeeBps,
                                    BPS_DENOMINATOR)
  <2>4. elapsed \in Nat
    BY <2>1, <2>3 DEF Max2
  <2>5. accrued \in Nat
    BY <1>1, <1>2, <2>4, InterestType
  <2>6. EarlyInterest(position, t) = Min2(ScheduledInterest(position), accrued + breakFee)
    BY DEF EarlyInterest
  <2> HIDE DEF accrued, breakFee
  <2>7. EarlyInterest(position, t) \in Nat
    BY <1>3, <2>2, <2>5, <2>6 DEF Min2, breakFee
  <2> QED
    BY <1>1, <1>4, <2>7 DEF Payoff
<1>5. CASE ~(t < position.maturity)
  <2>1. t - position.maturity \in Nat
    BY <1>1, <1>5
  <2> DEFINE overdue == Interest(position.principalAmount, position.terms.defaultAnnualRateBps,
                                 t - position.maturity)
  <2>2. overdue \in Nat
    BY <1>1, <1>2, <2>1, InterestType
  <2>3. LateInterest(position, t) = ScheduledInterest(position) + overdue
    BY DEF LateInterest
  <2>4. LateInterest(position, t) \in Nat
    BY <1>3, <2>2, <2>3
  <2> QED
    BY <1>1, <1>5, <2>4 DEF Payoff
<1> QED
    BY <1>4, <1>5

-----------------------------------------------------------------------------
(* Fills.                                                                   *)

\* An offer without fills has handed over no collateral and charged no fee.
LEMMA NothingFilled ==
    ASSUME NEW total \in Nat, NEW target \in Nat \ {0}
    PROVE  AllocatedCollateral(total, 0, target) = 0 /\ CumulativeFee(0, ProtocolFeeBps) = 0
<1>1. total * 0 = 0 /\ 0 \div target = 0
    OBVIOUS
<1>2. CumulativeFee(0, ProtocolFeeBps) = 0
    BY MarketAssumption, NothingCharged
<1> QED
    BY <1>1, <1>2 DEF AllocatedCollateral, MulDiv

\* The offer after a fill: its amounts grow to those of the larger fill, and nothing is left at the end.
LEMMA FilledByCumulative ==
    ASSUME NEW offer \in Offer, offer.totalCollateral > 0, offer.targetPrincipal > 0,
           CumulativelyFilled(offer),
           NEW fill \in 1..(offer.targetPrincipal - offer.filledPrincipal)
    PROVE  /\ FillCollateral(offer, fill) \in Nat /\ FillFee(offer, fill) \in Nat
           /\ FilledBy(offer, fill) \in Offer
           /\ CumulativelyFilled(FilledBy(offer, fill))
           /\ FilledBy(offer, fill).allocatedCollateral
                 = offer.allocatedCollateral + FillCollateral(offer, fill)
           /\ offer.filledPrincipal + fill < offer.targetPrincipal
                 => FilledBy(offer, fill).allocatedCollateral < offer.totalCollateral
<1> DEFINE filled == offer.filledPrincipal + fill
           allocated == AllocatedCollateral(offer.totalCollateral, filled, offer.targetPrincipal)
           fee == CumulativeFee(filled, ProtocolFeeBps)
           status == IF filled = offer.targetPrincipal THEN "FILLED" ELSE "PARTIALLY_FILLED"
<1>1. /\ offer.totalCollateral \in Nat \ {0} /\ offer.targetPrincipal \in Nat \ {0}
      /\ offer.filledPrincipal \in Nat /\ offer.allocatedCollateral \in Nat
      /\ offer.feeCharged \in Nat /\ fill \in Nat
    BY DEF Offer
<1>2. filled \in Nat /\ offer.filledPrincipal <= filled /\ filled <= offer.targetPrincipal
    BY <1>1
<1>3. allocated \in Nat /\ offer.allocatedCollateral <= allocated
  <2> HIDE DEF filled
  <2>1. MulDiv(offer.totalCollateral, filled, offer.targetPrincipal) \in Nat
    BY <1>1, <1>2, MulDivType
  <2>2. MulDiv(offer.totalCollateral, offer.filledPrincipal, offer.targetPrincipal)
           <= MulDiv(offer.totalCollateral, filled, offer.targetPrincipal)
    BY <1>1, <1>2, MulDivMonotone
  <2> QED
    BY <2>1, <2>2 DEF AllocatedCollateral, CumulativelyFilled
<1>4. fee \in Nat /\ offer.feeCharged <= fee
  <2>1. ProtocolFeeBps \in Nat /\ offer.feeCharged = CumulativeFee(offer.filledPrincipal, ProtocolFeeBps)
    BY MarketAssumption DEF CumulativelyFilled
  <2> HIDE DEF filled
  <2>2. /\ CumulativeFee(offer.filledPrincipal, ProtocolFeeBps) <= CumulativeFee(filled, ProtocolFeeBps)
        /\ CumulativeFee(filled, ProtocolFeeBps) \in Nat
    BY <1>1, <1>2, <2>1, CumulativeFeeMonotone
  <2> QED
    BY <2>1, <2>2
<1>5. filled = offer.targetPrincipal => allocated = offer.totalCollateral
    BY <1>1, MulDivWhole DEF AllocatedCollateral
<1>6. filled < offer.targetPrincipal => allocated < offer.totalCollateral
    BY <1>1, <1>2, MulDivProperPart DEF AllocatedCollateral
<1>7. /\ FillCollateral(offer, fill) = allocated - offer.allocatedCollateral
      /\ FillFee(offer, fill) = fee - offer.feeCharged
    BY DEF FillCollateral, FillFee
<1> HIDE DEF filled, allocated, fee
<1>8. FilledBy(offer, fill) =
        [offer EXCEPT !.filledPrincipal = filled, !.allocatedCollateral = allocated,
                      !.feeCharged = fee, !.status = status]
  <2>1. /\ offer.allocatedCollateral + FillCollateral(offer, fill) = allocated
        /\ offer.feeCharged + FillFee(offer, fill) = fee
    BY <1>1, <1>3, <1>4, <1>7
  <2>2. offer.filledPrincipal + fill = filled
    BY DEF filled
  <2>3. FilledBy(offer, fill) =
          [offer EXCEPT !.filledPrincipal = offer.filledPrincipal + fill,
                        !.allocatedCollateral =
                            offer.allocatedCollateral + FillCollateral(offer, fill),
                        !.feeCharged = offer.feeCharged + FillFee(offer, fill),
                        !.status = status]
    BY DEF FilledBy, filled, Offer
  <2> QED
    BY <2>1, <2>2, <2>3
<1>9. status \in OfferStatus
    BY DEF OfferStatus
<1> HIDE DEF status
<1>10. FilledBy(offer, fill) \in Offer
    BY <1>2, <1>3, <1>4, <1>8, <1>9 DEF Offer
<1>11. /\ FilledBy(offer, fill).filledPrincipal = filled
       /\ FilledBy(offer, fill).allocatedCollateral = allocated
       /\ FilledBy(offer, fill).feeCharged = fee
       /\ FilledBy(offer, fill).status = status
       /\ FilledBy(offer, fill).totalCollateral = offer.totalCollateral
       /\ FilledBy(offer, fill).targetPrincipal = offer.targetPrincipal
    BY <1>8 DEF Offer
<1>12. CumulativelyFilled(FilledBy(offer, fill))
    BY <1>2, <1>5, <1>11 DEF CumulativelyFilled, allocated, fee, status
<1>13. /\ FillCollateral(offer, fill) \in Nat /\ FillFee(offer, fill) \in Nat
       /\ allocated = offer.allocatedCollateral + FillCollateral(offer, fill)
    BY <1>1, <1>3, <1>4, <1>7
<1> QED
    BY <1>6, <1>10, <1>11, <1>12, <1>13 DEF filled

-----------------------------------------------------------------------------
(* New records and changes of status.                                       *)

\* A snapshot of a risk configuration has the close-out terms' types.
LEMMA SnapshotType ==
    ASSUME NEW c \in RiskConfig
    PROVE  SnapshotOf(c) \in CloseoutTerms
BY DEF RiskConfig, SnapshotOf, CloseoutTerms

\* An offer with another status is an offer.
LEMMA OfferStatusType ==
    ASSUME NEW offer \in Offer, NEW status \in OfferStatus
    PROVE  [offer EXCEPT !.status = status] \in Offer
BY DEF Offer

\* A position with another status is a position.
LEMMA PositionStatusType ==
    ASSUME NEW position \in Position, NEW status \in PositionStatus
    PROVE  [position EXCEPT !.status = status] \in Position
BY DEF Position

\* The position a fill creates has a position's types.
LEMMA NewPositionType ==
    ASSUME NEW buyer \in Account, NEW o \in OfferIds, NEW fill \in Nat,
           offers \in [OfferIds -> Offer], risk \in RiskConfig, now \in Nat,
           FillCollateral(offers[o], fill) \in Nat
    PROVE  NewPosition(buyer, o, fill) \in Position
<1>1. /\ offers[o].terms \in Terms /\ offers[o].terms.duration \in Nat
      /\ offers[o].seller \in Account \cup {NoAccount}
    BY DEF Offer, Terms
<1>2. GracePeriod \in Nat
    BY MarketAssumption
<1>3. SnapshotOf(risk) \in CloseoutTerms
    BY SnapshotType
<1> QED
    BY <1>1, <1>2, <1>3 DEF NewPosition, Position, PositionStatus

-----------------------------------------------------------------------------
(* Steps that leave the records of the market alone.                        *)

\* The variables OffersInv and CloseoutInv are about.
offerCustodyVars == <<offers, offerReserved>>
closeoutVars == <<positions, nextPositionId, positionForAuction, positionLocked, auctionLocked,
                  auctionVars>>

\* The offers' part of the invariant depends on offers and their buckets only.
LEMMA OffersFrame ==
    ASSUME OffersInv, UNCHANGED offerCustodyVars
    PROVE  OffersInv'
BY DEF OffersInv, OfferSound, OfferCustody, FillsAreCumulative, CumulativelyFilled,
       offerCustodyVars

\* Time passing leaves the close-outs as they were.
LEMMA CloseoutFrame ==
    ASSUME IInv, UNCHANGED closeoutVars, now' \in Nat, now <= now'
    PROVE  CloseoutInv'
<1> USE DEF closeoutVars, auctionVars
<1>1. ASSUME NEW p \in PositionIds PROVE (PositionSound(p) /\ PositionCustody(p))'
  <2>1. positions[p] \in Position /\ now \in Nat /\ PositionSound(p) /\ PositionCustody(p)
    BY DEF IInv, TypeOK, RecordsInv, CloseoutInv
  <2> QED
    BY <2>1 DEF PositionSound, PositionCustody, Position
<1>2. ASSUME NEW x \in AuctionIds PROVE (AuctionCustody(x) /\ AuctionSound(auctions[x]))'
  <2>1. /\ auctions[x] \in Auction /\ now \in Nat
        /\ AuctionSound(auctions[x]) /\ AuctionCustody(x)
    BY DEF IInv, TypeOK, AuctionTypeOK, RecordsInv, CloseoutInv, AuctionsSound
  <2> QED
    BY <2>1 DEF AuctionSound, AuctionCustody, Auction
<1>3. AuctionAgreement'
    BY DEF IInv, RecordsInv, CloseoutInv, AuctionAgreement
<1> QED
    BY <1>1, <1>2, <1>3 DEF CloseoutInv, AuctionsSound

custodyVars == <<offerCustodyVars, closeoutVars>>

\* The records' invariant is untouched by a step that moves none of its variables but the clock.
LEMMA RecordsFrame ==
    ASSUME IInv, UNCHANGED custodyVars, now' \in Nat, now <= now'
    PROVE  RecordsInv'
BY OffersFrame, CloseoutFrame DEF IInv, RecordsInv, custodyVars

\* A deposit preserves the invariant.
LEMMA DepositCollateralStep ==
    ASSUME IInv, NEW a \in Account, NEW n \in Amounts, DepositCollateral(a, n)
    PROVE  IInv'
<1>1. VaultCall(a, a, n) /\ n \in Nat
    BY VaultAssumption DEF DepositCollateral, CanDepositCollateral, VaultCall
<1>2. VaultTypeOK'
    BY <1>1, VaultCallType DEF IInv, TypeOK
<1>3. TypeOK'
    BY <1>2, Frames DEF IInv, TypeOK, DepositCollateral, CanDepositCollateral, marketVars,
                        recordVars, adminVars
<1>4. RecordsInv'
    BY RecordsFrame DEF DepositCollateral, CanDepositCollateral, DepositFor, CanDeposit,
                        marketVars, recordVars, custodyVars, offerCustodyVars, closeoutVars, IInv,
                        TypeOK
<1> QED
    BY <1>3, <1>4 DEF IInv

\* A withdrawal preserves the invariant.
LEMMA WithdrawCollateralStep ==
    ASSUME IInv, NEW a \in Account, NEW b \in Recipients, NEW n \in Amounts,
           WithdrawCollateral(a, n, b)
    PROVE  IInv'
<1>1. VaultCall(a, b, n) /\ n \in Nat /\ b \in Account
    BY VaultAssumption, MarketAssumption DEF WithdrawCollateral, CanWithdrawCollateral, VaultCall
<1>2. VaultTypeOK'
    BY <1>1, VaultCallType DEF IInv, TypeOK
<1>3. TypeOK'
    BY <1>2, Frames DEF IInv, TypeOK, WithdrawCollateral, CanWithdrawCollateral, marketVars,
                        recordVars, adminVars
<1>4. RecordsInv'
    BY RecordsFrame DEF WithdrawCollateral, CanWithdrawCollateral, WithdrawTo, marketVars,
                        recordVars, custodyVars, offerCustodyVars, closeoutVars, IInv, TypeOK
<1> QED
    BY <1>3, <1>4 DEF IInv

\* The clock preserves the invariant.
LEMMA TickStep ==
    ASSUME IInv, Tick
    PROVE  IInv'
<1>1. now' \in Nat /\ now <= now'
    BY DEF IInv, TypeOK, Tick
<1>2. TypeOK'
    BY <1>1, Frames DEF IInv, TypeOK, Tick, marketVars, recordVars, adminVars
<1>3. RecordsInv'
    BY <1>1, RecordsFrame DEF Tick, marketVars, recordVars, custodyVars, offerCustodyVars, closeoutVars, vaultVars, bucketVars
<1> QED
    BY <1>2, <1>3 DEF IInv

\* An escrow claim preserves the invariant.
LEMMA EscrowClaimStep ==
    ASSUME IInv, NEW a \in Account, NEW b \in Recipients, NEW n \in ClaimAmounts, NEW c,
           EscrowClaim(a, c, n, b)
    PROVE  IInv'
<1>1. n \in Nat /\ b \in Account
    BY MarketAssumption
<1>2. EscrowTypeOK'
    BY <1>1, EscrowClaimType DEF IInv, TypeOK, EscrowClaim
<1>3. TypeOK'
    BY <1>2, Frames DEF IInv, TypeOK, EscrowClaim, marketVars, recordVars, adminVars
<1>4. RecordsInv'
    BY RecordsFrame DEF EscrowClaim, marketVars, recordVars, custodyVars, offerCustodyVars, closeoutVars, vaultVars, bucketVars, IInv, TypeOK
<1> QED
    BY <1>3, <1>4 DEF IInv

\* The signers, the compliance pool and governance touch no record.
LEMMA OutsideStep ==
    ASSUME IInv,
           \/ \E price \in Prices, observedAt \in 1..now, v \in Validity, t \in SettlementTokens :
                 SubmitValuation(price, observedAt, v, t)
           \/ InvalidateValuation
           \/ ChangeCompliance
           \/ GovernRisk
           \/ Administer
    PROVE  IInv'
<1>1. CASE \E price \in Prices, observedAt \in 1..now, v \in Validity, t \in SettlementTokens :
              SubmitValuation(price, observedAt, v, t)
  <2>1. PICK price \in Prices, observedAt \in 1..now, v \in Validity, t \in SettlementTokens :
            SubmitValuation(price, observedAt, v, t)
    BY <1>1
  <2>2. price \in Nat /\ observedAt \in Nat /\ v \in Nat /\ now \in Nat
    BY FeedAssumption DEF IInv, TypeOK
  <2>3. FeedTypeOK'
    <3>1. invalidated' \in BOOLEAN
      BY <2>1, Zenon DEF SubmitValuation, Publish
    <3>2. valuation' \in Valuation
      BY <2>1, <2>2 DEF SubmitValuation, Publish, Valuation
    <3> QED
      BY <3>1, <3>2 DEF FeedTypeOK
  <2>4. TypeOK'
    BY <2>1, <2>3, Frames DEF IInv, TypeOK, SubmitValuation, marketVars, recordVars, adminVars
  <2>5. RecordsInv'
    BY <2>1, RecordsFrame
       DEF SubmitValuation, marketVars, recordVars, custodyVars, offerCustodyVars, closeoutVars, vaultVars, bucketVars, IInv, TypeOK
  <2> QED
    BY <2>4, <2>5 DEF IInv
<1>2. CASE InvalidateValuation
  <2>1. FeedTypeOK' /\ interventions' \in Nat
    BY <1>2 DEF InvalidateValuation, Invalidate, Intervene, FeedTypeOK, IInv, TypeOK
  <2>2. TypeOK'
    BY <1>2, <2>1, Frames DEF IInv, TypeOK, InvalidateValuation, recordVars, adminVars
  <2>3. RecordsInv'
    BY <1>2, RecordsFrame
       DEF InvalidateValuation, recordVars, custodyVars, offerCustodyVars, closeoutVars, vaultVars, bucketVars, IInv, TypeOK
  <2> QED
    BY <2>2, <2>3 DEF IInv
<1>3. CASE ChangeCompliance
  <2>1. EscrowTypeOK' /\ interventions' \in Nat
    BY <1>3, MarketAssumption
       DEF ChangeCompliance, SetCompliance, Intervene, EscrowTypeOK, IInv, TypeOK
  <2>2. TypeOK'
    BY <1>3, <2>1, Frames DEF IInv, TypeOK, ChangeCompliance, recordVars, adminVars
  <2>3. RecordsInv'
    BY <1>3, RecordsFrame 
       DEF ChangeCompliance, recordVars, custodyVars, offerCustodyVars, closeoutVars, vaultVars, bucketVars, IInv, TypeOK
  <2> QED
    BY <2>2, <2>3 DEF IInv
<1>4. CASE GovernRisk
  <2>1. RiskTypeOK' /\ interventions' \in Nat
    BY <1>4, RiskAssumption
       DEF GovernRisk, ScheduleConfig, ApplyConfig, CancelConfig, Intervene, RiskTypeOK, IInv,
           TypeOK
  <2>2. TypeOK'
    BY <1>4, <2>1, Frames DEF IInv, TypeOK, GovernRisk, recordVars, adminVars
  <2>3. RecordsInv'
    BY <1>4, RecordsFrame 
       DEF GovernRisk, recordVars, custodyVars, offerCustodyVars, closeoutVars, vaultVars, bucketVars, IInv, TypeOK
  <2> QED
    BY <2>2, <2>3 DEF IInv
<1>5. CASE Administer
  <2>1. /\ asset' \in [configured: BOOLEAN, enabled: BOOLEAN, ready: BOOLEAN]
        /\ entryPaused' \in BOOLEAN
        /\ feeTreasury' \in Account /\ pauseGuardian' \in Account
    <3>1. /\ asset \in [configured: BOOLEAN, enabled: BOOLEAN, ready: BOOLEAN]
          /\ entryPaused \in BOOLEAN
          /\ feeTreasury \in Account /\ pauseGuardian \in Account
      BY DEF IInv, TypeOK
    <3>2. CASE ConfigureAsset
      BY <3>1, <3>2 DEF ConfigureAsset
    <3>3. CASE \E flag \in BOOLEAN : SetAssetVaultReady(flag)
      BY <3>1, <3>3 DEF SetAssetVaultReady
    <3>4. CASE \E flag \in BOOLEAN : SetAssetEnabled(flag)
      BY <3>1, <3>4 DEF SetAssetEnabled
    <3>5. CASE \E flag \in BOOLEAN : SetEntryPaused(flag)
      BY <3>1, <3>5 DEF SetEntryPaused
    <3>6. CASE \E a \in Account : GuardianPauseEntry(a)
      BY <3>1, <3>6, Zenon DEF GuardianPauseEntry
    <3>7. CASE \E a \in Appointees : SetPauseGuardian(a)
      BY <3>1, <3>7, MarketAssumption DEF SetPauseGuardian
    <3>8. CASE \E a \in Appointees : SetFeeTreasury(a)
      BY <3>1, <3>8, MarketAssumption DEF SetFeeTreasury
    <3> QED
      BY <1>5, <3>2, <3>3, <3>4, <3>5, <3>6, <3>7, <3>8 DEF Administer
  <2> interventions' \in Nat
    BY <1>5 DEF Administer, Intervene, IInv, TypeOK
  <2>2. TypeOK'
    BY <1>5, <2>1, Frames DEF IInv, TypeOK, Administer, recordVars
  <2>3. RecordsInv'
    BY <1>5, RecordsFrame 
       DEF Administer, recordVars, custodyVars, offerCustodyVars, closeoutVars, vaultVars, bucketVars, IInv, TypeOK
  <2> QED
    BY <2>2, <2>3 DEF IInv
<1> QED
    BY <1>1, <1>2, <1>3, <1>4, <1>5

-----------------------------------------------------------------------------
(* Steps of an offer.                                                       *)

\* Rewriting one offer and its bucket preserves the offers' invariant if the new one satisfies it.
LEMMA OfferReplaced ==
    ASSUME OffersInv, offers \in [OfferIds -> Offer], offerReserved \in [OfferIds -> Bucket],
           NEW o \in OfferIds, NEW new \in Offer, NEW bucket,
           offers' = [offers EXCEPT ![o] = new],
           offerReserved' = [offerReserved EXCEPT ![o] = bucket],
           new.seller \in Account, new.totalCollateral > 0, new.targetPrincipal > 0,
           CumulativelyFilled(new),
           bucket = IF new.status \in Fillable
                    THEN FullBucket(new.seller, new.totalCollateral - new.allocatedCollateral)
                    ELSE EmptyBucket
    PROVE  OffersInv' /\ offers' \in [OfferIds -> Offer]
<1>1. /\ \A r \in OfferIds : offers'[r] = IF r = o THEN new ELSE offers[r]
      /\ \A r \in OfferIds : offerReserved'[r] = IF r = o THEN bucket ELSE offerReserved[r]
      /\ offers' \in [OfferIds -> Offer]
    OBVIOUS
<1>2. ASSUME NEW r \in OfferIds PROVE (OfferSound(r) /\ OfferCustody(r))'
    BY <1>1 DEF OffersInv, OfferSound, OfferCustody
<1>3. ASSUME NEW r \in OfferIds, (offers[r].status # "NONE")'
      PROVE  CumulativelyFilled(offers[r])'
  <2>1. CASE r = o
    BY <1>1, <2>1 DEF CumulativelyFilled
  <2>2. CASE r # o
    BY <1>1, <1>3, <2>2 DEF OffersInv, FillsAreCumulative, CumulativelyFilled
  <2> QED
    BY <2>1, <2>2
<1> QED
    BY <1>1, <1>2, <1>3 DEF OffersInv, FillsAreCumulative

\* Creating an offer preserves the invariant.
LEMMA CreateOfferStep ==
    ASSUME IInv, NEW a \in Account, NEW q \in OfferParams, CreateOffer(a, q)
    PROVE  IInv'
<1> DEFINE terms == [annualRateBps |-> q.annualRateBps,
                     defaultAnnualRateBps |-> Min2(q.annualRateBps + risk.defaultSpreadBps,
                                                   risk.maxDefaultRateBps),
                     duration |-> q.duration,
                     earlyMinHoldBps |-> risk.earlyMinHoldBps,
                     earlyBreakFeeBps |-> risk.earlyBreakFeeBps,
                     earlyRepurchaseEnabled |-> q.earlyRepurchaseEnabled]
           new == [status |-> "OPEN", seller |-> a, permittedBuyer |-> q.permittedBuyer,
                   totalCollateral |-> q.collateralAmount, targetPrincipal |-> q.targetPrincipal,
                   filledPrincipal |-> 0, allocatedCollateral |-> 0, feeCharged |-> 0,
                   minimumFill |-> q.minimumFill, offerExpiry |-> now + q.lifetime,
                   terms |-> terms]
<1>1. /\ q.collateralAmount \in Nat \ {0} /\ q.targetPrincipal \in Nat \ {0}
      /\ q.minimumFill \in Nat /\ q.annualRateBps \in Nat /\ q.duration \in Nat
      /\ q.lifetime \in Nat /\ q.permittedBuyer \in Account \cup {NoAccount}
      /\ q.earlyRepurchaseEnabled \in BOOLEAN
    BY MarketAssumption DEF CreateOffer, CanCreateOffer, ValidOfferParams
<1>2. /\ risk.defaultSpreadBps \in Nat /\ risk.maxDefaultRateBps \in Nat
      /\ risk.earlyMinHoldBps \in Nat /\ risk.earlyBreakFeeBps \in Nat
    BY DEF IInv, TypeOK, RiskTypeOK, RiskConfig
<1>3. terms \in Terms
    BY <1>1, <1>2 DEF Terms, Min2
<1>4. /\ offers' = [offers EXCEPT ![nextOfferId] = new]
      /\ nextOfferId \in OfferIds /\ nextOfferId' = nextOfferId + 1
      /\ ReserveOffer(a, nextOfferId, q.collateralAmount)
    BY DEF CreateOffer, CanCreateOffer
<1> HIDE DEF terms
<1>5. new \in Offer
    BY <1>1, <1>3 DEF Offer, OfferStatus, IInv, TypeOK
<1>6. CumulativelyFilled(new)
  <2>1. /\ new.filledPrincipal = 0 /\ new.allocatedCollateral = 0 /\ new.feeCharged = 0
        /\ new.totalCollateral = q.collateralAmount /\ new.targetPrincipal = q.targetPrincipal
        /\ new.status = "OPEN"
    OBVIOUS
  <2>2. /\ AllocatedCollateral(q.collateralAmount, 0, q.targetPrincipal) = 0
        /\ CumulativeFee(0, ProtocolFeeBps) = 0
    BY <1>1, NothingFilled
  <2> HIDE DEF new
  <2> QED
    BY <1>1, <2>1, <2>2 DEF CumulativelyFilled
<1>7. /\ new.seller = a /\ new.totalCollateral = q.collateralAmount
      /\ new.targetPrincipal = q.targetPrincipal /\ new.allocatedCollateral = 0
      /\ new.status \in Fillable
    BY DEF Fillable
<1> HIDE DEF new
<1>8. offerReserved' = [offerReserved EXCEPT ![nextOfferId] = FullBucket(a, q.collateralAmount)]
    BY <1>4 DEF ReserveOffer
<1>9. OffersInv' /\ offers' \in [OfferIds -> Offer]
  <2>1. q.collateralAmount = new.totalCollateral - new.allocatedCollateral
    BY <1>1, <1>7
  <2>2. FullBucket(a, q.collateralAmount) =
          IF new.status \in Fillable
          THEN FullBucket(new.seller, new.totalCollateral - new.allocatedCollateral)
          ELSE EmptyBucket
    BY <1>7, <2>1
  <2>3. /\ OffersInv /\ offers \in [OfferIds -> Offer]
        /\ offerReserved \in [OfferIds -> Bucket]
    BY DEF IInv, TypeOK, VaultTypeOK, RecordsInv
  <2>4. new.seller \in Account /\ new.totalCollateral > 0 /\ new.targetPrincipal > 0
    BY <1>1, <1>7
  <2> HIDE DEF OffersInv
  <2> QED
    BY <1>4, <1>5, <1>6, <1>8, <2>2, <2>3, <2>4, OfferReplaced
<1>10. CloseoutInv'
    BY <1>4, CloseoutFrame DEF CreateOffer, CanCreateOffer, ReserveOffer, closeoutVars, IInv, TypeOK
<1>11. VaultTypeOK'
  <2>1. VaultCall(a, a, q.collateralAmount)
    BY <1>4 DEF VaultCall
  <2> QED
    BY <1>1, <2>1, VaultCallType DEF IInv, TypeOK
<1>12. TypeOK'
    BY <1>4, <1>9, <1>11, Frames DEF IInv, TypeOK, CreateOffer, CanCreateOffer, adminVars
<1> QED
    BY <1>9, <1>10, <1>12 DEF IInv, RecordsInv

\* An offer that can still be filled has collateral left to allocate.
LEMMA FillableHasCollateral ==
    ASSUME NEW offer \in Offer, offer.totalCollateral > 0, offer.targetPrincipal > 0,
           CumulativelyFilled(offer), offer.status \in Fillable
    PROVE  offer.allocatedCollateral < offer.totalCollateral
<1>1. /\ offer.totalCollateral \in Nat \ {0} /\ offer.targetPrincipal \in Nat \ {0}
      /\ offer.filledPrincipal \in Nat /\ offer.filledPrincipal < offer.targetPrincipal
    BY DEF Offer, CumulativelyFilled, Fillable
<1> QED
    BY <1>1, MulDivProperPart DEF CumulativelyFilled, AllocatedCollateral

\* Cancelling or expiring an offer preserves the invariant.
LEMMA CloseOfferStep ==
    ASSUME IInv, NEW o \in OfferIds, NEW status \in {"CANCELLED", "EXPIRED"},
           CloseOffer(o, status)
    PROVE  IInv'
<1> DEFINE offer == offers[o]
           left == offer.totalCollateral - offer.allocatedCollateral
           new == [offer EXCEPT !.status = status]
<1>1. /\ offer \in Offer /\ offer.status \in Fillable /\ offer.seller \in Account
      /\ offer.totalCollateral > 0 /\ offer.targetPrincipal > 0 /\ CumulativelyFilled(offer)
      /\ offerReserved[o] = FullBucket(offer.seller, left)
    BY DEF CloseOffer, CanCloseOffer, IInv, TypeOK, RecordsInv, OffersInv, OfferSound, OfferCustody,
           FillsAreCumulative, Fillable
<1>2. left \in Nat \ {0} /\ offer.totalCollateral > offer.allocatedCollateral
    BY <1>1, FillableHasCollateral DEF Offer
<1>3. /\ new \in Offer /\ new.status = status /\ new.seller = offer.seller
      /\ new.totalCollateral = offer.totalCollateral
      /\ new.targetPrincipal = offer.targetPrincipal
      /\ new.filledPrincipal = offer.filledPrincipal
      /\ new.allocatedCollateral = offer.allocatedCollateral
      /\ new.feeCharged = offer.feeCharged
    BY <1>1 DEF Offer, OfferStatus
<1>4. offers' = [offers EXCEPT ![o] = new] /\ ReleaseOffer(offer.seller, o, left)
    BY <1>2 DEF CloseOffer, CanCloseOffer, IInv, TypeOK
<1> HIDE DEF new
<1>5. CumulativelyFilled(new)
    BY <1>1, <1>3 DEF CumulativelyFilled, Offer, Fillable
<1>6. offerReserved' = [offerReserved EXCEPT ![o] = EmptyBucket]
    BY <1>1, <1>4 DEF ReleaseOffer, Debited, FullBucket, IInv, TypeOK, VaultTypeOK
<1>7. OffersInv' /\ offers' \in [OfferIds -> Offer]
    BY <1>1, <1>3, <1>4, <1>5, <1>6, OfferReplaced
       DEF IInv, TypeOK, VaultTypeOK, RecordsInv, Fillable
<1>8. CloseoutInv'
    BY <1>4, CloseoutFrame DEF CloseOffer, CanCloseOffer, ReleaseOffer, closeoutVars, IInv, TypeOK
<1>9. VaultTypeOK'
  <2>1. VaultCall(offer.seller, offer.seller, left)
    BY <1>4 DEF VaultCall
  <2> QED
    BY <1>1, <1>2, <2>1, VaultCallType DEF IInv, TypeOK
<1>10. TypeOK'
    BY <1>7, <1>9, Frames DEF CloseOffer, CanCloseOffer, IInv, TypeOK, adminVars
<1> QED
    BY <1>7, <1>8, <1>10 DEF IInv, RecordsInv

-----------------------------------------------------------------------------
(* A fill.                                                                  *)

\* Filling an offer preserves the invariant.
LEMMA FillOfferStep ==
    ASSUME IInv, NEW buyer \in Account, NEW o \in OfferIds, NEW fill, NEW limit,
           FillOffer(buyer, o, fill, limit)
    PROVE  IInv'
<1> DEFINE offer == offers[o]
           p == nextPositionId
           locked == FillCollateral(offer, fill)
           fee == FillFee(offer, fill)
           filled == FilledBy(offer, fill)
           position == NewPosition(buyer, o, fill)
           proceedsPaid == PaidTo(book, buyer, offer.seller, fill - fee)
<1>1. /\ offer \in Offer /\ offer.status \in Fillable /\ offer.seller \in Account
      /\ offer.totalCollateral > 0 /\ offer.targetPrincipal > 0 /\ CumulativelyFilled(offer)
      /\ offerReserved[o] =
            FullBucket(offer.seller, offer.totalCollateral - offer.allocatedCollateral)
    BY DEF FillOffer, CanFillOffer, CanFill, IInv, TypeOK, RecordsInv, OffersInv, OfferSound,
           OfferCustody,
           FillsAreCumulative, Fillable
<1>2. /\ fill \in 1..(offer.targetPrincipal - offer.filledPrincipal)
      /\ fee < fill /\ buyer # offer.seller
    BY DEF FillOffer, CanFillOffer, CanFill
<1>3. /\ locked \in Nat /\ fee \in Nat /\ filled \in Offer /\ CumulativelyFilled(filled)
      /\ filled.allocatedCollateral = offer.allocatedCollateral + locked
      /\ offer.filledPrincipal + fill < offer.targetPrincipal
            => filled.allocatedCollateral < offer.totalCollateral
    BY <1>1, <1>2, FilledByCumulative
<1>4. /\ fill \in Nat /\ offer.totalCollateral \in Nat /\ offer.targetPrincipal \in Nat
      /\ offer.allocatedCollateral \in Nat /\ offer.filledPrincipal \in Nat
    BY <1>1, <1>2 DEF Offer
<1>5. /\ filled.seller = offer.seller /\ filled.totalCollateral = offer.totalCollateral
      /\ filled.targetPrincipal = offer.targetPrincipal
      /\ filled.status = IF offer.filledPrincipal + fill = offer.targetPrincipal
                         THEN "FILLED" ELSE "PARTIALLY_FILLED"
    BY <1>1 DEF FilledBy, Offer
<1>6. /\ offers' = [offers EXCEPT ![o] = filled]
      /\ positions' = [positions EXCEPT ![p] = position]
      /\ p \in PositionIds /\ p \in Nat /\ nextPositionId' = p + 1
      /\ AllocatePosition(offer.seller, o, p, locked)
      /\ UNCHANGED <<positionForAuction, auctionVars, now>>
    BY DEF FillOffer, CanFillOffer, IInv, TypeOK
<1>7. position \in Position
    BY <1>3, <1>4, NewPositionType DEF IInv, TypeOK, RiskTypeOK
<1>8. /\ position.status = "ACTIVE" /\ position.seller = offer.seller /\ position.buyer = buyer
      /\ position.collateralAmount = locked
      /\ position.acceptedAt = now
      /\ position.maturity = now + position.terms.duration
    BY DEF NewPosition
<1>9. locked > 0 /\ locked <= offer.totalCollateral - offer.allocatedCollateral
    BY <1>1, <1>6 DEF AllocatePosition, CanDebitBucket, FullBucket
<1>10. offerReserved' = [offerReserved EXCEPT ![o] =
            IF filled.status \in Fillable
            THEN FullBucket(filled.seller, filled.totalCollateral - filled.allocatedCollateral)
            ELSE EmptyBucket]
  <2> DEFINE left == offer.totalCollateral - offer.allocatedCollateral
  <2>1. offerReserved' =
          [offerReserved EXCEPT ![o] = Debited(FullBucket(offer.seller, left), locked)]
    BY <1>1, <1>6 DEF AllocatePosition, IInv, TypeOK, VaultTypeOK
  <2>2. CASE offer.filledPrincipal + fill = offer.targetPrincipal
    <3>1. filled.status = "FILLED" /\ filled.allocatedCollateral = offer.totalCollateral
      BY <1>3, <1>5, <2>2 DEF CumulativelyFilled
    <3>2. left = locked
      BY <1>3, <1>4, <3>1
    <3> QED
      BY <2>1, <3>1, <3>2 DEF Debited, FullBucket, Fillable
  <2>3. CASE offer.filledPrincipal + fill # offer.targetPrincipal
    <3>1. /\ filled.status = "PARTIALLY_FILLED"
          /\ filled.allocatedCollateral < offer.totalCollateral
      BY <1>2, <1>3, <1>4, <1>5, <2>3
    <3>2. left # locked /\ left - locked = offer.totalCollateral - filled.allocatedCollateral
      BY <1>3, <1>4, <3>1
    <3>3. Debited(FullBucket(offer.seller, left), locked) = FullBucket(offer.seller, left - locked)
      BY <3>2 DEF Debited, FullBucket
    <3> QED
      BY <1>5, <2>1, <3>1, <3>2, <3>3 DEF Fillable
  <2> QED
    BY <2>2, <2>3
<1> HIDE DEF filled, position, locked, fee
<1>11. OffersInv' /\ offers' \in [OfferIds -> Offer]
  <2>1. /\ OffersInv /\ offers \in [OfferIds -> Offer]
        /\ offerReserved \in [OfferIds -> Bucket]
    BY DEF IInv, TypeOK, VaultTypeOK, RecordsInv
  <2>2. filled.seller \in Account /\ filled.totalCollateral > 0 /\ filled.targetPrincipal > 0
    BY <1>1, <1>5
  <2> QED
    BY <1>3, <1>6, <1>10, <2>1, <2>2, OfferReplaced
<1>12. CloseoutInv'
  <2>1. /\ positions \in [PositionIds -> Position] /\ now \in Nat
        /\ positionLocked \in [PositionIds -> Bucket]
        /\ positionLocked' = [positionLocked EXCEPT ![p] = FullBucket(offer.seller, locked)]
        /\ UNCHANGED auctionLocked
    BY <1>6 DEF AllocatePosition, IInv, TypeOK, VaultTypeOK
  <2>2. /\ \A q \in PositionIds : q # p => positions'[q] = positions[q]
        /\ \A q \in PositionIds : q # p => positionLocked'[q] = positionLocked[q]
        /\ positions'[p] = position /\ positionLocked'[p] = FullBucket(offer.seller, locked)
    BY <1>6, <2>1
  <2>3. ASSUME NEW q \in PositionIds PROVE (PositionSound(q) /\ PositionCustody(q))'
    <3>1. PositionSound(q) /\ PositionCustody(q) /\ q \in Nat
      BY MarketAssumption DEF IInv, RecordsInv, CloseoutInv
    <3>2. CASE q = p
      BY <1>1, <1>2, <1>6, <1>7, <1>8, <1>9, <2>1, <2>2, <3>2
         DEF PositionSound, PositionCustody, Position, Terms
    <3>3. CASE q # p
      BY <1>6, <2>2, <3>1, <3>3 DEF PositionSound, PositionCustody
    <3> QED
      BY <3>2, <3>3
  <2>4. \A x \in AuctionIds : positionForAuction[x] # p
    <3> SUFFICES ASSUME NEW x \in AuctionIds, positionForAuction[x] = p PROVE FALSE
      OBVIOUS
    <3>1. p # 0
      BY <1>6, MarketAssumption
    <3>2. positions[p].status # "NONE"
      BY <3>1 DEF IInv, RecordsInv, CloseoutInv, AuctionAgreement
    <3> QED
      BY <1>6, <3>2 DEF IInv, RecordsInv, CloseoutInv, PositionSound
  <2>5. ASSUME NEW x \in AuctionIds PROVE (AuctionCustody(x) /\ AuctionSound(auctions[x]))'
    <3>1. /\ AuctionCustody(x) /\ AuctionSound(auctions[x])
          /\ positionForAuction[x] \in PositionIds \cup {0}
      BY DEF IInv, TypeOK, RecordsInv, CloseoutInv, AuctionsSound
    <3> QED
      BY <1>6, <2>1, <2>2, <2>4, <3>1 DEF AuctionCustody, AuctionSound, auctionVars
  <2>6. AuctionAgreement'
    <3>1. \A x \in AuctionIds : positionForAuction[x] \in PositionIds \cup {0}
      BY DEF IInv, TypeOK
    <3>2. AuctionAgreement
      BY DEF IInv, RecordsInv, CloseoutInv
    <3> QED
      BY <1>6, <2>2, <2>4, <3>1, <3>2 DEF AuctionAgreement, auctionVars
  <2> QED
    BY <2>3, <2>5, <2>6 DEF CloseoutInv, AuctionsSound
<1>13. VaultTypeOK'
  <2>1. VaultCall(offer.seller, offer.seller, locked)
    BY <1>6 DEF VaultCall
  <2> QED
    BY <1>1, <1>3, <2>1, VaultCallType DEF IInv, TypeOK
<1>14. EscrowTypeOK'
  <2>1. /\ CanPay(book, buyer, fill - fee)
        /\ fee > 0 => CanPayOrEscrow(proceedsPaid, buyer, feeTreasury, fee)
        /\ book' = PaidOrEscrowed(proceedsPaid, buyer, feeTreasury, fee)
        /\ UNCHANGED compliant
    BY DEF FillOffer, CanFillOffer, fee
  <2>2. book \in Book /\ feeTreasury \in Account /\ fill - fee \in Nat
    BY <1>2, <1>3, <1>4 DEF IInv, TypeOK, EscrowTypeOK
  <2>3. proceedsPaid \in Book
    BY <1>1, <2>1, <2>2, PaidToType
  <2> HIDE DEF proceedsPaid
  <2>4. book' \in Book
    BY <1>3, <2>1, <2>2, <2>3, PaidOrEscrowedType, NothingPaid
  <2> QED
    BY <2>1, <2>4 DEF EscrowTypeOK, IInv, TypeOK
<1>15. TypeOK'
  <2>1. positions' \in [PositionIds -> Position] /\ nextPositionId' \in Nat \ {0}
    BY <1>6, <1>7 DEF IInv, TypeOK
  <2> QED
    BY <1>11, <1>13, <1>14, <2>1, Frames DEF FillOffer, CanFillOffer, IInv, TypeOK, adminVars
<1> QED
    BY <1>11, <1>12, <1>15 DEF IInv, RecordsInv

-----------------------------------------------------------------------------
(* Repayment and close-out.                                                 *)

\* A position whose status alone changes.
LEMMA PositionChanged ==
    ASSUME positions \in [PositionIds -> Position], NEW p \in PositionIds,
           NEW status \in PositionStatus,
           positions' = [positions EXCEPT ![p].status = status]
    PROVE  /\ positions' \in [PositionIds -> Position]
           /\ \A q \in PositionIds : q # p => positions'[q] = positions[q]
           /\ positions'[p].status = status
           /\ positions'[p].seller = positions[p].seller
           /\ positions'[p].buyer = positions[p].buyer
           /\ positions'[p].auctionId = positions[p].auctionId
           /\ positions'[p].collateralAmount = positions[p].collateralAmount
           /\ positions'[p].principalAmount = positions[p].principalAmount
           /\ positions'[p].frozenDebt = positions[p].frozenDebt
           /\ positions'[p].acceptedAt = positions[p].acceptedAt
           /\ positions'[p].maturity = positions[p].maturity
           /\ positions'[p].repaymentDeadline = positions[p].repaymentDeadline
           /\ positions'[p].terms = positions[p].terms
           /\ positions'[p].closeout = positions[p].closeout
<1> DEFINE new == [positions[p] EXCEPT !.status = status]
<1>1. positions' = [positions EXCEPT ![p] = new]
    OBVIOUS
<1>2. new \in Position
    BY PositionStatusType
<1>3. /\ new.status = status /\ new.seller = positions[p].seller
      /\ new.buyer = positions[p].buyer /\ new.auctionId = positions[p].auctionId
      /\ new.collateralAmount = positions[p].collateralAmount
      /\ new.principalAmount = positions[p].principalAmount
      /\ new.frozenDebt = positions[p].frozenDebt
      /\ new.acceptedAt = positions[p].acceptedAt /\ new.maturity = positions[p].maturity
      /\ new.repaymentDeadline = positions[p].repaymentDeadline
      /\ new.terms = positions[p].terms /\ new.closeout = positions[p].closeout
    BY DEF Position
<1> HIDE DEF new
<1> QED
    BY <1>1, <1>2, <1>3

\* No auction decides a position that is still active.
LEMMA ActiveHasNoAuction ==
    ASSUME IInv, NEW p \in PositionIds, positions[p].status = "ACTIVE", NEW x \in AuctionIds
    PROVE  positionForAuction[x] # p
<1>1. p # 0
    BY MarketAssumption
<1> QED
    BY <1>1 DEF IInv, RecordsInv, CloseoutInv, AuctionAgreement

\* An active position that is repaid or seized leaves the auctions as they were.
LEMMA ActiveCloses ==
    ASSUME IInv, NEW p \in PositionIds, positions[p].status = "ACTIVE",
           NEW status \in {"REPAID", "COLLATERAL_CLAIMED"},
           status = "REPAID" \/ now > positions[p].repaymentDeadline,
           positions' = [positions EXCEPT ![p].status = status],
           positionLocked' = [positionLocked EXCEPT ![p] = EmptyBucket],
           UNCHANGED <<nextPositionId, positionForAuction, auctionLocked, auctionVars, now>>
    PROVE  CloseoutInv' /\ positions' \in [PositionIds -> Position]
<1>1. positions \in [PositionIds -> Position] /\ positionLocked \in [PositionIds -> Bucket]
    BY DEF IInv, TypeOK, VaultTypeOK
<1>2. status \in PositionStatus
    BY DEF PositionStatus
<1>3. /\ positions' \in [PositionIds -> Position]
      /\ \A q \in PositionIds : q # p => positions'[q] = positions[q]
      /\ positions'[p].status = status
      /\ positions'[p].seller = positions[p].seller
      /\ positions'[p].buyer = positions[p].buyer
      /\ positions'[p].collateralAmount = positions[p].collateralAmount
      /\ positions'[p].acceptedAt = positions[p].acceptedAt
      /\ positions'[p].maturity = positions[p].maturity
      /\ positions'[p].repaymentDeadline = positions[p].repaymentDeadline
      /\ positions'[p].terms = positions[p].terms
    BY <1>1, <1>2, PositionChanged
<1>4. ASSUME NEW q \in PositionIds PROVE (PositionSound(q) /\ PositionCustody(q))'
  <2>1. PositionSound(q) /\ PositionCustody(q)
    BY DEF IInv, RecordsInv, CloseoutInv
  <2>2. CASE q = p
    BY <1>1, <1>3, <2>1, <2>2 DEF PositionSound, PositionCustody
  <2>3. CASE q # p
    BY <1>1, <1>3, <2>1, <2>3 DEF PositionSound, PositionCustody
  <2> QED
    BY <2>2, <2>3
<1>5. ASSUME NEW x \in AuctionIds PROVE (AuctionCustody(x) /\ AuctionSound(auctions[x]))'
  <2>1. /\ AuctionCustody(x) /\ AuctionSound(auctions[x])
        /\ positionForAuction[x] \in PositionIds \cup {0}
    BY DEF IInv, TypeOK, RecordsInv, CloseoutInv, AuctionsSound
  <2> QED
    BY <1>3, <2>1, ActiveHasNoAuction DEF AuctionCustody, AuctionSound, auctionVars
<1>6. AuctionAgreement'
  <2>1. AuctionAgreement /\ \A x \in AuctionIds : positionForAuction[x] \in PositionIds \cup {0}
    BY DEF IInv, TypeOK, RecordsInv, CloseoutInv
  <2> QED
    BY <1>3, <2>1, ActiveHasNoAuction DEF AuctionAgreement, auctionVars
<1> QED
    BY <1>3, <1>4, <1>5, <1>6 DEF CloseoutInv, AuctionsSound

\* A repayment preserves the invariant.
LEMMA RepurchaseStep ==
    ASSUME IInv, NEW a \in Account, NEW p \in PositionIds, NEW limit, NEW useEscrow,
           Repurchase(a, p, limit, useEscrow)
    PROVE  IInv'
<1> DEFINE position == positions[p]
           payoff == Payoff(position, now)
<1>1. /\ position \in Position /\ now \in Nat /\ position.status = "ACTIVE"
      /\ PayoffDefined(position, now)
      /\ position.seller = a /\ position.buyer \in Account
      /\ CanPay(book, a, payoff)
      /\ ReleasePosition(a, p)
    BY DEF Repurchase, CanRepurchase, IInv, TypeOK, RecordsInv, CloseoutInv, PositionSound
<1>2. payoff \in Nat
    BY <1>1, PayoffType
<1>3. CloseoutInv' /\ positions' \in [PositionIds -> Position]
    BY <1>1, ActiveCloses DEF Repurchase, CanRepurchase, ReleasePosition
<1>4. OffersInv'
    BY <1>1, OffersFrame DEF Repurchase, CanRepurchase, ReleasePosition, offerCustodyVars, IInv,
                             RecordsInv
<1>5. VaultTypeOK'
  <2>1. VaultCall(a, a, 0)
    BY <1>1 DEF VaultCall
  <2> QED
    BY <2>1, VaultCallType DEF IInv, TypeOK
<1> HIDE DEF payoff
<1>6. EscrowTypeOK'
  <2>1. book \in Book
    BY DEF IInv, TypeOK, EscrowTypeOK
  <2>2. PaidTo(book, a, position.buyer, payoff) \in Book
    BY <1>1, <1>2, <2>1, PaidToType
  <2>3. PaidToEscrow(book, a, payoff) \in Book
    BY <1>1, <1>2, <2>1, PaidToEscrowType
  <2>4. WithClaim(PaidToEscrow(book, a, payoff), position.buyer, payoff) \in Book
    BY <1>1, <1>2, <2>3, WithClaimType
  <2>5. \/ book' = PaidTo(book, a, position.buyer, payoff)
        \/ book' = WithClaim(PaidToEscrow(book, a, payoff), position.buyer, payoff)
    BY <1>1 DEF Repurchase, CanRepurchase, RepurchaseDirect, RepurchaseEscrowed, payoff
  <2> QED
    BY <2>2, <2>4, <2>5 DEF Repurchase, CanRepurchase, EscrowTypeOK, IInv, TypeOK
<1>7. TypeOK'
    BY <1>3, <1>5, <1>6, Frames DEF Repurchase, CanRepurchase, IInv, TypeOK, adminVars
<1> QED
    BY <1>3, <1>4, <1>7 DEF IInv, RecordsInv

\* Recovery in kind while the oracle is silent preserves the invariant.
LEMMA ClaimCollateralOnOracleFailureStep ==
    ASSUME IInv, NEW a \in Account, NEW b \in Recipients, NEW p \in PositionIds,
           ClaimCollateralOnOracleFailure(a, p, b)
    PROVE  IInv'
<1>1. /\ positions[p] \in Position /\ positions[p].status = "ACTIVE" /\ now \in Nat
      /\ now > positions[p].repaymentDeadline + positions[p].closeout.staleOracleFallbackDelay
      /\ SeizePosition(p, b) /\ b \in Account
    BY MarketAssumption DEF ClaimCollateralOnOracleFailure, CanClaimCollateralOnOracleFailure,
                            FallbackOpen, IInv, TypeOK
<1>2. now > positions[p].repaymentDeadline
  <2>1. /\ positions[p].repaymentDeadline \in Nat
        /\ positions[p].closeout.staleOracleFallbackDelay \in Nat
    BY <1>1 DEF Position, CloseoutTerms
  <2> QED
    BY <1>1, <2>1
<1>3. CloseoutInv' /\ positions' \in [PositionIds -> Position]
    BY <1>1, <1>2, ActiveCloses DEF ClaimCollateralOnOracleFailure,
                                    CanClaimCollateralOnOracleFailure, SeizePosition
<1>4. OffersInv'
    BY <1>1, OffersFrame
       DEF ClaimCollateralOnOracleFailure, CanClaimCollateralOnOracleFailure, SeizePosition,
           offerCustodyVars, IInv, RecordsInv
<1>5. VaultTypeOK'
  <2>1. VaultCall(b, b, 0)
    BY <1>1 DEF VaultCall
  <2> QED
    BY <1>1, <2>1, VaultCallType DEF IInv, TypeOK
<1>6. TypeOK'
    BY <1>3, <1>5, Frames DEF ClaimCollateralOnOracleFailure, CanClaimCollateralOnOracleFailure,
                              IInv, TypeOK, adminVars
<1> QED
    BY <1>3, <1>4, <1>6 DEF IInv, RecordsInv

\* The floor of an auction is positive and its start covers the debt.
LEMMA AuctionPriceType ==
    ASSUME NEW position \in Position, NEW value \in Nat, NEW debt \in Nat
    PROVE  /\ AuctionFloor(position, value) \in Nat \ {0}
           /\ AuctionStart(position, value, debt) \in Nat
           /\ AuctionStart(position, value, debt) >= debt
<1>1. /\ position.closeout.auctionFloorBps \in Nat /\ position.closeout.auctionStartBps \in Nat
      /\ BPS_DENOMINATOR \in Nat \ {0}
    BY ScalesAssumption DEF Position, CloseoutTerms
<1>2. /\ MulDiv(value, position.closeout.auctionFloorBps, BPS_DENOMINATOR) \in Nat
      /\ MulDivCeil(value, position.closeout.auctionStartBps, BPS_DENOMINATOR) \in Nat
    BY <1>1, MulDivType
<1>3. AuctionFloor(position, value) \in Nat \ {0}
    BY <1>2 DEF AuctionFloor, Max2
<1> QED
    BY <1>2, <1>3 DEF AuctionStart, Max2

\* Starting an auction preserves the invariant.
LEMMA StartAuctionStep ==
    ASSUME IInv, NEW p \in PositionIds, StartAuction(p)
    PROVE  IInv'
<1> DEFINE position == positions[p]
           x == nextAuctionId
           debt == Payoff(position, now)
           value == CollateralValue(position.collateralAmount, valuation.price)
           new == [position EXCEPT !.status = "AUCTION", !.auctionId = x, !.frozenDebt = debt]
<1>1. /\ position \in Position /\ position.status = "ACTIVE" /\ now \in Nat
      /\ now > position.repaymentDeadline
      /\ PayoffDefined(position, now)
      /\ position.seller \in Account /\ position.collateralAmount \in Nat
      /\ positionLocked[p] = FullBucket(position.seller, position.collateralAmount)
    BY DEF StartAuction, CanStartAuction, DefaultOpen, IInv, TypeOK, RecordsInv, CloseoutInv,
           PositionSound,
           PositionCustody, Position
<1>2. debt \in Nat
    BY <1>1, PayoffType
<1>3. value \in Nat
  <2>1. valuation.price \in Nat
    BY DEF IInv, TypeOK, FeedTypeOK, Valuation
  <2> QED
    BY <1>1, <2>1, CollateralValueType
<1>4. position.closeout.auctionDuration \in Nat
    BY <1>1 DEF Position, CloseoutTerms
<1>5. /\ Create(p, position.collateralAmount, AuctionStart(position, value, debt),
                AuctionFloor(position, value), position.closeout.auctionDuration)
      /\ positionForAuction' = [positionForAuction EXCEPT ![x] = p]
      /\ AllocateAuction(position.seller, p, x)
      /\ UNCHANGED <<offers, nextOfferId, nextPositionId, now>>
    BY DEF StartAuction, CanStartAuction, AuctionLength
<1>6. positions' = [positions EXCEPT ![p] = new]
    BY DEF StartAuction, CanStartAuction, IInv, TypeOK
<1> HIDE DEF debt, value
<1>7. AuctionTypeOK' /\ AuctionsSound'
  <2>1. p \in References /\ p \in Nat
    BY MarketAssumption
  <2>2. AuctionTypeOK /\ AuctionsSound
    BY DEF IInv, TypeOK, RecordsInv, CloseoutInv
  <2> QED
    BY <1>1, <1>2, <1>3, <1>4, <1>5, <2>1, <2>2, AuctionPriceType, CreateType
<1>8. /\ x \in AuctionIds /\ x # 0 /\ auctionForReference[p] = 0
      /\ \A y \in AuctionIds : y # x => auctions'[y] = auctions[y]
      /\ auctions'[x].status = "LIVE" /\ auctions'[x].referenceId = p
      /\ auctions'[x].assetAmount = position.collateralAmount
      /\ auctionForReference' = [auctionForReference EXCEPT ![p] = x]
    BY <1>5, AuctionIdsAssumption DEF Create, CanCreate, IInv, TypeOK, AuctionTypeOK
<1>9. /\ new \in Position /\ new.status = "AUCTION" /\ new.auctionId = x
      /\ new.seller = position.seller /\ new.buyer = position.buyer
      /\ new.collateralAmount = position.collateralAmount
      /\ new.acceptedAt = position.acceptedAt /\ new.maturity = position.maturity
      /\ new.repaymentDeadline = position.repaymentDeadline /\ new.terms = position.terms
    BY <1>1, <1>2, <1>8 DEF Position, PositionStatus
<1> HIDE DEF new
<1>10. /\ positions' \in [PositionIds -> Position] /\ positions'[p] = new
       /\ \A q \in PositionIds : q # p => positions'[q] = positions[q]
    BY <1>6, <1>9 DEF IInv, TypeOK
<1>11. /\ auctionLocked[x].owner = NoAccount
       /\ positionLocked' = [positionLocked EXCEPT ![p] = EmptyBucket]
       /\ auctionLocked' = [auctionLocked EXCEPT ![x] =
                                FullBucket(position.seller, position.collateralAmount)]
    BY <1>1, <1>5 DEF AllocateAuction, FullBucket
<1>12. /\ positionLocked'[p] = EmptyBucket
       /\ \A q \in PositionIds : q # p => positionLocked'[q] = positionLocked[q]
       /\ auctionLocked'[x] = FullBucket(position.seller, position.collateralAmount)
       /\ \A y \in AuctionIds : y # x => auctionLocked'[y] = auctionLocked[y]
    BY <1>8, <1>11 DEF IInv, TypeOK, VaultTypeOK
<1>13. /\ positionForAuction'[x] = p
       /\ \A y \in AuctionIds : y # x => positionForAuction'[y] = positionForAuction[y]
       /\ \A y \in AuctionIds : positionForAuction[y] # p
       /\ p # 0
    BY <1>1, <1>5, <1>8, ActiveHasNoAuction, MarketAssumption DEF IInv, TypeOK
<1>14. \A q \in PositionIds :
          positions[q].status \in {"AUCTION", "AUCTION_FAILED"} => positions[q].auctionId # x
  <2> SUFFICES ASSUME NEW q \in PositionIds, positions[q].auctionId = x,
                      positions[q].status \in {"AUCTION", "AUCTION_FAILED"}
               PROVE  FALSE
    OBVIOUS
  <2>1. positionForAuction[x] = q /\ positions[q].seller \in Account /\ q # 0
    BY MarketAssumption DEF IInv, RecordsInv, CloseoutInv, PositionSound
  <2>2. auctionLocked[x] = FullBucket(positions[q].seller, positions[q].collateralAmount)
    BY <1>8, <2>1 DEF IInv, RecordsInv, CloseoutInv, AuctionCustody
  <2> QED
    BY <1>11, <2>1, <2>2, AccountAssumption DEF FullBucket
<1>15. ASSUME NEW q \in PositionIds PROVE (PositionSound(q) /\ PositionCustody(q))'
  <2>1. PositionSound(q) /\ PositionCustody(q)
    BY DEF IInv, RecordsInv, CloseoutInv
  <2>2. CASE q = p
    BY <1>1, <1>5, <1>8, <1>9, <1>10, <1>12, <1>13, <2>1, <2>2
       DEF PositionSound, PositionCustody
  <2>3. CASE q # p
    BY <1>5, <1>10, <1>12, <1>13, <1>14, <2>1, <2>3 DEF PositionSound, PositionCustody
  <2> QED
    BY <2>2, <2>3
<1>16. ASSUME NEW y \in AuctionIds PROVE AuctionCustody(y)'
  <2>1. AuctionCustody(y) /\ positionForAuction[y] \in PositionIds \cup {0}
    BY DEF IInv, TypeOK, RecordsInv, CloseoutInv
  <2>2. CASE y = x
    BY <1>9, <1>10, <1>12, <1>13, <2>2 DEF AuctionCustody
  <2>3. CASE y # x
    BY <1>10, <1>12, <1>13, <2>1, <2>3 DEF AuctionCustody
  <2> QED
    BY <2>2, <2>3
<1>17. AuctionAgreement'
  <2> SUFFICES ASSUME NEW y \in AuctionIds
               PROVE  LET q == positionForAuction'[y]
                      IN  IF q = 0
                          THEN auctions'[y].status = "NONE"
                          ELSE /\ positions'[q].auctionId = y
                               /\ auctions'[y].referenceId = q
                               /\ auctionForReference'[q] = y
                               /\ auctions'[y].assetAmount = positions'[q].collateralAmount
                               /\ <<auctions'[y].status, positions'[q].status>> \in
                                     {<<"LIVE", "AUCTION">>, <<"SOLD", "LIQUIDATED">>,
                                      <<"FAILED", "AUCTION_FAILED">>,
                                      <<"FAILED", "COLLATERAL_CLAIMED">>}
    BY DEF AuctionAgreement
  <2>1. /\ AuctionAgreement /\ positionForAuction[y] \in PositionIds \cup {0}
        /\ auctionForReference \in [PositionIds -> AuctionIds \cup {0}]
    BY MarketAssumption DEF IInv, TypeOK, AuctionTypeOK, RecordsInv, CloseoutInv
  <2>2. CASE y = x
    BY <1>8, <1>9, <1>10, <1>13, <2>1, <2>2
  <2>3. CASE y # x
    BY <1>8, <1>10, <1>13, <2>1, <2>3 DEF AuctionAgreement
  <2> QED
    BY <2>2, <2>3
<1>18. CloseoutInv'
    BY <1>7, <1>15, <1>16, <1>17 DEF CloseoutInv
<1>19. OffersInv'
    BY <1>5, OffersFrame DEF AllocateAuction, offerCustodyVars, IInv, RecordsInv
<1>20. VaultTypeOK'
  <2>1. VaultCall(position.seller, position.seller, 0)
    BY <1>5, <1>8 DEF VaultCall
  <2> QED
    BY <1>1, <2>1, VaultCallType DEF IInv, TypeOK
<1>21. TypeOK'
  <2>1. positionForAuction' \in [AuctionIds -> PositionIds \cup {0}]
    BY <1>5, <1>8 DEF IInv, TypeOK
  <2> QED
    BY <1>7, <1>10, <1>20, <2>1, Frames DEF StartAuction, CanStartAuction, IInv, TypeOK, adminVars
<1> QED
    BY <1>18, <1>19, <1>21 DEF IInv, RecordsInv

\* An auctioned position is sold, fails to sell, or is claimed after failing.
LEMMA AuctionedCloses ==
    ASSUME IInv, NEW p \in PositionIds, NEW x \in AuctionIds, positionForAuction[x] = p,
           positions[p].status \in {"AUCTION", "AUCTION_FAILED"},
           NEW status \in {"LIQUIDATED", "AUCTION_FAILED", "COLLATERAL_CLAIMED"},
           positions' = [positions EXCEPT ![p].status = status],
           auctionLocked' = IF status = "AUCTION_FAILED" THEN auctionLocked
                            ELSE [auctionLocked EXCEPT ![x] = EmptyBucket],
           \A y \in AuctionIds : y # x => auctions'[y] = auctions[y],
           auctions'[x].referenceId = auctions[x].referenceId,
           auctions'[x].assetAmount = auctions[x].assetAmount,
           <<auctions'[x].status, status>> \in {<<"SOLD", "LIQUIDATED">>,
                <<"FAILED", "AUCTION_FAILED">>, <<"FAILED", "COLLATERAL_CLAIMED">>},
           AuctionsSound',
           UNCHANGED <<nextPositionId, positionForAuction, auctionForReference,
                       positionLocked, now>>
    PROVE  CloseoutInv' /\ positions' \in [PositionIds -> Position]
<1>1. /\ positions \in [PositionIds -> Position] /\ auctionLocked \in [AuctionIds -> Bucket]
      /\ p # 0
    BY MarketAssumption DEF IInv, TypeOK, VaultTypeOK
<1>2. status \in PositionStatus
    BY DEF PositionStatus
<1>3. /\ positions' \in [PositionIds -> Position]
      /\ \A q \in PositionIds : q # p => positions'[q] = positions[q]
      /\ positions'[p].status = status
      /\ positions'[p].seller = positions[p].seller
      /\ positions'[p].buyer = positions[p].buyer
      /\ positions'[p].auctionId = positions[p].auctionId
      /\ positions'[p].collateralAmount = positions[p].collateralAmount
      /\ positions'[p].acceptedAt = positions[p].acceptedAt
      /\ positions'[p].maturity = positions[p].maturity
      /\ positions'[p].repaymentDeadline = positions[p].repaymentDeadline
      /\ positions'[p].terms = positions[p].terms
    BY <1>1, <1>2, PositionChanged
<1>4. ASSUME NEW q \in PositionIds PROVE (PositionSound(q) /\ PositionCustody(q))'
  <2>1. PositionSound(q) /\ PositionCustody(q)
    BY DEF IInv, RecordsInv, CloseoutInv
  <2>2. CASE q = p
    BY <1>3, <2>1, <2>2 DEF PositionSound, PositionCustody
  <2>3. CASE q # p
    BY <1>3, <2>1, <2>3 DEF PositionSound, PositionCustody
  <2> QED
    BY <2>2, <2>3
<1>5. \A y \in AuctionIds : positionForAuction[y] = p => y = x
    BY <1>1 DEF IInv, RecordsInv, CloseoutInv, AuctionAgreement
<1>6. ASSUME NEW y \in AuctionIds PROVE AuctionCustody(y)'
  <2>1. AuctionCustody(y) /\ positionForAuction[y] \in PositionIds \cup {0}
    BY DEF IInv, TypeOK, RecordsInv, CloseoutInv
  <2>2. CASE y = x
    BY <1>1, <1>3, <2>1, <2>2 DEF AuctionCustody
  <2>3. CASE y # x
    BY <1>1, <1>3, <1>5, <2>1, <2>3 DEF AuctionCustody
  <2> QED
    BY <2>2, <2>3
<1>7. AuctionAgreement'
  <2>1. /\ AuctionAgreement
        /\ \A y \in AuctionIds : positionForAuction[y] \in PositionIds \cup {0}
    BY DEF IInv, TypeOK, RecordsInv, CloseoutInv
  <2>2. \A y \in AuctionIds :
           positionForAuction[y] # p /\ positionForAuction[y] # 0
              => positions'[positionForAuction[y]] = positions[positionForAuction[y]]
    BY <1>3, <2>1
  <2> QED
    BY <1>1, <1>3, <1>5, <2>1, <2>2 DEF AuctionAgreement
<1> QED
    BY <1>3, <1>4, <1>6, <1>7 DEF CloseoutInv

\* The three shares of a sale price add up to it, and none is negative.
LEMMA SharesType ==
    ASSUME NEW position \in Position, NEW price \in Nat
    PROVE  /\ LenderShare(position, price) \in Nat
           /\ FeeShare(position, price) \in Nat
           /\ SellerShare(position, price) \in Nat
           /\ LenderShare(position, price) + FeeShare(position, price)
                + SellerShare(position, price) = price
<1>1. /\ position.frozenDebt \in Nat /\ position.closeout.liquidationFeeBps \in Nat
    BY DEF Position, CloseoutTerms
<1>2. MulDivCeil(price, position.closeout.liquidationFeeBps, BPS_DENOMINATOR) \in Nat
    BY <1>1, MulDivType, ScalesAssumption
<1>3. LenderShare(position, price) \in Nat /\ LenderShare(position, price) <= price
    BY <1>1 DEF LenderShare, Min2
<1>4. /\ FeeShare(position, price) \in Nat
      /\ FeeShare(position, price) <= price - LenderShare(position, price)
    BY <1>2, <1>3 DEF FeeShare, Min2
<1> QED
    BY <1>3, <1>4 DEF SellerShare

\* A purchase at auction preserves the invariant.
LEMMA BuyAuctionStep ==
    ASSUME IInv, NEW a \in Account, NEW x \in AuctionIds, NEW limit \in Limits,
           BuyAuction(a, x, limit)
    PROVE  IInv'
<1> DEFINE price == PriceAt(auctions[x], now)
           deposited == PaidToEscrow(book, a, price)
<1>1. PICK p \in PositionIds :
        /\ InAuction(x, p)
        /\ MarkSold(x, a, limit)
        /\ CanPay(book, a, price)
        /\ positions' = [positions EXCEPT ![p].status = "LIQUIDATED"]
        /\ book' = Settled(deposited, positions[p], price)
        /\ ReleaseAuction(x, a)
        /\ UNCHANGED <<offers, nextOfferId, nextPositionId, positionForAuction>>
        /\ UNCHANGED <<adminVars, interventions, compliant, riskVars, feedVars, now>>
    BY DEF BuyAuction
<1>2. /\ auctions \in [AuctionIds -> Auction] /\ AuctionTypeOK /\ AuctionsSound
      /\ now \in Nat /\ limit \in Nat /\ book \in Book
      /\ positions[p] \in Position
      /\ positions[p].seller \in Account /\ positions[p].buyer \in Account
      /\ feeTreasury \in Account
    BY <1>1, MarketAssumption
       DEF IInv, TypeOK, AuctionTypeOK, EscrowTypeOK, RecordsInv, CloseoutInv, PositionSound,
           InAuction
<1>3. AuctionTypeOK' /\ AuctionsSound'
    BY <1>1, <1>2, MarkSoldType
<1>4. /\ \A y \in AuctionIds : y # x => auctions'[y] = auctions[y]
      /\ auctions'[x].status = "SOLD"
      /\ auctions'[x].referenceId = auctions[x].referenceId
      /\ auctions'[x].assetAmount = auctions[x].assetAmount
      /\ UNCHANGED auctionForReference
    BY <1>1, <1>2 DEF MarkSold, Auction
<1>5. CloseoutInv' /\ positions' \in [PositionIds -> Position]
    BY <1>1, <1>3, <1>4, AuctionedCloses DEF InAuction, ReleaseAuction
<1>6. OffersInv'
    BY <1>1, OffersFrame DEF ReleaseAuction, offerCustodyVars, IInv, RecordsInv
<1>7. VaultTypeOK'
  <2>1. VaultCall(a, a, 0)
    BY <1>1 DEF VaultCall
  <2> QED
    BY <2>1, VaultCallType DEF IInv, TypeOK
<1>8. price \in Nat
    BY <1>1, <1>2, PriceRange DEF AuctionsSound, AuctionSound, MarkSold
<1> HIDE DEF price
<1>9. EscrowTypeOK'
  <2>1. deposited \in Book
    BY <1>1, <1>2, <1>8, PaidToEscrowType
  <2> HIDE DEF deposited
  <2> DEFINE b1 == WithClaim(deposited, positions[p].buyer, LenderShare(positions[p], price))
             b2 == WithClaim(b1, feeTreasury, FeeShare(positions[p], price))
             b3 == WithClaim(b2, positions[p].seller, SellerShare(positions[p], price))
  <2>2. /\ LenderShare(positions[p], price) \in Nat /\ FeeShare(positions[p], price) \in Nat
        /\ SellerShare(positions[p], price) \in Nat
    BY <1>2, <1>8, SharesType
  <2>3. b1 \in Book
    BY <1>2, <2>1, <2>2, WithClaimType
  <2> HIDE DEF b1
  <2>4. b2 \in Book
    BY <1>2, <2>2, <2>3, WithClaimType
  <2> HIDE DEF b2
  <2>5. b3 \in Book
    BY <1>2, <2>2, <2>4, WithClaimType
  <2>6. book' = b3
    BY <1>1 DEF Settled, b1, b2, b3
  <2> QED
    BY <1>1, <2>5, <2>6 DEF EscrowTypeOK, IInv, TypeOK
<1>10. TypeOK'
    BY <1>1, <1>3, <1>5, <1>7, <1>9, Frames DEF IInv, TypeOK, adminVars
<1> QED
    BY <1>5, <1>6, <1>10 DEF IInv, RecordsInv

\* The failure of an auction preserves the invariant.
LEMMA FinalizeFailedAuctionStep ==
    ASSUME IInv, NEW x \in AuctionIds, FinalizeFailedAuction(x)
    PROVE  IInv'
<1>1. PICK p \in PositionIds :
        /\ InAuction(x, p)
        /\ MarkFailed(x)
        /\ positions' = [positions EXCEPT ![p].status = "AUCTION_FAILED"]
        /\ UNCHANGED <<offers, nextOfferId, nextPositionId, positionForAuction>>
        /\ UNCHANGED <<adminVars, interventions, vaultVars, escrowVars, riskVars, feedVars, now>>
    BY DEF FinalizeFailedAuction
<1>2. /\ auctions \in [AuctionIds -> Auction] /\ AuctionTypeOK /\ AuctionsSound /\ now \in Nat
    BY DEF IInv, TypeOK, AuctionTypeOK, RecordsInv, CloseoutInv
<1>3. AuctionTypeOK' /\ AuctionsSound'
    BY <1>1, <1>2, MarkFailedType
<1>4. /\ \A y \in AuctionIds : y # x => auctions'[y] = auctions[y]
      /\ auctions'[x].status = "FAILED"
      /\ auctions'[x].referenceId = auctions[x].referenceId
      /\ auctions'[x].assetAmount = auctions[x].assetAmount
      /\ UNCHANGED auctionForReference
    BY <1>1, <1>2 DEF MarkFailed, Auction
<1>5. CloseoutInv' /\ positions' \in [PositionIds -> Position]
    BY <1>1, <1>3, <1>4, AuctionedCloses DEF InAuction, vaultVars, bucketVars
<1>6. OffersInv'
    BY <1>1, OffersFrame DEF vaultVars, bucketVars, offerCustodyVars, IInv, RecordsInv
<1>7. TypeOK'
    BY <1>1, <1>3, <1>5, Frames DEF IInv, TypeOK, adminVars
<1> QED
    BY <1>5, <1>6, <1>7 DEF IInv, RecordsInv

\* The lender's claim after a failed auction preserves the invariant.
LEMMA ClaimDefaultCollateralStep ==
    ASSUME IInv, NEW a \in Account, NEW b \in Recipients, NEW p \in PositionIds,
           ClaimDefaultCollateral(a, p, b)
    PROVE  IInv'
<1> DEFINE x == positions[p].auctionId
<1>1. /\ positions[p].status = "AUCTION_FAILED" /\ b \in Account
      /\ positions' = [positions EXCEPT ![p].status = "COLLATERAL_CLAIMED"]
      /\ ReleaseAuction(x, b)
      /\ UNCHANGED <<offers, nextOfferId, nextPositionId, positionForAuction>>
      /\ UNCHANGED <<adminVars, interventions, auctionVars, escrowVars, riskVars, feedVars, now>>
    BY MarketAssumption DEF ClaimDefaultCollateral
<1>2. x \in AuctionIds /\ positionForAuction[x] = p /\ p # 0
    BY <1>1, MarketAssumption DEF IInv, RecordsInv, CloseoutInv, PositionSound
<1>3. auctions[x].status = "FAILED" /\ AuctionsSound /\ now \in Nat
    BY <1>1, <1>2 DEF IInv, TypeOK, RecordsInv, CloseoutInv, AuctionAgreement
<1>4. AuctionsSound' /\ auctions' = auctions
    BY <1>1, <1>3 DEF AuctionsSound, AuctionSound, auctionVars
<1>5. CloseoutInv' /\ positions' \in [PositionIds -> Position]
    BY <1>1, <1>2, <1>3, <1>4, AuctionedCloses DEF ReleaseAuction, auctionVars
<1>6. OffersInv'
    BY <1>1, OffersFrame DEF ReleaseAuction, offerCustodyVars, IInv, RecordsInv
<1>7. VaultTypeOK'
  <2>1. VaultCall(b, b, 0)
    BY <1>1, <1>2 DEF VaultCall
  <2> QED
    BY <1>1, <2>1, VaultCallType DEF IInv, TypeOK
<1>8. TypeOK'
    BY <1>1, <1>5, <1>7, Frames DEF IInv, TypeOK, adminVars
<1> QED
    BY <1>5, <1>6, <1>8 DEF IInv, RecordsInv

-----------------------------------------------------------------------------
(* The invariant.                                                           *)

\* Types hold initially.
LEMMA InitTypes ==
    ASSUME Init
    PROVE  TypeOK
<1> USE DEF Init
<1>1. VaultTypeOK
    BY VaultAssumption DEF VaultInit, VaultTypeOK, EmptyBucket, Bucket
<1>2. AuctionTypeOK
    BY DEF AuctionInit, AuctionTypeOK, NoAuction, Auction, AuctionStatus
<1>3. EscrowTypeOK
    BY CashAssumption DEF EscrowInit, EscrowTypeOK, Book
<1>4. RiskTypeOK
    BY RiskAssumption DEF RiskInit, RiskTypeOK
<1>5. FeedTypeOK
    BY FeedAssumption DEF FeedInit, FeedTypeOK, Valuation
<1>6. NoTerms \in Terms /\ SnapshotOf(InitialRisk) \in CloseoutTerms
    BY SnapshotType, RiskAssumption DEF NoTerms, Terms
<1>7. NoOffer \in Offer
    BY <1>6 DEF NoOffer, Offer, OfferStatus
<1>8. NoPosition \in Position
    BY <1>6 DEF NoPosition, Position, PositionStatus
<1>9. asset \in [configured: BOOLEAN, enabled: BOOLEAN, ready: BOOLEAN]
    BY MarketAssumption
<1>10. /\ offers \in [OfferIds -> Offer] /\ nextOfferId \in Nat \ {0}
       /\ positions \in [PositionIds -> Position] /\ nextPositionId \in Nat \ {0}
       /\ positionForAuction \in [AuctionIds -> PositionIds \cup {0}]
    BY <1>7, <1>8
<1>11. /\ entryPaused \in BOOLEAN
       /\ feeTreasury \in Account /\ pauseGuardian \in Account
       /\ interventions \in Nat /\ now \in Nat
    BY MarketAssumption
<1> QED
    BY <1>1, <1>2, <1>3, <1>4, <1>5, <1>9, <1>10, <1>11 DEF TypeOK

\* The invariant holds initially.
LEMMA InitInvariant ==
    ASSUME Init
    PROVE  IInv
<1>1. /\ offers = [o \in OfferIds |-> NoOffer]
      /\ positions = [p \in PositionIds |-> NoPosition]
      /\ positionForAuction = [x \in AuctionIds |-> 0]
      /\ auctions = [x \in AuctionIds |-> NoAuction]
      /\ offerReserved = [o \in OfferIds |-> EmptyBucket]
      /\ positionLocked = [p \in PositionIds |-> EmptyBucket]
      /\ auctionLocked = [x \in AuctionIds |-> EmptyBucket]
    BY DEF Init, VaultInit, AuctionInit
<1>2. OffersInv
    BY <1>1 DEF OffersInv, OfferSound, OfferCustody, FillsAreCumulative, NoOffer, Fillable
<1>3. CloseoutInv
    BY <1>1 DEF CloseoutInv, PositionSound, PositionCustody, AuctionCustody, AuctionsSound,
                AuctionSound, AuctionAgreement, NoPosition, NoAuction
<1> QED
    BY <1>2, <1>3, InitTypes DEF IInv, RecordsInv

\* Every step, stuttering included, preserves the invariant.
LEMMA NextInvariant ==
    ASSUME IInv, [Next]_vars
    PROVE  IInv'
<1>1. CASE Tick
    BY <1>1, TickStep
<1>2. CASE \E a \in Account, n \in Amounts : DepositCollateral(a, n)
    BY <1>2, DepositCollateralStep
<1>3. CASE \E a \in Account, b \in Recipients, n \in Amounts : WithdrawCollateral(a, n, b)
    BY <1>3, WithdrawCollateralStep
<1>4. CASE \E a \in Account, q \in OfferParams : CreateOffer(a, q)
    BY <1>4, CreateOfferStep
<1>5. CASE \E a \in Account, o \in OfferIds, limit \in Limits :
              \E fill \in 1..offers[o].targetPrincipal : FillOffer(a, o, fill, limit)
    BY <1>5, FillOfferStep
<1>6. CASE \E a \in Account, o \in OfferIds : CancelOffer(a, o)
    BY <1>6, CloseOfferStep DEF CancelOffer, CanCancelOffer
<1>7. CASE \E o \in OfferIds : FinalizeOfferExpiry(o)
    BY <1>7, CloseOfferStep DEF FinalizeOfferExpiry
<1>8. CASE \E a \in Account, p \in PositionIds, limit \in Limits, useEscrow \in BOOLEAN :
              Repurchase(a, p, limit, useEscrow)
    BY <1>8, RepurchaseStep
<1>9. CASE \E p \in PositionIds : StartAuction(p)
    BY <1>9, StartAuctionStep
<1>10. CASE \E a \in Account, x \in AuctionIds, limit \in Limits : BuyAuction(a, x, limit)
    BY <1>10, BuyAuctionStep
<1>11. CASE \E x \in AuctionIds : FinalizeFailedAuction(x)
    BY <1>11, FinalizeFailedAuctionStep
<1>12. CASE \E a \in Account, b \in Recipients, p \in PositionIds :
              ClaimDefaultCollateral(a, p, b)
    BY <1>12, ClaimDefaultCollateralStep
<1>13. CASE \E a \in Account, b \in Recipients, p \in PositionIds :
              ClaimCollateralOnOracleFailure(a, p, b)
    BY <1>13, ClaimCollateralOnOracleFailureStep
<1>14. CASE \E a \in Account, b \in Recipients, n \in ClaimAmounts :
              \E c \in DOMAIN book.claims : EscrowClaim(a, c, n, b)
    BY <1>14, EscrowClaimStep
<1>15. CASE UNCHANGED vars
  <2>1. TypeOK'
    BY <1>15, Frames DEF vars, marketVars, recordVars, adminVars, IInv, TypeOK
  <2>2. RecordsInv'
    BY <1>15, RecordsFrame
       DEF vars, marketVars, recordVars, vaultVars, bucketVars, custodyVars, offerCustodyVars,
           closeoutVars, IInv, TypeOK
  <2> QED
    BY <2>1, <2>2 DEF IInv
<1> QED
    BY <1>1, <1>2, <1>3, <1>4, <1>5, <1>6, <1>7, <1>8, <1>9, <1>10, <1>11, <1>12, <1>13, <1>14,
       <1>15, OutsideStep DEF Next

(***************************************************************************)
(* Every reachable state of the market is typed, and its records, buckets  *)
(* and auctions agree: the strengthening under the theorems below.         *)
(***************************************************************************)
THEOREM Invariance == Spec => []IInv
<1>1. Init => IInv
    BY InitInvariant
<1>2. IInv /\ [Next]_vars => IInv'
    BY NextInvariant
<1> QED
    BY <1>1, <1>2, PTL DEF Spec

(***************************************************************************)
(* Every variable of the market and of the contracts it calls keeps its    *)
(* type; no subtraction a contract makes goes below zero.                  *)
(***************************************************************************)
THEOREM TypeCorrectness == Spec => []TypeOK
<1>1. IInv => TypeOK
    BY DEF IInv
<1> QED
    BY <1>1, Invariance, PTL

(***************************************************************************)
(* Any number of fills of any sizes hands over what one fill of the same   *)
(* principal would, for every fee, target and total collateral.            *)
(***************************************************************************)
THEOREM CumulativeFills == Spec => []FillsAreCumulative
<1>1. IInv => FillsAreCumulative
    BY DEF IInv, RecordsInv, OffersInv
<1> QED
    BY <1>1, Invariance, PTL

(***************************************************************************)
(* At every moment the vault's buckets are those of the open offers,       *)
(* active positions and undecided or unclaimed auctions, and no others.    *)
(***************************************************************************)
THEOREM Custodial == Spec => []CustodyMatchesStatus
<1>1. IInv => CustodyMatchesStatus
    BY DEF IInv, RecordsInv, OffersInv, CloseoutInv, CustodyMatchesStatus
<1> QED
    BY <1>1, Invariance, PTL

(***************************************************************************)
(* Market and auction house never disagree about an auction.               *)
(***************************************************************************)
THEOREM AuctionsAgree == Spec => []AuctionAgreement
<1>1. IInv => AuctionAgreement
    BY DEF IInv, RecordsInv, CloseoutInv
<1> QED
    BY <1>1, Invariance, PTL

-----------------------------------------------------------------------------
(* Which steps touch the vault's tokens, and which the active positions.    *)

\* A step that lets tokens out of the vault is one of four.
LEMMA TokensLeaveBy ==
    ASSUME IInv, [Next]_vars, vaultAssets' < vaultAssets
    PROVE  \/ \E a \in Account, b \in Recipients, n \in Amounts : WithdrawCollateral(a, n, b)
           \/ \E a \in Account, x \in AuctionIds, limit \in Limits : BuyAuction(a, x, limit)
           \/ \E a \in Account, b \in Recipients, p \in PositionIds :
                 ClaimDefaultCollateral(a, p, b)
           \/ \E a \in Account, b \in Recipients, p \in PositionIds :
                 ClaimCollateralOnOracleFailure(a, p, b)
<1>1. vaultAssets \in Nat /\ vaultAssets' # vaultAssets
    BY DEF IInv, TypeOK, VaultTypeOK
<1>2. ~Tick /\ ~UNCHANGED vars /\ ~InvalidateValuation /\ ~ChangeCompliance /\ ~GovernRisk
      /\ ~Administer
    BY <1>1 DEF Tick, vars, InvalidateValuation, ChangeCompliance, GovernRisk, Administer,
                vaultVars
<1>3. ASSUME NEW a \in Account, NEW n \in Amounts PROVE ~DepositCollateral(a, n)
    BY <1>1, VaultAssumption DEF DepositCollateral, CanDepositCollateral, DepositFor, CanDeposit
<1>4. ASSUME NEW a \in Account, NEW q \in OfferParams PROVE ~CreateOffer(a, q)
    BY <1>1 DEF CreateOffer, CanCreateOffer, ReserveOffer, tokensUnchanged
<1>5. ASSUME NEW a \in Account, NEW o \in OfferIds, NEW limit, NEW fill
      PROVE  ~FillOffer(a, o, fill, limit)
    BY <1>1 DEF FillOffer, CanFillOffer, AllocatePosition, tokensUnchanged
<1>6. ASSUME NEW o \in OfferIds, NEW status PROVE ~CloseOffer(o, status)
    BY <1>1 DEF CloseOffer, CanCloseOffer, ReleaseOffer, tokensUnchanged, vaultVars
<1>7. ASSUME NEW a \in Account, NEW p \in PositionIds, NEW limit, NEW useEscrow
      PROVE  ~Repurchase(a, p, limit, useEscrow)
    BY <1>1 DEF Repurchase, CanRepurchase, ReleasePosition, tokensUnchanged
<1>8. ASSUME NEW p \in PositionIds PROVE ~StartAuction(p)
    BY <1>1 DEF StartAuction, CanStartAuction, AllocateAuction, tokensUnchanged
<1>9. ASSUME NEW x \in AuctionIds PROVE ~FinalizeFailedAuction(x)
    BY <1>1 DEF FinalizeFailedAuction, vaultVars
<1>10. ASSUME NEW a, NEW c, NEW n, NEW b PROVE ~EscrowClaim(a, c, n, b)
    BY <1>1 DEF EscrowClaim, vaultVars
<1>11. ASSUME NEW price, NEW observedAt, NEW v, NEW t
       PROVE  ~SubmitValuation(price, observedAt, v, t)
    BY <1>1 DEF SubmitValuation, vaultVars
<1> QED
    BY <1>2, <1>3, <1>4, <1>5, <1>6, <1>7, <1>8, <1>9, <1>10, <1>11
       DEF Next, CancelOffer, CanCancelOffer, FinalizeOfferExpiry

\* The position that a release of its auction's bucket closes.
LEMMA AuctionExit ==
    ASSUME IInv, NEW p \in PositionIds, NEW x \in AuctionIds, positionForAuction[x] = p,
           positions[p].status \in {"AUCTION", "AUCTION_FAILED"},
           NEW status \in {"LIQUIDATED", "COLLATERAL_CLAIMED"}, NEW recipient \in Account,
           positions' = [positions EXCEPT ![p].status = status],
           ReleaseAuction(x, recipient)
    PROVE  /\ positions'[p].status = status
           /\ now > positions[p].repaymentDeadline
           /\ positions[p].collateralAmount = vaultAssets - vaultAssets'
           /\ UNCHANGED availableBalance
<1>1. positions \in [PositionIds -> Position] /\ p # 0 /\ vaultAssets \in Nat
    BY MarketAssumption DEF IInv, TypeOK, VaultTypeOK
<1>2. positions'[p].status = status
    BY <1>1, PositionChanged DEF PositionStatus
<1>3. now > positions[p].repaymentDeadline
    BY DEF IInv, RecordsInv, CloseoutInv, PositionSound
<1>4. auctionLocked[x].amount = positions[p].collateralAmount
  <2>1. auctionLocked[x] = FullBucket(positions[p].seller, positions[p].collateralAmount)
    BY <1>1 DEF IInv, RecordsInv, CloseoutInv, AuctionCustody
  <2> QED
    BY <2>1 DEF FullBucket
<1>5. positions[p].collateralAmount \in Nat
    BY <1>1 DEF Position
<1>6. positions[p].collateralAmount = vaultAssets - vaultAssets' /\ UNCHANGED availableBalance
    BY <1>1, <1>4, <1>5 DEF ReleaseAuction, PayOut, CanPayOut
<1> QED
    BY <1>2, <1>3, <1>6

(***************************************************************************)
(* Collateral leaves only to a compliant owner who withdraws what is free, *)
(* or, after the repayment deadline, as the collateral of a position that  *)
(* this step closes out.  The amount comes from CustodyMatchesStatus, the  *)
(* deadline from what the invariant says of positions that left ACTIVE.    *)
(***************************************************************************)
THEOREM CollateralLeavesOnlyByExit == Spec => CollateralExit
<1>1. ASSUME IInv, [Next]_vars, vaultAssets' < vaultAssets
      PROVE  \/ \E a \in compliant :
                   /\ availableBalance[a] - availableBalance'[a] = vaultAssets - vaultAssets'
                   /\ UNCHANGED <<positions, offers>>
             \/ \E p \in PositionIds :
                   /\ positions[p].status \in {"ACTIVE", "AUCTION", "AUCTION_FAILED"}
                   /\ positions'[p].status \in {"LIQUIDATED", "COLLATERAL_CLAIMED"}
                   /\ now > positions[p].repaymentDeadline
                   /\ positions[p].collateralAmount = vaultAssets - vaultAssets'
                   /\ UNCHANGED availableBalance
  <2> USE <1>1
  <2>1. CASE \E a \in Account, b \in Recipients, n \in Amounts : WithdrawCollateral(a, n, b)
    <3>1. PICK a \in Account, b \in Recipients, n \in Amounts : WithdrawCollateral(a, n, b)
      BY <2>1
    <3>2. /\ a \in compliant /\ n \in Nat /\ UNCHANGED <<positions, offers>>
          /\ availableBalance' = [availableBalance EXCEPT ![a] = @ - n]
          /\ vaultAssets' = vaultAssets - n
          /\ availableBalance \in [Account -> Nat] /\ vaultAssets \in Nat
      BY <3>1, VaultAssumption
         DEF WithdrawCollateral, CanWithdrawCollateral, WithdrawTo, Debit, PayOut, CanPayOut,
             marketVars, recordVars, IInv, TypeOK,
             VaultTypeOK
    <3>3. availableBalance[a] - availableBalance'[a] = vaultAssets - vaultAssets'
      BY <3>2
    <3> QED
      BY <3>2, <3>3
  <2>2. CASE \E a \in Account, x \in AuctionIds, limit \in Limits : BuyAuction(a, x, limit)
    <3>1. PICK a \in Account, x \in AuctionIds, limit \in Limits : BuyAuction(a, x, limit)
      BY <2>2
    <3>2. PICK p \in PositionIds :
            /\ InAuction(x, p)
            /\ positions' = [positions EXCEPT ![p].status = "LIQUIDATED"]
            /\ ReleaseAuction(x, a)
      BY <3>1 DEF BuyAuction
    <3> QED
      BY <3>2, AuctionExit DEF InAuction
  <2>3. CASE \E a \in Account, b \in Recipients, p \in PositionIds :
                ClaimDefaultCollateral(a, p, b)
    <3>1. PICK b \in Recipients, p \in PositionIds :
            /\ positions[p].status = "AUCTION_FAILED"
            /\ positions' = [positions EXCEPT ![p].status = "COLLATERAL_CLAIMED"]
            /\ ReleaseAuction(positions[p].auctionId, b)
      BY <2>3 DEF ClaimDefaultCollateral
    <3>2. positions[p].auctionId \in AuctionIds /\ positionForAuction[positions[p].auctionId] = p
      BY <3>1 DEF IInv, RecordsInv, CloseoutInv, PositionSound
    <3> QED
      BY <3>1, <3>2, AuctionExit, MarketAssumption
  <2>4. CASE \E a \in Account, b \in Recipients, p \in PositionIds :
                ClaimCollateralOnOracleFailure(a, p, b)
    <3>1. PICK b \in Recipients, p \in PositionIds :
            /\ FallbackOpen(positions[p])
            /\ positions' = [positions EXCEPT ![p].status = "COLLATERAL_CLAIMED"]
            /\ SeizePosition(p, b)
      BY <2>4 DEF ClaimCollateralOnOracleFailure, CanClaimCollateralOnOracleFailure
    <3>2. /\ positions \in [PositionIds -> Position] /\ vaultAssets \in Nat /\ now \in Nat
          /\ positions[p].status = "ACTIVE"
      BY <3>1 DEF IInv, TypeOK, VaultTypeOK, FallbackOpen
    <3>3. positions'[p].status = "COLLATERAL_CLAIMED"
      BY <3>1, <3>2, PositionChanged DEF PositionStatus
    <3>4. /\ positions[p].repaymentDeadline \in Nat /\ positions[p].collateralAmount \in Nat
          /\ positions[p].closeout.staleOracleFallbackDelay \in Nat
      BY <3>2 DEF Position, CloseoutTerms
    <3>5. now > positions[p].repaymentDeadline
      BY <3>1, <3>2, <3>4 DEF FallbackOpen
    <3>6. positionLocked[p].amount = positions[p].collateralAmount
      <4>1. positionLocked[p] = FullBucket(positions[p].seller, positions[p].collateralAmount)
        BY <3>2 DEF IInv, RecordsInv, CloseoutInv, PositionCustody
      <4> QED
        BY <4>1 DEF FullBucket
    <3>7. /\ positions[p].collateralAmount = vaultAssets - vaultAssets'
          /\ UNCHANGED availableBalance
      BY <3>1, <3>2, <3>4, <3>6 DEF SeizePosition, PayOut, CanPayOut
    <3> QED
      BY <3>2, <3>3, <3>5, <3>7
  <2> QED
    BY <2>1, <2>2, <2>3, <2>4, TokensLeaveBy
<1> QED
    BY <1>1, Invariance, PTL DEF Spec, CollateralExit

-----------------------------------------------------------------------------
(* Repayment.                                                               *)

\* A status other than ACTIVE is reached from ACTIVE by three actions, REPAID by one.
LEMMA RepaidBy ==
    ASSUME IInv, [Next]_vars, NEW p \in PositionIds,
           positions[p].status = "ACTIVE", positions'[p].status = "REPAID"
    PROVE  \E a \in Account, limit \in Limits, useEscrow \in BOOLEAN :
               Repurchase(a, p, limit, useEscrow)
<1>1. positions \in [PositionIds -> Position] /\ positions' # positions
    BY DEF IInv, TypeOK
<1>2. /\ ~Tick /\ ~UNCHANGED vars /\ ~InvalidateValuation /\ ~ChangeCompliance /\ ~GovernRisk
      /\ ~Administer
    BY <1>1 DEF Tick, vars, InvalidateValuation, ChangeCompliance, GovernRisk, Administer,
                marketVars, recordVars
<1>3. ASSUME NEW a, NEW n PROVE ~DepositCollateral(a, n)
    BY <1>1 DEF DepositCollateral, CanDepositCollateral, marketVars, recordVars
<1>4. ASSUME NEW a, NEW n, NEW b PROVE ~WithdrawCollateral(a, n, b)
    BY <1>1 DEF WithdrawCollateral, CanWithdrawCollateral, marketVars, recordVars
<1>5. ASSUME NEW a, NEW q PROVE ~CreateOffer(a, q)
    BY <1>1 DEF CreateOffer, CanCreateOffer
<1>6. ASSUME NEW a, NEW o, NEW fill, NEW limit PROVE ~FillOffer(a, o, fill, limit)
    BY <1>1 DEF FillOffer, CanFillOffer, NewPosition
<1>7. ASSUME NEW o, NEW status PROVE ~CloseOffer(o, status)
    BY <1>1 DEF CloseOffer, CanCloseOffer
<1>8. ASSUME NEW q \in PositionIds, NEW x, NEW debt
      PROVE  positions' # [positions EXCEPT ![q].status = "AUCTION", ![q].auctionId = x,
                                            ![q].frozenDebt = debt]
  <2> DEFINE new == [positions[q] EXCEPT !.status = "AUCTION", !.auctionId = x,
                                         !.frozenDebt = debt]
  <2>1. [positions EXCEPT ![q].status = "AUCTION", ![q].auctionId = x, ![q].frozenDebt = debt]
          = [positions EXCEPT ![q] = new]
    BY <1>1
  <2>2. new.status = "AUCTION"
    BY <1>1 DEF Position
  <2> HIDE DEF new
  <2> QED
    BY <1>1, <2>1, <2>2
<1>9. ASSUME NEW q \in PositionIds, NEW status, status # "REPAID"
      PROVE  positions' # [positions EXCEPT ![q].status = status]
  <2> DEFINE new == [positions[q] EXCEPT !.status = status]
  <2>1. [positions EXCEPT ![q].status = status] = [positions EXCEPT ![q] = new]
    BY <1>1
  <2>2. new.status = status
    BY <1>1 DEF Position
  <2> HIDE DEF new
  <2> QED
    BY <1>1, <1>9, <2>1, <2>2
<1>10. ASSUME NEW a, NEW x, NEW limit PROVE ~BuyAuction(a, x, limit)
    BY <1>9 DEF BuyAuction
<1>11. ASSUME NEW x PROVE ~FinalizeFailedAuction(x)
    BY <1>9 DEF FinalizeFailedAuction
<1>12. ASSUME NEW a, NEW b, NEW q \in PositionIds
       PROVE  ~ClaimDefaultCollateral(a, q, b) /\ ~ClaimCollateralOnOracleFailure(a, q, b)
    BY <1>9 DEF ClaimDefaultCollateral, ClaimCollateralOnOracleFailure,
                CanClaimCollateralOnOracleFailure
<1>13. ASSUME NEW a, NEW c, NEW n, NEW b PROVE ~EscrowClaim(a, c, n, b)
    BY <1>1 DEF EscrowClaim, marketVars, recordVars
<1>14. ASSUME NEW price, NEW observedAt, NEW v, NEW t
       PROVE  ~SubmitValuation(price, observedAt, v, t)
    BY <1>1 DEF SubmitValuation, marketVars, recordVars
<1>15. ASSUME NEW a, NEW q \in PositionIds, NEW limit, NEW useEscrow,
              Repurchase(a, q, limit, useEscrow)
       PROVE  q = p
    BY <1>1, <1>15 DEF Repurchase, CanRepurchase
<1>16. ASSUME NEW q \in PositionIds, StartAuction(q) PROVE FALSE
  <2> DEFINE debt == Payoff(positions[q], now)
  <2>1. positions' = [positions EXCEPT ![q].status = "AUCTION", ![q].auctionId = nextAuctionId,
                                       ![q].frozenDebt = debt]
    BY <1>16 DEF StartAuction, CanStartAuction
  <2> HIDE DEF debt
  <2> QED
    BY <1>8, <2>1
<1> QED
    BY <1>2, <1>3, <1>4, <1>5, <1>6, <1>7, <1>10, <1>11, <1>12, <1>13, <1>14, <1>15, <1>16
       DEF Next, CancelOffer, CanCancelOffer, FinalizeOfferExpiry

\* Settlement moves from the seller's wallet to the lender's wallet or claims.
LEMMA PaymentMovesWealth ==
    ASSUME NEW b \in Book, NEW seller \in Account, NEW lender \in Account \ {seller},
           NEW amount \in Nat, CanPay(b, seller, amount), NEW after,
           \/ after = PaidTo(b, seller, lender, amount)
           \/ after = WithClaim(PaidToEscrow(b, seller, amount), lender, amount)
    PROVE  /\ Wealth(after, lender) - Wealth(b, lender) = amount
           /\ Wealth(b, seller) - Wealth(after, seller) = amount
<1>1. /\ b.cash \in [Account -> Nat] /\ b.claimable \in [Account -> Nat]
    BY DEF Book
<1>2. CASE after = PaidTo(b, seller, lender, amount)
  <2>1. /\ after.cash = [b.cash EXCEPT ![seller] = @ - amount, ![lender] = @ + amount]
        /\ after.claimable = b.claimable
    BY <1>2 DEF PaidTo, Book
  <2> QED
    BY <1>1, <2>1 DEF Wealth
<1>3. CASE after = WithClaim(PaidToEscrow(b, seller, amount), lender, amount)
  <2> DEFINE deposited == PaidToEscrow(b, seller, amount)
  <2>1. /\ deposited \in Book
        /\ deposited.cash = [b.cash EXCEPT ![seller] = @ - amount]
        /\ deposited.claimable = b.claimable
    BY PaidToEscrowType DEF PaidToEscrow, Book
  <2> HIDE DEF deposited
  <2>2. after.cash = deposited.cash
    BY <1>3, <2>1 DEF WithClaim, Book, deposited
  <2>3. \A a \in Account : after.claimable[a] =
            IF a = lender THEN deposited.claimable[a] + amount ELSE deposited.claimable[a]
    <3>1. CASE amount = 0
      BY <1>1, <1>3, <2>1, <3>1 DEF WithClaim, deposited
    <3>2. CASE amount # 0
      <4>1. after.claimable = [deposited.claimable EXCEPT ![lender] = @ + amount]
        BY <1>3, <2>1, <3>2 DEF WithClaim, Book, deposited
      <4> QED
        BY <1>1, <2>1, <4>1
    <3> QED
      BY <3>1, <3>2
  <2> QED
    BY <1>1, <2>1, <2>2, <2>3 DEF Wealth
<1> QED
    BY <1>2, <1>3

(***************************************************************************)
(* Every repayment, direct or into escrow, early, on time or overdue, is   *)
(* paid in full by the seller, reaches the lender in full and frees the    *)
(* position's collateral to the seller.                                    *)
(***************************************************************************)
THEOREM RepaymentIsFull == Spec => RepaidInFull
<1>1. ASSUME IInv, [Next]_vars, NEW p \in PositionIds,
             positions[p].status = "ACTIVE", positions'[p].status = "REPAID"
      PROVE  RepaidExactly(p)
  <2> DEFINE seller == positions[p].seller
             lender == positions[p].buyer
             payoff == Payoff(positions[p], now)
  <2>1. PICK limit \in Limits, useEscrow \in BOOLEAN : Repurchase(seller, p, limit, useEscrow)
    BY <1>1, RepaidBy DEF Repurchase, CanRepurchase
  <2>2. /\ positions[p] \in Position /\ now \in Nat /\ book \in Book
        /\ seller \in Account /\ lender \in Account \ {seller}
        /\ positionLocked[p] = FullBucket(seller, positions[p].collateralAmount)
        /\ availableBalance \in [Account -> Nat]
    BY <1>1 DEF IInv, TypeOK, EscrowTypeOK, VaultTypeOK, RecordsInv, CloseoutInv, PositionSound,
                PositionCustody
  <2>3. payoff \in Nat /\ payoff >= positions[p].principalAmount
    BY <2>1, <2>2, PayoffType DEF Repurchase, CanRepurchase
  <2>4. /\ CanPay(book, seller, payoff)
        /\ \/ book' = PaidTo(book, seller, lender, payoff)
           \/ book' = WithClaim(PaidToEscrow(book, seller, payoff), lender, payoff)
    BY <2>1 DEF Repurchase, CanRepurchase, RepurchaseDirect, RepurchaseEscrowed
  <2>5. availableBalance' =
          [availableBalance EXCEPT ![seller] = @ + positions[p].collateralAmount]
    BY <2>1, <2>2 DEF Repurchase, CanRepurchase, ReleasePosition, Credit, FullBucket
  <2>6. positions[p].collateralAmount \in Nat
    BY <2>2 DEF Position
  <2> HIDE DEF payoff
  <2>7. availableBalance'[seller] - availableBalance[seller] = positions[p].collateralAmount
    BY <2>2, <2>5, <2>6
  <2>8. /\ Wealth(book', lender) - Wealth(book, lender) = payoff
        /\ Wealth(book, seller) - Wealth(book', seller) = payoff
    BY <2>2, <2>3, <2>4, PaymentMovesWealth
  <2> QED
    BY <2>3, <2>7, <2>8 DEF payoff, RepaidExactly
<1>2. IInv /\ [Next]_vars
        => [\A p \in PositionIds :
               positions[p].status = "ACTIVE" /\ positions'[p].status = "REPAID"
               => RepaidExactly(p)]_vars
    BY <1>1
<1> QED
    BY <1>2, Invariance, PTL DEF Spec, RepaidInFull

-----------------------------------------------------------------------------
(* Waiting.                                                                 *)

\* The interest of a position, before and after maturity, against the schedule.
LEMMA InterestAroundSchedule ==
    ASSUME NEW position \in Position, NEW t \in Nat, PayoffDefined(position, t)
    PROVE  /\ ScheduledInterest(position) \in Nat
           /\ t < position.maturity => /\ EarlyInterest(position, t) \in Nat
                                       /\ EarlyInterest(position, t) <= ScheduledInterest(position)
           /\ t >= position.maturity => /\ LateInterest(position, t) \in Nat
                                        /\ ScheduledInterest(position) <= LateInterest(position, t)
<1>1. /\ position.principalAmount \in Nat /\ position.acceptedAt \in Nat
      /\ position.maturity \in Nat /\ position.terms \in Terms
    BY DEF Position
<1>2. /\ position.terms.annualRateBps \in Nat /\ position.terms.defaultAnnualRateBps \in Nat
      /\ position.terms.duration \in Nat /\ position.terms.earlyMinHoldBps \in Nat
      /\ position.terms.earlyBreakFeeBps \in Nat
    BY <1>1 DEF Terms
<1>3. ScheduledInterest(position) \in Nat
    BY <1>1, <1>2, InterestType DEF ScheduledInterest
<1>4. /\ EarlyInterest(position, t) \in Nat
      /\ EarlyInterest(position, t) <= ScheduledInterest(position)
  <2> DEFINE minimumHold == MulDivCeil(position.terms.duration, position.terms.earlyMinHoldBps,
                                       BPS_DENOMINATOR)
             elapsed == Max2(t - position.acceptedAt, minimumHold)
             accrued == Interest(position.principalAmount, position.terms.annualRateBps, elapsed)
             breakFee == MulDivCeil(position.principalAmount, position.terms.earlyBreakFeeBps,
                                    BPS_DENOMINATOR)
  <2>1. minimumHold \in Nat /\ breakFee \in Nat
    BY <1>1, <1>2, MulDivType, ScalesAssumption
  <2>2. elapsed \in Nat
    BY <1>1, <2>1 DEF Max2, PayoffDefined
  <2>3. accrued \in Nat
    BY <1>1, <1>2, <2>2, InterestType
  <2>4. EarlyInterest(position, t) = Min2(ScheduledInterest(position), accrued + breakFee)
    BY DEF EarlyInterest
  <2> HIDE DEF accrued, breakFee
  <2> QED
    BY <1>3, <2>1, <2>3, <2>4 DEF Min2
<1>5. ASSUME t >= position.maturity
      PROVE  /\ LateInterest(position, t) \in Nat
             /\ ScheduledInterest(position) <= LateInterest(position, t)
  <2> DEFINE overdue == Interest(position.principalAmount, position.terms.defaultAnnualRateBps,
                                 t - position.maturity)
  <2>1. overdue \in Nat
    <3>1. t - position.maturity \in Nat
      BY <1>1, <1>5
    <3> QED
      BY <1>1, <1>2, <3>1, InterestType
  <2>2. LateInterest(position, t) = ScheduledInterest(position) + overdue
    BY DEF LateInterest
  <2> HIDE DEF overdue
  <2> QED
    BY <1>3, <2>1, <2>2
<1> QED
    BY <1>3, <1>4, <1>5

\* A position owes no less at a later time: its schedule separates the two formulas.
LEMMA PayoffGrows ==
    ASSUME NEW position \in Position, NEW t \in Nat, NEW u \in Nat, t <= u,
           PayoffDefined(position, t)
    PROVE  PayoffDefined(position, u) /\ Payoff(position, t) <= Payoff(position, u)
<1>1. /\ position.principalAmount \in Nat /\ position.acceptedAt \in Nat
      /\ position.maturity \in Nat /\ position.terms \in Terms
    BY DEF Position
<1>2. /\ position.terms.annualRateBps \in Nat /\ position.terms.defaultAnnualRateBps \in Nat
      /\ position.terms.duration \in Nat /\ position.terms.earlyMinHoldBps \in Nat
      /\ position.terms.earlyBreakFeeBps \in Nat
    BY <1>1 DEF Terms
<1>3. PayoffDefined(position, u)
    BY <1>1 DEF PayoffDefined
<1>4. CASE u < position.maturity
  <2> DEFINE hold == MulDivCeil(position.terms.duration, position.terms.earlyMinHoldBps,
                                BPS_DENOMINATOR)
             breakFee == MulDivCeil(position.principalAmount, position.terms.earlyBreakFeeBps,
                                    BPS_DENOMINATOR)
             elapsed(when) == Max2(when - position.acceptedAt, hold)
             accrued(when) == Interest(position.principalAmount, position.terms.annualRateBps,
                                       elapsed(when))
  <2>1. hold \in Nat /\ breakFee \in Nat
    BY <1>1, <1>2, MulDivType, ScalesAssumption
  <2>2. elapsed(t) \in Nat /\ elapsed(u) \in Nat /\ elapsed(t) <= elapsed(u)
    BY <1>1, <1>3, <2>1 DEF Max2, PayoffDefined
  <2>3. accrued(t) <= accrued(u) /\ accrued(t) \in Nat /\ accrued(u) \in Nat
    BY <1>1, <1>2, <2>2, InterestMonotone, InterestType
  <2>4. /\ EarlyInterest(position, t) = Min2(ScheduledInterest(position), accrued(t) + breakFee)
        /\ EarlyInterest(position, u) = Min2(ScheduledInterest(position), accrued(u) + breakFee)
    BY DEF EarlyInterest
  <2>5. ScheduledInterest(position) \in Nat
    BY InterestAroundSchedule
  <2> HIDE DEF accrued, breakFee
  <2>6. EarlyInterest(position, t) <= EarlyInterest(position, u)
    BY <2>1, <2>3, <2>4, <2>5 DEF Min2
  <2>7. EarlyInterest(position, t) \in Nat /\ EarlyInterest(position, u) \in Nat
    BY <2>1, <2>3, <2>4, <2>5 DEF Min2
  <2> QED
    BY <1>1, <1>3, <1>4, <2>6, <2>7 DEF Payoff
<1>5. CASE t < position.maturity /\ u >= position.maturity
    BY <1>1, <1>3, <1>5, InterestAroundSchedule DEF Payoff
<1>6. CASE t >= position.maturity
  <2> DEFINE overdue(when) == Interest(position.principalAmount,
                                       position.terms.defaultAnnualRateBps,
                                       when - position.maturity)
  <2>1. /\ t - position.maturity \in Nat /\ u - position.maturity \in Nat
        /\ t - position.maturity <= u - position.maturity
    BY <1>1, <1>6
  <2>2. overdue(t) <= overdue(u) /\ overdue(t) \in Nat /\ overdue(u) \in Nat
    BY <1>1, <1>2, <2>1, InterestMonotone, InterestType
  <2>3. /\ LateInterest(position, t) = ScheduledInterest(position) + overdue(t)
        /\ LateInterest(position, u) = ScheduledInterest(position) + overdue(u)
    BY DEF LateInterest
  <2>4. ScheduledInterest(position) \in Nat
    BY InterestAroundSchedule
  <2> HIDE DEF overdue
  <2>5. LateInterest(position, t) <= LateInterest(position, u)
    BY <2>2, <2>3, <2>4
  <2>6. LateInterest(position, t) \in Nat /\ LateInterest(position, u) \in Nat
    BY <2>2, <2>3, <2>4
  <2> QED
    BY <1>1, <1>3, <1>6, <2>5, <2>6 DEF Payoff
<1> QED
    BY <1>1, <1>4, <1>5, <1>6

\* What a step does to a position: nothing, create it, auction it, or close it.
Closed == {"REPAID", "LIQUIDATED", "AUCTION_FAILED", "COLLATERAL_CLAIMED"}
PositionStep(p) ==
    \/ positions'[p] = positions[p]
    \/ /\ p = nextPositionId
       /\ \E a \in Account, o \in OfferIds : \E fill \in 1..offers[o].targetPrincipal :
             positions'[p] = NewPosition(a, o, fill)
    \/ StartAuction(p)
    \/ \E status \in Closed : positions'[p] = [positions[p] EXCEPT !.status = status]

LEMMA PositionSteps ==
    ASSUME IInv, [Next]_vars, NEW p \in PositionIds
    PROVE  PositionStep(p) /\ (now' = now \/ now' = now + 1)
<1>1. positions \in [PositionIds -> Position]
    BY DEF IInv, TypeOK
<1>2. ASSUME NEW q \in PositionIds, NEW status \in Closed,
             positions' = [positions EXCEPT ![q].status = status]
      PROVE  PositionStep(p)
  <2>1. positions' = [positions EXCEPT ![q] = [positions[q] EXCEPT !.status = status]]
    BY <1>1, <1>2
  <2>2. q # p => positions'[p] = positions[p]
    BY <1>1, <2>1
  <2>3. q = p => positions'[p] = [positions[p] EXCEPT !.status = status]
    BY <1>1, <2>1
  <2> QED
    BY <2>2, <2>3 DEF PositionStep
<1>3. UNCHANGED positions => PositionStep(p)
    BY DEF PositionStep
<1>4. CASE Tick \/ UNCHANGED vars
    BY <1>3, <1>4 DEF Tick, vars, marketVars, recordVars
<1>5. CASE InvalidateValuation \/ ChangeCompliance \/ GovernRisk \/ Administer
    BY <1>3, <1>5 DEF InvalidateValuation, ChangeCompliance, GovernRisk, Administer, recordVars
<1>6. CASE \E a \in Account, n \in Amounts : DepositCollateral(a, n)
    BY <1>3, <1>6 DEF DepositCollateral, CanDepositCollateral, marketVars, recordVars
<1>7. CASE \E a \in Account, b \in Recipients, n \in Amounts : WithdrawCollateral(a, n, b)
    BY <1>3, <1>7 DEF WithdrawCollateral, CanWithdrawCollateral, marketVars, recordVars
<1>8. CASE \E a \in Account, q \in OfferParams : CreateOffer(a, q)
    BY <1>3, <1>8 DEF CreateOffer, CanCreateOffer
<1>9. CASE \E a \in Account, o \in OfferIds, limit \in Limits :
              \E fill \in 1..offers[o].targetPrincipal : FillOffer(a, o, fill, limit)
  <2>1. PICK a \in Account, o \in OfferIds, limit \in Limits :
               \E fill \in 1..offers[o].targetPrincipal : FillOffer(a, o, fill, limit)
    BY <1>9
  <2>2. PICK fill \in 1..offers[o].targetPrincipal : FillOffer(a, o, fill, limit)
    BY <2>1
  <2> DEFINE new == NewPosition(a, o, fill)
  <2>3. nextPositionId \in PositionIds /\ now' = now
        /\ positions' = [positions EXCEPT ![nextPositionId] = new]
    BY <2>2 DEF FillOffer, CanFillOffer
  <2> HIDE DEF new
  <2>4. p # nextPositionId => positions'[p] = positions[p]
    BY <1>1, <2>3
  <2>5. p = nextPositionId => positions'[p] = new
    BY <1>1, <2>3
  <2> QED
    BY <2>3, <2>4, <2>5 DEF PositionStep, new
<1>10. CASE \E o \in OfferIds : \E status \in OfferStatus : CloseOffer(o, status)
    BY <1>3, <1>10 DEF CloseOffer, CanCloseOffer
<1>11. CASE \E a \in Account, q \in PositionIds, limit \in Limits, useEscrow \in BOOLEAN :
               Repurchase(a, q, limit, useEscrow)
  <2>1. PICK q \in PositionIds : /\ positions' = [positions EXCEPT ![q].status = "REPAID"]
                                 /\ now' = now
    BY <1>11 DEF Repurchase, CanRepurchase
  <2> QED
    BY <1>2, <2>1 DEF Closed
<1>12. CASE \E q \in PositionIds : StartAuction(q)
  <2>1. PICK q \in PositionIds : StartAuction(q)
    BY <1>12
  <2> DEFINE new == [positions[q] EXCEPT !.status = "AUCTION", !.auctionId = nextAuctionId,
                                         !.frozenDebt = Payoff(positions[q], now)]
  <2>2. positions' = [positions EXCEPT ![q] = new] /\ now' = now
    BY <1>1, <2>1 DEF StartAuction, CanStartAuction
  <2> HIDE DEF new
  <2>3. q # p => positions'[p] = positions[p]
    BY <1>1, <2>2
  <2> QED
    BY <2>1, <2>2, <2>3 DEF PositionStep
<1>13. CASE \E a \in Account, x \in AuctionIds, limit \in Limits : BuyAuction(a, x, limit)
  <2>1. PICK q \in PositionIds : /\ positions' = [positions EXCEPT ![q].status = "LIQUIDATED"]
                                 /\ now' = now
    BY <1>13 DEF BuyAuction
  <2> QED
    BY <1>2, <2>1 DEF Closed
<1>14. CASE \E x \in AuctionIds : FinalizeFailedAuction(x)
  <2>1. PICK q \in PositionIds : /\ positions' = [positions EXCEPT ![q].status = "AUCTION_FAILED"]
                                 /\ now' = now
    BY <1>14 DEF FinalizeFailedAuction
  <2> QED
    BY <1>2, <2>1 DEF Closed
<1>15. CASE \/ \E a \in Account, b \in Recipients, q \in PositionIds :
                  ClaimDefaultCollateral(a, q, b)
            \/ \E a \in Account, b \in Recipients, q \in PositionIds :
                  ClaimCollateralOnOracleFailure(a, q, b)
  <2>1. PICK q \in PositionIds :
               positions' = [positions EXCEPT ![q].status = "COLLATERAL_CLAIMED"] /\ now' = now
    BY <1>15 DEF ClaimDefaultCollateral, ClaimCollateralOnOracleFailure,
                 CanClaimCollateralOnOracleFailure
  <2> QED
    BY <1>2, <2>1 DEF Closed
<1>16. CASE \E a \in Account, b \in Recipients, n \in ClaimAmounts :
               \E c \in DOMAIN book.claims : EscrowClaim(a, c, n, b)
    BY <1>3, <1>16 DEF EscrowClaim, marketVars, recordVars
<1>17. CASE \E price \in Prices, observedAt \in 1..now, v \in Validity, t \in SettlementTokens :
               SubmitValuation(price, observedAt, v, t)
    BY <1>3, <1>17 DEF SubmitValuation, marketVars, recordVars
<1>18. (\E a \in Account, o \in OfferIds : CancelOffer(a, o))
         \/ (\E o \in OfferIds : FinalizeOfferExpiry(o))
       => \E o \in OfferIds : \E status \in OfferStatus : CloseOffer(o, status)
    BY DEF CancelOffer, CanCancelOffer, FinalizeOfferExpiry, OfferStatus
<1> QED
    BY <1>4, <1>5, <1>6, <1>7, <1>8, <1>9, <1>10, <1>11, <1>12, <1>13, <1>14, <1>15, <1>16, <1>17,
       <1>18 DEF Next

\* Nothing about an active position changes while it stays active.
LEMMA ActivePositionStays ==
    ASSUME IInv, [Next]_vars, NEW p \in PositionIds,
           positions[p].status = "ACTIVE", positions'[p].status = "ACTIVE"
    PROVE  positions'[p] = positions[p] /\ now \in Nat /\ now' \in Nat /\ now <= now'
<1>1. positions \in [PositionIds -> Position] /\ now \in Nat /\ p \in Nat
    BY MarketAssumption DEF IInv, TypeOK
<1>2. PositionStep(p) /\ (now' = now \/ now' = now + 1)
    BY PositionSteps
<1>3. p # nextPositionId
  <2>1. p < nextPositionId
    BY DEF IInv, RecordsInv, CloseoutInv, PositionSound
  <2> QED
    BY <1>1, <2>1
<1>4. ~StartAuction(p)
  <2> SUFFICES ASSUME StartAuction(p) PROVE FALSE
    OBVIOUS
  <2> DEFINE new == [positions[p] EXCEPT !.status = "AUCTION", !.auctionId = nextAuctionId,
                                         !.frozenDebt = Payoff(positions[p], now)]
  <2>1. positions' = [positions EXCEPT ![p] = new]
    BY <1>1 DEF StartAuction, CanStartAuction
  <2>2. new.status = "AUCTION"
    BY <1>1 DEF Position
  <2> HIDE DEF new
  <2> QED
    BY <1>1, <2>1, <2>2
<1>5. \A status \in Closed : positions'[p] # [positions[p] EXCEPT !.status = status]
    BY <1>1 DEF Closed, Position
<1>6. positions'[p] = positions[p]
    BY <1>2, <1>3, <1>4, <1>5 DEF PositionStep
<1> QED
    BY <1>1, <1>2, <1>6

(***************************************************************************)
(* Waiting never pays, whatever the terms: neither the minimum hold, nor   *)
(* the break fee, nor its cap, nor the change of formula at maturity lets  *)
(* a seller owe less tomorrow than today.                                  *)
(***************************************************************************)
THEOREM WaitingNeverPays == Spec => PayoffNeverFalls
<1>1. ASSUME IInv, [Next]_vars, NEW p \in PositionIds,
             positions[p].status = "ACTIVE", positions'[p].status = "ACTIVE",
             PayoffDefined(positions[p], now)
      PROVE  Payoff(positions[p], now) <= Payoff(positions'[p], now')
  <2>1. positions[p] \in Position
    BY <1>1 DEF IInv, TypeOK
  <2>2. positions'[p] = positions[p] /\ now \in Nat /\ now' \in Nat /\ now <= now'
    BY <1>1, ActivePositionStays
  <2> QED
    BY <1>1, <2>1, <2>2, PayoffGrows
<1>2. IInv /\ [Next]_vars
        => [\A p \in PositionIds :
               /\ positions[p].status = "ACTIVE" /\ positions'[p].status = "ACTIVE"
               /\ PayoffDefined(positions[p], now)
               => Payoff(positions[p], now) <= Payoff(positions'[p], now')]_vars
    BY <1>1
<1> QED
    BY <1>2, Invariance, PTL DEF Spec, PayoffNeverFalls

-----------------------------------------------------------------------------
(* Close-outs run on the terms of the fill: an invariant of its own on top  *)
(* of the market's.                                                         *)

\* The grace period starts at maturity, so a defaulted position owes its whole schedule.
DeadlineAfterMaturity ==
    \A p \in PositionIds : positions[p].repaymentDeadline >= positions[p].maturity

TermsInv == DeadlineAfterMaturity /\ CloseoutOnFillTerms

\* What CloseoutOnFillTerms says of one auction of one position.
OnFillTerms(auction, position) ==
    /\ auction.endsAt - auction.startedAt = position.closeout.auctionDuration
    /\ auction.startPrice >= position.frozenDebt
    /\ position.frozenDebt >= position.principalAmount + ScheduledInterest(position)

-----------------------------------------------------------------------------
(* Deadlines.                                                               *)

\* The records of one position around a start of its auction.
LEMMA AuctionedPosition ==
    ASSUME IInv, NEW p \in PositionIds, StartAuction(p)
    PROVE  /\ positions' = [positions EXCEPT ![p] = positions'[p]]
           /\ positions'[p].frozenDebt = Payoff(positions[p], now)
           /\ positions'[p].principalAmount = positions[p].principalAmount
           /\ positions'[p].repaymentDeadline = positions[p].repaymentDeadline
           /\ positions'[p].maturity = positions[p].maturity
           /\ positions'[p].terms = positions[p].terms
           /\ positions'[p].closeout = positions[p].closeout
<1> DEFINE debt == Payoff(positions[p], now)
           new == [positions[p] EXCEPT !.status = "AUCTION", !.auctionId = nextAuctionId,
                                       !.frozenDebt = debt]
<1>1. positions \in [PositionIds -> Position]
    BY DEF IInv, TypeOK
<1>2. positions' = [positions EXCEPT ![p] = new]
    BY <1>1 DEF StartAuction, CanStartAuction
<1> HIDE DEF debt
<1>3. /\ new.frozenDebt = debt /\ new.principalAmount = positions[p].principalAmount
      /\ new.repaymentDeadline = positions[p].repaymentDeadline
      /\ new.maturity = positions[p].maturity
      /\ new.terms = positions[p].terms /\ new.closeout = positions[p].closeout
    BY <1>1 DEF Position
<1> HIDE DEF new
<1>4. positions'[p] = new
    BY <1>1, <1>2
<1> QED
    BY <1>2, <1>3, <1>4 DEF debt

\* Every fill sets a deadline that no later step moves.
LEMMA DeadlineStep ==
    ASSUME IInv, DeadlineAfterMaturity, [Next]_vars
    PROVE  DeadlineAfterMaturity'
<1> SUFFICES ASSUME NEW p \in PositionIds
             PROVE  positions'[p].repaymentDeadline >= positions'[p].maturity
    BY DEF DeadlineAfterMaturity
<1>1. PositionStep(p) /\ positions \in [PositionIds -> Position] /\ now \in Nat
    BY PositionSteps DEF IInv, TypeOK
<1>2. CASE positions'[p] = positions[p]
    BY <1>2 DEF DeadlineAfterMaturity
<1>3. CASE \E a \in Account, o \in OfferIds : \E fill \in 1..offers[o].targetPrincipal :
              positions'[p] = NewPosition(a, o, fill)
  <2>1. PICK a \in Account, o \in OfferIds :
               \E fill \in 1..offers[o].targetPrincipal : positions'[p] = NewPosition(a, o, fill)
    BY <1>3
  <2>2. offers[o].terms.duration \in Nat /\ GracePeriod \in Nat
    BY MarketAssumption DEF IInv, TypeOK, Offer, Terms
  <2>3. /\ positions'[p].maturity = now + offers[o].terms.duration
        /\ positions'[p].repaymentDeadline = now + offers[o].terms.duration + GracePeriod
    BY <2>1 DEF NewPosition
  <2> QED
    BY <1>1, <2>2, <2>3
<1>4. CASE StartAuction(p)
    BY <1>4, AuctionedPosition DEF DeadlineAfterMaturity, StartAuction, CanStartAuction, DefaultOpen
<1>5. CASE \E status \in Closed : positions'[p] = [positions[p] EXCEPT !.status = status]
  <2>1. /\ positions'[p].repaymentDeadline = positions[p].repaymentDeadline
        /\ positions'[p].maturity = positions[p].maturity
    BY <1>1, <1>5 DEF Position
  <2> QED
    BY <2>1 DEF DeadlineAfterMaturity
<1> QED
    BY <1>1, <1>2, <1>3, <1>4, <1>5 DEF PositionStep

-----------------------------------------------------------------------------
(* Auctions.                                                                *)

\* An auction that is not just being created keeps its prices, its times and its position.
LEMMA AuctionSteps ==
    ASSUME IInv, [Next]_vars
    PROVE  \/ \E p \in PositionIds : StartAuction(p)
           \/ /\ UNCHANGED <<positionForAuction, nextAuctionId, auctionForReference>>
              /\ \A x \in AuctionIds : /\ auctions'[x].startedAt = auctions[x].startedAt
                                       /\ auctions'[x].endsAt = auctions[x].endsAt
                                       /\ auctions'[x].startPrice = auctions[x].startPrice
<1> DEFINE kept == /\ UNCHANGED <<positionForAuction, nextAuctionId, auctionForReference>>
                   /\ \A x \in AuctionIds : /\ auctions'[x].startedAt = auctions[x].startedAt
                                            /\ auctions'[x].endsAt = auctions[x].endsAt
                                            /\ auctions'[x].startPrice = auctions[x].startPrice
<1>1. auctions \in [AuctionIds -> Auction]
    BY DEF IInv, TypeOK, AuctionTypeOK
<1>2. UNCHANGED <<positionForAuction, auctionVars>> => kept
    BY DEF auctionVars
<1>3. Tick \/ UNCHANGED vars => kept
    BY <1>2 DEF Tick, vars, marketVars, recordVars, auctionVars
<1>4. InvalidateValuation \/ ChangeCompliance \/ GovernRisk \/ Administer => kept
    BY <1>2 DEF InvalidateValuation, ChangeCompliance, GovernRisk, Administer, recordVars,
                auctionVars
<1>5. ASSUME NEW a, NEW n, DepositCollateral(a, n) PROVE kept
    BY <1>2, <1>5 DEF DepositCollateral, CanDepositCollateral, marketVars, recordVars, auctionVars
<1>6. ASSUME NEW a, NEW n, NEW b, WithdrawCollateral(a, n, b) PROVE kept
    BY <1>2, <1>6 DEF WithdrawCollateral, CanWithdrawCollateral, marketVars, recordVars, auctionVars
<1>7. ASSUME NEW a, NEW q, CreateOffer(a, q) PROVE kept
    BY <1>2, <1>7 DEF CreateOffer, CanCreateOffer, auctionVars
<1>8. ASSUME NEW a, NEW o, NEW fill, NEW limit, FillOffer(a, o, fill, limit) PROVE kept
    BY <1>2, <1>8 DEF FillOffer, CanFillOffer, auctionVars
<1>9. ASSUME NEW o, NEW status, CloseOffer(o, status) PROVE kept
    BY <1>2, <1>9 DEF CloseOffer, CanCloseOffer, auctionVars
<1>10. ASSUME NEW a, NEW q, NEW limit, NEW useEscrow, Repurchase(a, q, limit, useEscrow)
       PROVE  kept
    BY <1>2, <1>10 DEF Repurchase, CanRepurchase, auctionVars
<1>11. ASSUME NEW a, NEW y, NEW limit, BuyAuction(a, y, limit) PROVE kept
  <2>1. UNCHANGED positionForAuction /\ MarkSold(y, a, limit)
    BY <1>11 DEF BuyAuction
  <2> DEFINE new == [auctions[y] EXCEPT !.status = "SOLD", !.buyer = a,
                                        !.salePrice = PriceAt(auctions[y], now)]
  <2>2. auctions' = [auctions EXCEPT ![y] = new]
    BY <1>1, <2>1 DEF MarkSold
  <2>3. y \in AuctionIds => /\ new.startedAt = auctions[y].startedAt
                            /\ new.endsAt = auctions[y].endsAt
                            /\ new.startPrice = auctions[y].startPrice
    BY <1>1 DEF Auction
  <2> HIDE DEF new
  <2> QED
    BY <1>1, <2>1, <2>2, <2>3 DEF MarkSold
<1>12. ASSUME NEW y, FinalizeFailedAuction(y) PROVE kept
  <2>1. UNCHANGED positionForAuction /\ MarkFailed(y)
    BY <1>12 DEF FinalizeFailedAuction
  <2> DEFINE new == [auctions[y] EXCEPT !.status = "FAILED"]
  <2>2. auctions' = [auctions EXCEPT ![y] = new]
    BY <1>1, <2>1 DEF MarkFailed
  <2>3. y \in AuctionIds => /\ new.startedAt = auctions[y].startedAt
                            /\ new.endsAt = auctions[y].endsAt
                            /\ new.startPrice = auctions[y].startPrice
    BY <1>1 DEF Auction
  <2> HIDE DEF new
  <2> QED
    BY <1>1, <2>1, <2>2, <2>3 DEF MarkFailed
<1>13. ASSUME NEW a, NEW b, NEW q,
              ClaimDefaultCollateral(a, q, b) \/ ClaimCollateralOnOracleFailure(a, q, b)
       PROVE  kept
    BY <1>2, <1>13 DEF ClaimDefaultCollateral, ClaimCollateralOnOracleFailure,
                       CanClaimCollateralOnOracleFailure, auctionVars
<1>14. ASSUME NEW a, NEW c, NEW n, NEW b, EscrowClaim(a, c, n, b) PROVE kept
    BY <1>2, <1>14 DEF EscrowClaim, marketVars, recordVars, auctionVars
<1>15. ASSUME NEW price, NEW observedAt, NEW v, NEW t, SubmitValuation(price, observedAt, v, t)
       PROVE  kept
    BY <1>2, <1>15 DEF SubmitValuation, marketVars, recordVars, auctionVars
<1> HIDE DEF kept
<1>16. kept \/ \E p \in PositionIds : StartAuction(p)
    BY <1>3, <1>4, <1>5, <1>6, <1>7, <1>8, <1>9, <1>10, <1>11, <1>12, <1>13, <1>14, <1>15
       DEF Next, CancelOffer, CanCancelOffer, FinalizeOfferExpiry
<1> QED
    BY <1>16 DEF kept

\* The auction a default starts is on the terms of the position's fill.
LEMMA StartedOnFillTerms ==
    ASSUME IInv, DeadlineAfterMaturity, NEW p \in PositionIds, StartAuction(p)
    PROVE  /\ nextAuctionId \in AuctionIds
           /\ positionForAuction' = [positionForAuction EXCEPT ![nextAuctionId] = p]
           /\ \A y \in AuctionIds \ {nextAuctionId} : auctions'[y] = auctions[y]
           /\ OnFillTerms(auctions'[nextAuctionId], positions'[p])
<1> DEFINE position == positions[p]
           x == nextAuctionId
           debt == Payoff(position, now)
           value == CollateralValue(position.collateralAmount, valuation.price)
           start == AuctionStart(position, value, debt)
<1>1. /\ position \in Position /\ now \in Nat /\ now > position.repaymentDeadline
      /\ PayoffDefined(position, now) /\ position.repaymentDeadline >= position.maturity
      /\ auctions \in [AuctionIds -> Auction]
    BY DEF StartAuction, CanStartAuction, DefaultOpen, IInv, TypeOK, AuctionTypeOK,
           DeadlineAfterMaturity
<1>2. /\ Create(p, position.collateralAmount, start, AuctionFloor(position, value),
                position.closeout.auctionDuration)
      /\ positionForAuction' = [positionForAuction EXCEPT ![x] = p]
    BY DEF StartAuction, CanStartAuction, AuctionLength
<1>3. value \in Nat
  <2>1. valuation.price \in Nat /\ position.collateralAmount \in Nat
    BY <1>1 DEF IInv, TypeOK, FeedTypeOK, Valuation, Position
  <2> QED
    BY <2>1, CollateralValueType
<1>4. /\ position.principalAmount \in Nat /\ position.maturity \in Nat
      /\ position.repaymentDeadline \in Nat /\ position.closeout.auctionDuration \in Nat
    BY <1>1 DEF Position, CloseoutTerms
<1>5. debt \in Nat /\ debt >= position.principalAmount + ScheduledInterest(position)
  <2>1. now >= position.maturity
    BY <1>1, <1>4
  <2>2. /\ LateInterest(position, now) \in Nat /\ ScheduledInterest(position) \in Nat
        /\ LateInterest(position, now) >= ScheduledInterest(position)
    BY <1>1, <2>1, InterestAroundSchedule
  <2>3. debt = position.principalAmount + LateInterest(position, now)
    BY <1>1, <1>4, <2>1 DEF Payoff
  <2> QED
    BY <1>4, <2>2, <2>3
<1> HIDE DEF value, debt
<1>6. start >= debt
    BY <1>1, <1>3, <1>5, AuctionPriceType
<1> HIDE DEF start
<1>7. /\ x \in AuctionIds /\ auctions'[x].startPrice = start
      /\ auctions'[x].startedAt = now
      /\ auctions'[x].endsAt = now + position.closeout.auctionDuration
      /\ \A y \in AuctionIds \ {x} : auctions'[y] = auctions[y]
    BY <1>1, <1>2 DEF Create, CanCreate
<1>8. auctions'[x].endsAt - auctions'[x].startedAt = position.closeout.auctionDuration
    BY <1>1, <1>4, <1>7
<1>9. /\ positions'[p].frozenDebt = debt
      /\ positions'[p].principalAmount = position.principalAmount
      /\ positions'[p].closeout = position.closeout
      /\ ScheduledInterest(positions'[p]) = ScheduledInterest(position)
    BY AuctionedPosition DEF ScheduledInterest, debt
<1> QED
    BY <1>2, <1>5, <1>6, <1>7, <1>8, <1>9 DEF OnFillTerms

\* The position of an auction keeps its terms and its frozen debt.
LEMMA AuctionedPositionKept ==
    ASSUME IInv, [Next]_vars, NEW x \in AuctionIds, positionForAuction[x] # 0,
           NEW auction, OnFillTerms(auction, positions[positionForAuction[x]])
    PROVE  OnFillTerms(auction, positions'[positionForAuction[x]])
<1> DEFINE p == positionForAuction[x]
<1>1. /\ p \in PositionIds /\ p \in Nat /\ positions \in [PositionIds -> Position]
      /\ positions[p].status \notin {"NONE", "ACTIVE"}
    BY MarketAssumption DEF IInv, TypeOK, RecordsInv, CloseoutInv, AuctionAgreement
<1>2. PositionStep(p)
    BY <1>1, PositionSteps
<1>3. p # nextPositionId
  <2>1. p < nextPositionId
    BY <1>1 DEF IInv, RecordsInv, CloseoutInv, PositionSound
  <2> QED
    BY <1>1, <2>1
<1>4. ~StartAuction(p)
    BY <1>1 DEF StartAuction, CanStartAuction, DefaultOpen
<1>5. CASE positions'[p] = positions[p]
    BY <1>5
<1>6. CASE \E status \in Closed : positions'[p] = [positions[p] EXCEPT !.status = status]
  <2>1. /\ positions'[p].frozenDebt = positions[p].frozenDebt
        /\ positions'[p].principalAmount = positions[p].principalAmount
        /\ positions'[p].closeout = positions[p].closeout
        /\ positions'[p].terms = positions[p].terms
    BY <1>1, <1>6 DEF Position
  <2> QED
    BY <2>1 DEF OnFillTerms, ScheduledInterest
<1> QED
    BY <1>2, <1>3, <1>4, <1>5, <1>6 DEF PositionStep

\* Every step keeps every auction on its position's fill terms.
LEMMA FillTermsStep ==
    ASSUME IInv, TermsInv, [Next]_vars
    PROVE  CloseoutOnFillTerms'
<1> SUFFICES ASSUME NEW x \in AuctionIds, positionForAuction'[x] # 0
             PROVE  OnFillTerms(auctions'[x], positions'[positionForAuction'[x]])
    BY DEF CloseoutOnFillTerms, OnFillTerms
<1>1. positionForAuction[x] # 0 =>
          OnFillTerms(auctions[x], positions[positionForAuction[x]])
    BY DEF TermsInv, CloseoutOnFillTerms, OnFillTerms
<1>2. positionForAuction \in [AuctionIds -> PositionIds \cup {0}]
    BY DEF IInv, TypeOK
<1>3. CASE \E p \in PositionIds : StartAuction(p)
  <2>1. PICK p \in PositionIds : StartAuction(p)
    BY <1>3
  <2>2. /\ nextAuctionId \in AuctionIds
        /\ positionForAuction' = [positionForAuction EXCEPT ![nextAuctionId] = p]
        /\ \A y \in AuctionIds \ {nextAuctionId} : auctions'[y] = auctions[y]
        /\ OnFillTerms(auctions'[nextAuctionId], positions'[p])
    BY <2>1, StartedOnFillTerms DEF TermsInv
  <2>3. CASE x = nextAuctionId
    BY <1>2, <2>2, <2>3
  <2>4. CASE x # nextAuctionId
    <3>1. positionForAuction'[x] = positionForAuction[x] /\ auctions'[x] = auctions[x]
      BY <1>2, <2>2, <2>4
    <3> QED
      BY <1>1, <3>1, AuctionedPositionKept
  <2> QED
    BY <2>3, <2>4
<1>4. CASE /\ positionForAuction' = positionForAuction
           /\ auctions'[x].startedAt = auctions[x].startedAt
           /\ auctions'[x].endsAt = auctions[x].endsAt
           /\ auctions'[x].startPrice = auctions[x].startPrice
  <2>1. OnFillTerms(auctions[x], positions'[positionForAuction[x]])
    BY <1>1, <1>4, AuctionedPositionKept
  <2> QED
    BY <1>4, <2>1 DEF OnFillTerms
<1> QED
    BY <1>3, <1>4, AuctionSteps

(***************************************************************************)
(* Whatever governance schedules and applies between a fill and the end of *)
(* the auction, the close-out is on the terms of the fill: the snapshot's  *)
(* duration, a start that covers the frozen debt, a debt that covers the   *)
(* principal and the whole schedule.                                       *)
(***************************************************************************)
THEOREM FillTermsGovernCloseout == Spec => []CloseoutOnFillTerms
<1>1. Init => TermsInv
  <2> SUFFICES ASSUME Init PROVE TermsInv
    OBVIOUS
  <2>1. /\ positions = [p \in PositionIds |-> NoPosition]
        /\ positionForAuction = [x \in AuctionIds |-> 0]
    BY DEF Init
  <2> QED
    BY <2>1 DEF TermsInv, DeadlineAfterMaturity, CloseoutOnFillTerms, NoPosition
<1>2. IInv /\ TermsInv /\ [Next]_vars => TermsInv'
    BY DeadlineStep, FillTermsStep DEF TermsInv
<1>3. TermsInv => CloseoutOnFillTerms
    BY DEF TermsInv
<1> QED
    BY <1>1, <1>2, <1>3, Invariance, PTL DEF Spec

-----------------------------------------------------------------------------
(* The books: what vault and escrow owe, and what fills hand over.          *)

\* A step of the market calls its vault once or leaves it alone.
LEMMA VaultSteps ==
    ASSUME IInv, [Next]_vars
    PROVE  UNCHANGED vaultVars \/ \E a \in Account, b \in Account, n \in Nat : VaultCall(a, b, n)
<1> DEFINE Call == \E a \in Account, b \in Account, n \in Nat : VaultCall(a, b, n)
<1> SUFFICES UNCHANGED vaultVars \/ Call
    OBVIOUS
<1>1. ASSUME NEW a \in Account, NEW b \in Account, NEW n \in Nat, VaultCall(a, b, n)
      PROVE  Call
    BY <1>1
<1>2. Amounts \subseteq Nat /\ Recipients \subseteq Account
    BY VaultAssumption, MarketAssumption
<1> HIDE DEF Call
<1>3. CASE Tick \/ UNCHANGED vars
    BY <1>3 DEF Tick, vars
<1>4. CASE InvalidateValuation \/ ChangeCompliance \/ GovernRisk \/ Administer
    BY <1>4 DEF InvalidateValuation, ChangeCompliance, GovernRisk, Administer
<1>5. ASSUME NEW a \in Account, NEW n \in Amounts, DepositCollateral(a, n)
      PROVE  Call
  <2>1. VaultCall(a, a, n)
    BY <1>5 DEF DepositCollateral, CanDepositCollateral, VaultCall
  <2> QED
    BY <1>1, <1>2, <2>1
<1>6. ASSUME NEW a \in Account, NEW b \in Recipients, NEW n \in Amounts,
             WithdrawCollateral(a, n, b)
      PROVE  Call
  <2>1. VaultCall(a, b, n)
    BY <1>6 DEF WithdrawCollateral, CanWithdrawCollateral, VaultCall
  <2> QED
    BY <1>1, <1>2, <2>1
<1>7. ASSUME NEW a \in Account, NEW q \in OfferParams, CreateOffer(a, q)
      PROVE  Call
  <2>1. VaultCall(a, a, q.collateralAmount) /\ q.collateralAmount \in Nat
    BY <1>7, MarketAssumption DEF CreateOffer, CanCreateOffer, VaultCall
  <2> QED
    BY <1>1, <2>1
<1>8. ASSUME NEW a \in Account, NEW o \in OfferIds, NEW fill, NEW limit,
             FillOffer(a, o, fill, limit)
      PROVE  Call
  <2>1. /\ offers[o] \in Offer /\ offers[o].seller \in Account /\ offers[o].status \in Fillable
        /\ offers[o].totalCollateral > 0 /\ offers[o].targetPrincipal > 0
        /\ CumulativelyFilled(offers[o])
        /\ fill \in 1..(offers[o].targetPrincipal - offers[o].filledPrincipal)
    BY <1>8 DEF FillOffer, CanFillOffer, CanFill, IInv, TypeOK, RecordsInv, OffersInv, OfferSound,
                FillsAreCumulative, Fillable
  <2>2. FillCollateral(offers[o], fill) \in Nat
    BY <2>1, FilledByCumulative
  <2>3. VaultCall(offers[o].seller, offers[o].seller, FillCollateral(offers[o], fill))
    BY <1>8 DEF FillOffer, CanFillOffer, VaultCall
  <2> QED
    BY <1>1, <2>1, <2>2, <2>3
<1>9. ASSUME NEW o \in OfferIds, NEW status, CloseOffer(o, status)
      PROVE  UNCHANGED vaultVars \/ Call
  <2> DEFINE left == offers[o].totalCollateral - offers[o].allocatedCollateral
  <2>1. CASE offers[o].totalCollateral > offers[o].allocatedCollateral
    <3>1. left \in Nat /\ offers[o].seller \in Account
      BY <1>9, <2>1 DEF CloseOffer, CanCloseOffer, IInv, TypeOK, Offer, RecordsInv, OffersInv,
                        OfferSound,
                        Fillable
    <3>2. VaultCall(offers[o].seller, offers[o].seller, left)
      BY <1>9, <2>1 DEF CloseOffer, CanCloseOffer, VaultCall
    <3> QED
      BY <1>1, <3>1, <3>2
  <2>2. CASE ~(offers[o].totalCollateral > offers[o].allocatedCollateral)
    BY <1>9, <2>2 DEF CloseOffer, CanCloseOffer
  <2> QED
    BY <2>1, <2>2
<1>10. ASSUME NEW a \in Account, NEW p \in PositionIds, NEW limit, NEW useEscrow,
              Repurchase(a, p, limit, useEscrow)
       PROVE  Call
  <2>1. VaultCall(a, a, 0)
    BY <1>10 DEF Repurchase, CanRepurchase, VaultCall
  <2> QED
    BY <1>1, <2>1
<1>11. ASSUME NEW p \in PositionIds, StartAuction(p)
       PROVE  Call
  <2>1. /\ positions[p].seller \in Account /\ nextAuctionId \in AuctionIds
        /\ AllocateAuction(positions[p].seller, p, nextAuctionId)
    BY <1>11 DEF StartAuction, CanStartAuction, DefaultOpen, Create, CanCreate, IInv, RecordsInv,
                 CloseoutInv,
                 PositionSound
  <2>2. VaultCall(positions[p].seller, positions[p].seller, 0)
    BY <2>1 DEF VaultCall
  <2> QED
    BY <1>1, <2>1, <2>2
<1>12. ASSUME NEW a \in Account, NEW x \in AuctionIds, NEW limit, BuyAuction(a, x, limit)
       PROVE  Call
  <2>1. VaultCall(a, a, 0)
    BY <1>12 DEF BuyAuction, VaultCall
  <2> QED
    BY <1>1, <2>1
<1>13. ASSUME NEW x \in AuctionIds, FinalizeFailedAuction(x)
       PROVE  UNCHANGED vaultVars
    BY <1>13 DEF FinalizeFailedAuction
<1>14. ASSUME NEW a \in Account, NEW b \in Recipients, NEW p \in PositionIds,
              ClaimDefaultCollateral(a, p, b)
       PROVE  Call
  <2>1. positions[p].auctionId \in AuctionIds /\ ReleaseAuction(positions[p].auctionId, b)
    BY <1>14 DEF ClaimDefaultCollateral, IInv, RecordsInv, CloseoutInv, PositionSound
  <2>2. VaultCall(a, b, 0)
    BY <2>1 DEF VaultCall
  <2> QED
    BY <1>1, <1>2, <2>2
<1>15. ASSUME NEW a \in Account, NEW b \in Recipients, NEW p \in PositionIds,
              ClaimCollateralOnOracleFailure(a, p, b)
       PROVE  Call
  <2>1. VaultCall(a, b, 0)
    BY <1>15 DEF ClaimCollateralOnOracleFailure, CanClaimCollateralOnOracleFailure, VaultCall
  <2> QED
    BY <1>1, <1>2, <2>1
<1>16. ASSUME NEW a, NEW c, NEW n, NEW b, EscrowClaim(a, c, n, b)
       PROVE  UNCHANGED vaultVars
    BY <1>16 DEF EscrowClaim
<1>17. ASSUME NEW price, NEW observedAt, NEW v, NEW t, SubmitValuation(price, observedAt, v, t)
       PROVE  UNCHANGED vaultVars
    BY <1>17 DEF SubmitValuation
<1>18. CASE Next
    BY <1>3, <1>4, <1>5, <1>6, <1>7, <1>8, <1>9, <1>10, <1>11, <1>12, <1>13, <1>14, <1>15, <1>16,
       <1>17, <1>18 DEF Next, CancelOffer, CanCancelOffer, FinalizeOfferExpiry
<1> QED
    BY <1>3, <1>18

\* The vault's books stay balanced.
LEMMA VaultBooksStep ==
    ASSUME IInv, VaultBooks, [Next]_vars
    PROVE  VaultBooks' /\ [Custody!LedgerNext]_(Custody!ledger)
<1>1. VaultTypeOK /\ VaultTypeOK'
    BY NextInvariant DEF IInv, TypeOK
<1>2. UNCHANGED vaultVars \/ VaultOutcome
    BY <1>1, VaultSteps, VaultOutcomes DEF VaultBooks
<1> QED
    BY <1>1, <1>2, VaultBooksKept

(***************************************************************************)
(* The vault's buckets implement custody under the market, whatever the    *)
(* order of fills, repayments, auctions and claims: collateral stays its   *)
(* owner's until a withdrawal, a seizure or an auction release lets it out.*)
(***************************************************************************)
THEOREM MarketImplementsCustody == Spec => ImplementsCustody
<1>1. Init => VaultBooks /\ Custody!LedgerInit
  <2> SUFFICES ASSUME Init PROVE VaultBooks /\ Custody!LedgerInit
    OBVIOUS
  <2>1. VaultInit
    BY DEF Init
  <2>2. VaultBooks /\ \A a \in Account : Owned(a) = 0
    BY <2>1, EmptyVault
  <2> QED
    BY <2>1, <2>2 DEF Custody!LedgerInit, VaultInit
<1>2. IInv /\ VaultBooks /\ [Next]_vars => VaultBooks' /\ [Custody!LedgerNext]_(Custody!ledger)
    BY VaultBooksStep
<1> QED
    BY <1>1, <1>2, Invariance, PTL DEF Spec, ImplementsCustody, Custody!LedgerSpec

\* What the settlement of a sale price adds to the escrow's claims.
LEMMA SettledBook ==
    ASSUME NEW b \in Book, NEW position \in Position, NEW price \in Nat, BookBacked(b),
           CanRecordClaims(b, price), position.buyer \in Account, position.seller \in Account,
           feeTreasury \in Account
    PROVE  LET d == Settled(b, position, price)
               lender == LenderShare(position, price)
               fee == FeeShare(position, price)
               rest == SellerShare(position, price)
           IN  /\ d \in Book /\ BookBacked(d) /\ d.escrowCash = b.escrowCash
               /\ d.totalClaims = b.totalClaims + price
               /\ \A a \in Account :
                     d.claimable[a] = b.claimable[a] + (IF a = position.buyer THEN lender ELSE 0)
                                                     + (IF a = feeTreasury THEN fee ELSE 0)
                                                     + (IF a = position.seller THEN rest ELSE 0)
<1>1. PICK lender, fee, rest : /\ lender = LenderShare(position, price)
                               /\ fee = FeeShare(position, price)
                               /\ rest = SellerShare(position, price)
    OBVIOUS
<1>2. lender \in Nat /\ fee \in Nat /\ rest \in Nat /\ lender + fee + rest = price
    BY <1>1, SharesType
<1>3. PICK b1 : b1 = WithClaim(b, position.buyer, lender)
    OBVIOUS
<1>4. PICK b2 : b2 = WithClaim(b1, feeTreasury, fee)
    OBVIOUS
<1>5. PICK b3 : b3 = WithClaim(b2, position.seller, rest)
    OBVIOUS
<1>6. b.escrowCash \in Nat /\ b.totalClaims \in Nat /\ b.claimable \in [Account -> Nat]
    BY DEF Book
<1>7. CanRecordClaims(b, lender)
    BY <1>2, <1>6 DEF CanRecordClaims
<1>8. /\ b1 \in Book /\ BookBacked(b1) /\ b1.escrowCash = b.escrowCash
      /\ b1.totalClaims = b.totalClaims + lender
      /\ \A a \in Account : b1.claimable[a] = b.claimable[a]
                                                + IF a = position.buyer THEN lender ELSE 0
    BY <1>2, <1>3, <1>7, WithClaimBacked
<1>9. CanRecordClaims(b1, fee)
    BY <1>2, <1>6, <1>8 DEF CanRecordClaims
<1>10. /\ b2 \in Book /\ BookBacked(b2) /\ b2.escrowCash = b1.escrowCash
       /\ b2.totalClaims = b1.totalClaims + fee
       /\ \A a \in Account : b2.claimable[a] = b1.claimable[a]
                                                 + IF a = feeTreasury THEN fee ELSE 0
    BY <1>2, <1>4, <1>8, <1>9, WithClaimBacked
<1>11. CanRecordClaims(b2, rest)
    BY <1>2, <1>6, <1>8, <1>10 DEF CanRecordClaims
<1>12. /\ b3 \in Book /\ BookBacked(b3) /\ b3.escrowCash = b2.escrowCash
       /\ b3.totalClaims = b2.totalClaims + rest
       /\ \A a \in Account : b3.claimable[a] = b2.claimable[a]
                                                 + IF a = position.seller THEN rest ELSE 0
    BY <1>2, <1>5, <1>10, <1>11, WithClaimBacked
<1>13. b3 = Settled(b, position, price)
    BY <1>1, <1>3, <1>4, <1>5 DEF Settled
<1>14. /\ b3.escrowCash = b.escrowCash /\ b3.totalClaims = b.totalClaims + price
    BY <1>2, <1>6, <1>8, <1>10, <1>12
<1>15. ASSUME NEW a \in Account
       PROVE  b3.claimable[a] = b.claimable[a] + (IF a = position.buyer THEN lender ELSE 0)
                                               + (IF a = feeTreasury THEN fee ELSE 0)
                                               + (IF a = position.seller THEN rest ELSE 0)
  <2>1. b.claimable[a] \in Nat
    BY <1>6
  <2>2. /\ b1.claimable[a] = b.claimable[a] + (IF a = position.buyer THEN lender ELSE 0)
        /\ b2.claimable[a] = b1.claimable[a] + (IF a = feeTreasury THEN fee ELSE 0)
        /\ b3.claimable[a] = b2.claimable[a] + (IF a = position.seller THEN rest ELSE 0)
    BY <1>8, <1>10, <1>12
  <2> QED
    BY <2>2
<1> QED
    BY <1>1, <1>12, <1>13, <1>14, <1>15

\* A sale at auction, from the position it decides to the book it leaves.
LEMMA SaleSettles ==
    ASSUME IInv, NEW a \in Account, NEW x \in AuctionIds, NEW limit \in Limits,
           BuyAuction(a, x, limit), BookBacked(book)
    PROVE  \E p \in PositionIds, b \in Book, price \in Nat :
              /\ InAuction(x, p)
              /\ positions' = [positions EXCEPT ![p].status = "LIQUIDATED"]
              /\ price \in auctions[x].floorPrice..auctions[x].startPrice
              /\ auctions[x].floorPrice > 0
              /\ auctions' = [auctions EXCEPT ![x].status = "SOLD", ![x].buyer = a,
                                              ![x].salePrice = price]
              /\ BookBacked(b) /\ CanRecordClaims(b, price)
              /\ b.escrowCash = book.escrowCash + price /\ b.totalClaims = book.totalClaims
              /\ b.claimable = book.claimable
              /\ book' = Settled(b, positions[p], price)
              /\ positions[p] \in Position /\ positions[p].seller \in Account
              /\ positions[p].buyer \in Account \ {positions[p].seller}
              /\ feeTreasury \in Account
<1>1. PICK price, b : price = PriceAt(auctions[x], now) /\ b = PaidToEscrow(book, a, price)
    OBVIOUS
<1>2. PICK p \in PositionIds :
        /\ InAuction(x, p)
        /\ MarkSold(x, a, limit)
        /\ CanPay(book, a, price)
        /\ CanRecordClaims(b, price)
        /\ positions' = [positions EXCEPT ![p].status = "LIQUIDATED"]
        /\ book' = Settled(b, positions[p], price)
    BY <1>1 DEF BuyAuction
<1>3. /\ auctions[x] \in Auction /\ AuctionsSound /\ now \in Nat /\ book \in Book
      /\ positions[p] \in Position /\ positions[p].seller \in Account
      /\ positions[p].buyer \in Account \ {positions[p].seller} /\ feeTreasury \in Account
    BY <1>2 DEF IInv, TypeOK, AuctionTypeOK, EscrowTypeOK, RecordsInv, CloseoutInv,
                PositionSound, InAuction
<1>4. /\ auctions[x].startedAt <= now /\ auctions[x].startedAt < auctions[x].endsAt
      /\ auctions[x].floorPrice <= auctions[x].startPrice /\ auctions[x].floorPrice > 0
    BY <1>2, <1>3 DEF AuctionsSound, AuctionSound, MarkSold, Auction
<1>5. /\ price \in Nat /\ auctions[x].floorPrice <= price /\ price <= auctions[x].startPrice
    BY <1>1, <1>3, <1>4, PriceRange
<1>6. price \in auctions[x].floorPrice..auctions[x].startPrice
    BY <1>3, <1>5 DEF Auction
<1>7. /\ b \in Book /\ BookBacked(b) /\ b.escrowCash = book.escrowCash + price
      /\ b.totalClaims = book.totalClaims /\ b.claimable = book.claimable
    BY <1>1, <1>2, <1>3, <1>5, PaidToEscrowType, PaidToEscrowBacked
<1>8. auctions' = [auctions EXCEPT ![x].status = "SOLD", ![x].buyer = a, ![x].salePrice = price]
    BY <1>1, <1>2 DEF MarkSold
<1> QED
    BY <1>2, <1>3, <1>4, <1>5, <1>6, <1>7, <1>8

\* The escrow's books stay balanced.
LEMMA BookStep ==
    ASSUME IInv, BookBacked(book), [Next]_vars
    PROVE  BookBacked(book')
<1>1. book \in Book /\ EscrowTypeOK /\ feeTreasury \in Account
    BY DEF IInv, TypeOK, EscrowTypeOK
<1>2. UNCHANGED book => BookBacked(book')
    OBVIOUS
<1>3. CASE Tick \/ UNCHANGED vars \/ InvalidateValuation \/ GovernRisk \/ Administer
    BY <1>2, <1>3 DEF Tick, vars, escrowVars, InvalidateValuation, GovernRisk, Administer
<1>4. CASE ChangeCompliance
    BY <1>2, <1>4 DEF ChangeCompliance, SetCompliance
<1>5. ASSUME NEW a \in Account, NEW n \in Amounts, DepositCollateral(a, n)
      PROVE  UNCHANGED book
    BY <1>5 DEF DepositCollateral, CanDepositCollateral, escrowVars
<1>6. ASSUME NEW a, NEW b, NEW n, WithdrawCollateral(a, n, b)
      PROVE  UNCHANGED book
    BY <1>6 DEF WithdrawCollateral, CanWithdrawCollateral, escrowVars
<1>7. ASSUME NEW a, NEW q, CreateOffer(a, q)
      PROVE  UNCHANGED book
    BY <1>7 DEF CreateOffer, CanCreateOffer, escrowVars
<1>8. ASSUME NEW a \in Account, NEW o \in OfferIds, NEW fill, NEW limit,
             FillOffer(a, o, fill, limit)
      PROVE  BookBacked(book')
  <2>1. PICK fee, b : /\ fee = FillFee(offers[o], fill)
                      /\ b = PaidTo(book, a, offers[o].seller, fill - fee)
    OBVIOUS
  <2>2. /\ fee < fill /\ CanPay(book, a, fill - fee)
        /\ fee > 0 => CanPayOrEscrow(b, a, feeTreasury, fee)
        /\ book' = PaidOrEscrowed(b, a, feeTreasury, fee)
    BY <1>8, <2>1 DEF FillOffer, CanFillOffer, CanFill
  <2>3. /\ offers[o] \in Offer /\ offers[o].seller \in Account
        /\ offers[o].totalCollateral > 0 /\ offers[o].targetPrincipal > 0
        /\ CumulativelyFilled(offers[o])
        /\ fill \in 1..(offers[o].targetPrincipal - offers[o].filledPrincipal)
    BY <1>8 DEF FillOffer, CanFillOffer, CanFill, IInv, TypeOK, RecordsInv, OffersInv, OfferSound,
                FillsAreCumulative, Fillable
  <2>4. fee \in Nat /\ fill \in Nat /\ fill - fee \in Nat
    BY <2>1, <2>2, <2>3, FilledByCumulative DEF Offer
  <2>5. b \in Book /\ BookBacked(b)
    BY <1>1, <2>1, <2>2, <2>3, <2>4, PaidToType, PaidToBacked
  <2>6. fee = 0 \/ CanPayOrEscrow(b, a, feeTreasury, fee)
    BY <2>2, <2>4
  <2> QED
    BY <1>1, <2>2, <2>4, <2>5, <2>6, PaidOrEscrowedBacked
<1>9. ASSUME NEW o \in OfferIds, NEW status, CloseOffer(o, status)
      PROVE  UNCHANGED book
    BY <1>9 DEF CloseOffer, CanCloseOffer, escrowVars
<1>10. ASSUME NEW a \in Account, NEW p \in PositionIds, NEW limit, NEW useEscrow,
              Repurchase(a, p, limit, useEscrow)
       PROVE  BookBacked(book')
  <2>1. PICK payoff, b : /\ payoff = Payoff(positions[p], now)
                         /\ b = PaidToEscrow(book, positions[p].seller, payoff)
    OBVIOUS
  <2>2. /\ positions[p] \in Position /\ now \in Nat /\ positions[p].seller = a
        /\ positions[p].buyer \in Account /\ PayoffDefined(positions[p], now)
        /\ CanPay(book, a, payoff)
        /\ IF useEscrow THEN RepurchaseEscrowed(book, positions[p], payoff)
                        ELSE RepurchaseDirect(book, positions[p], payoff)
    BY <1>10, <2>1 DEF Repurchase, CanRepurchase, IInv, TypeOK, RecordsInv, CloseoutInv,
                       PositionSound
  <2>3. payoff \in Nat
    BY <2>1, <2>2, PayoffType
  <2>4. CASE ~useEscrow
    <3>1. book' = PaidTo(book, a, positions[p].buyer, payoff)
      BY <2>2, <2>4 DEF RepurchaseDirect
    <3> QED
      BY <1>1, <2>2, <2>3, <3>1, PaidToBacked
  <2>5. CASE useEscrow
    <3>1. CanRecordClaims(b, payoff) /\ book' = WithClaim(b, positions[p].buyer, payoff)
      BY <2>1, <2>2, <2>5 DEF RepurchaseEscrowed
    <3>2. b \in Book /\ BookBacked(b)
      BY <1>1, <2>1, <2>2, <2>3, PaidToEscrowType, PaidToEscrowBacked
    <3> QED
      BY <2>2, <2>3, <3>1, <3>2, WithClaimBacked
  <2> QED
    BY <2>4, <2>5
<1>11. ASSUME NEW p \in PositionIds, StartAuction(p)
       PROVE  UNCHANGED book
    BY <1>11 DEF StartAuction, CanStartAuction, escrowVars
<1>12. ASSUME NEW a \in Account, NEW x \in AuctionIds, NEW limit \in Limits,
              BuyAuction(a, x, limit)
       PROVE  BookBacked(book')
  <2>1. PICK p \in PositionIds, b \in Book, price \in Nat :
          /\ BookBacked(b) /\ CanRecordClaims(b, price)
          /\ book' = Settled(b, positions[p], price)
          /\ positions[p] \in Position /\ positions[p].seller \in Account
          /\ positions[p].buyer \in Account
          /\ feeTreasury \in Account
    BY <1>12, SaleSettles
  <2>2. BookBacked(Settled(b, positions[p], price))
    BY <2>1, SettledBook
  <2> QED
    BY <2>1, <2>2
<1>13. ASSUME NEW x \in AuctionIds, FinalizeFailedAuction(x)
       PROVE  UNCHANGED book
    BY <1>13 DEF FinalizeFailedAuction, escrowVars
<1>14. ASSUME NEW a, NEW b, NEW p \in PositionIds,
              ClaimDefaultCollateral(a, p, b) \/ ClaimCollateralOnOracleFailure(a, p, b)
       PROVE  UNCHANGED book
    BY <1>14 DEF ClaimDefaultCollateral, ClaimCollateralOnOracleFailure,
                 CanClaimCollateralOnOracleFailure, escrowVars
<1>15. ASSUME NEW a \in Account, NEW b \in Recipients, NEW n \in ClaimAmounts, NEW c,
              EscrowClaim(a, c, n, b)
       PROVE  BookBacked(book')
  <2>1. n \in Nat /\ b \in Account /\ ClaimSettlement(a, c, n, b)
    BY <1>15, MarketAssumption DEF EscrowClaim
  <2> QED
    BY <1>1, <2>1, EscrowClaimBacked
<1>16. ASSUME NEW price, NEW observedAt, NEW v, NEW t, SubmitValuation(price, observedAt, v, t)
       PROVE  UNCHANGED book
    BY <1>16 DEF SubmitValuation, escrowVars
<1>17. CASE Next
    BY <1>2, <1>3, <1>4, <1>5, <1>6, <1>7, <1>8, <1>9, <1>10, <1>11, <1>12, <1>13, <1>14, <1>15,
       <1>16, <1>17 DEF Next, CancelOffer, CanCancelOffer, FinalizeOfferExpiry
<1> QED
    BY <1>3, <1>17
\* No unused record is part of any account: a position not yet open backs no
\* offer, and an offer not yet made has handed over nothing.
UnusedRecords ==
    /\ \A p \in PositionIds : positions[p].status = "NONE" => positions[p].offerId = 0
    /\ \A o \in OfferIds :
          o >= nextOfferId => /\ offers[o].status = "NONE"
                              /\ offers[o].filledPrincipal = 0
                              /\ offers[o].allocatedCollateral = 0

\* What the accounts of an offer look at: its fills, and what positions received.
SameFills(o) ==
    /\ offers'[o].filledPrincipal = offers[o].filledPrincipal
    /\ offers'[o].allocatedCollateral = offers[o].allocatedCollateral
    /\ offers[o].status = "NONE" => offers'[o].status = "NONE"
SameStake(p) ==
    /\ positions'[p].offerId = positions[p].offerId
    /\ positions'[p].principalAmount = positions[p].principalAmount
    /\ positions'[p].collateralAmount = positions[p].collateralAmount
    /\ positions'[p].status = "NONE" => positions[p].status = "NONE"

\* Every step but the making and the filling of an offer leaves the accounts alone.
LEMMA AccountSteps ==
    ASSUME IInv, [Next]_vars
    PROVE  \/ \E a \in Account, q \in OfferParams : CreateOffer(a, q)
           \/ \E a \in Account, o \in OfferIds, limit \in Limits :
                 \E fill \in 1..offers[o].targetPrincipal : FillOffer(a, o, fill, limit)
           \/ /\ nextOfferId' = nextOfferId
              /\ \A o \in OfferIds : SameFills(o)
              /\ \A p \in PositionIds : SameStake(p)
<1> DEFINE Same == /\ nextOfferId' = nextOfferId
                   /\ \A o \in OfferIds : SameFills(o)
                   /\ \A p \in PositionIds : SameStake(p)
<1>1. positions \in [PositionIds -> Position] /\ offers \in [OfferIds -> Offer]
    BY DEF IInv, TypeOK
<1>2. UNCHANGED positions => \A p \in PositionIds : SameStake(p)
    BY DEF SameStake
<1>3. UNCHANGED offers => \A o \in OfferIds : SameFills(o)
    BY DEF SameFills
<1>4. ASSUME NEW q \in PositionIds, NEW status \in Closed,
             positions' = [positions EXCEPT ![q].status = status]
      PROVE  \A p \in PositionIds : SameStake(p)
    BY <1>1, <1>4 DEF SameStake, Closed, Position
<1>5. UNCHANGED recordVars => Same
    BY <1>2, <1>3 DEF recordVars
<1>6. ASSUME UNCHANGED <<offers, nextOfferId>>, \A p \in PositionIds : SameStake(p)
      PROVE  Same
    BY <1>3, <1>6
<1>7. ASSUME Tick \/ UNCHANGED vars
      PROVE  Same
    BY <1>5, <1>7 DEF Tick, vars, marketVars
<1>8. ASSUME InvalidateValuation \/ ChangeCompliance \/ GovernRisk \/ Administer
      PROVE  Same
    BY <1>5, <1>8 DEF InvalidateValuation, ChangeCompliance, GovernRisk, Administer
<1>9. ASSUME NEW a, NEW n, DepositCollateral(a, n)
      PROVE  Same
    BY <1>5, <1>9 DEF DepositCollateral, CanDepositCollateral, marketVars
<1>10. ASSUME NEW a, NEW b, NEW n, WithdrawCollateral(a, n, b)
       PROVE  Same
    BY <1>5, <1>10 DEF WithdrawCollateral, CanWithdrawCollateral, marketVars
<1>11. ASSUME NEW o \in OfferIds, NEW status, status # "NONE", CloseOffer(o, status)
       PROVE  Same
  <2>1. /\ offers' = [offers EXCEPT ![o].status = status] /\ UNCHANGED <<nextOfferId, positions>>
        /\ offers[o].status # "NONE"
    BY <1>11 DEF CloseOffer, CanCloseOffer, Fillable
  <2>2. \A i \in OfferIds : SameFills(i)
    BY <1>1, <2>1 DEF SameFills, Offer
  <2> QED
    BY <1>2, <2>1, <2>2
<1>12. ASSUME NEW a, NEW p \in PositionIds, NEW limit, NEW useEscrow,
              Repurchase(a, p, limit, useEscrow)
       PROVE  Same
  <2>1. UNCHANGED <<offers, nextOfferId>> /\ positions' = [positions EXCEPT ![p].status = "REPAID"]
    BY <1>12 DEF Repurchase, CanRepurchase
  <2> QED
    BY <1>4, <1>6, <2>1 DEF Closed
<1>13. ASSUME NEW p \in PositionIds, StartAuction(p)
       PROVE  Same
  <2>1. /\ UNCHANGED <<offers, nextOfferId>>
        /\ positions' = [positions EXCEPT ![p].status = "AUCTION",
                                          ![p].auctionId = nextAuctionId,
                                          ![p].frozenDebt = Payoff(positions[p], now)]
    BY <1>13 DEF StartAuction, CanStartAuction
  <2>2. \A i \in PositionIds : SameStake(i)
    BY <1>1, <2>1 DEF SameStake, Position
  <2> QED
    BY <1>6, <2>1, <2>2
<1>14. ASSUME NEW a, NEW x, NEW limit, BuyAuction(a, x, limit)
       PROVE  Same
  <2>1. UNCHANGED <<offers, nextOfferId>>
        /\ \E p \in PositionIds : positions' = [positions EXCEPT ![p].status = "LIQUIDATED"]
    BY <1>14 DEF BuyAuction
  <2> QED
    BY <1>4, <1>6, <2>1 DEF Closed
<1>15. ASSUME NEW x, FinalizeFailedAuction(x)
       PROVE  Same
  <2>1. UNCHANGED <<offers, nextOfferId>>
        /\ \E p \in PositionIds : positions' = [positions EXCEPT ![p].status = "AUCTION_FAILED"]
    BY <1>15 DEF FinalizeFailedAuction
  <2> QED
    BY <1>4, <1>6, <2>1 DEF Closed
<1>16. ASSUME NEW a, NEW b, NEW p \in PositionIds,
              ClaimDefaultCollateral(a, p, b) \/ ClaimCollateralOnOracleFailure(a, p, b)
       PROVE  Same
  <2>1. UNCHANGED <<offers, nextOfferId>>
        /\ positions' = [positions EXCEPT ![p].status = "COLLATERAL_CLAIMED"]
    BY <1>16 DEF ClaimDefaultCollateral, ClaimCollateralOnOracleFailure,
                 CanClaimCollateralOnOracleFailure
  <2> QED
    BY <1>4, <1>6, <2>1 DEF Closed
<1>17. ASSUME NEW a, NEW c, NEW n, NEW b, EscrowClaim(a, c, n, b)
       PROVE  Same
    BY <1>5, <1>17 DEF EscrowClaim, marketVars
<1>18. ASSUME NEW price, NEW observedAt, NEW v, NEW t, SubmitValuation(price, observedAt, v, t)
       PROVE  Same
    BY <1>5, <1>18 DEF SubmitValuation, marketVars
<1> HIDE DEF Same
<1>19. ASSUME Next
       PROVE  \/ Same
              \/ \E a \in Account, q \in OfferParams : CreateOffer(a, q)
              \/ \E a \in Account, o \in OfferIds, limit \in Limits :
                    \E fill \in 1..offers[o].targetPrincipal : FillOffer(a, o, fill, limit)
    BY <1>7, <1>8, <1>9, <1>10, <1>11, <1>12, <1>13, <1>14, <1>15, <1>16, <1>17, <1>18, <1>19
       DEF Next, CancelOffer, CanCancelOffer, FinalizeOfferExpiry
<1> QED
    BY <1>7, <1>19 DEF Same

\* What the positions of an offer received, in one currency.
StakeIn(amount, o) == SumFunctionOnSet(amount, PositionsOf(o))
Principals == [p \in PositionIds |-> positions[p].principalAmount]
Collaterals == [p \in PositionIds |-> positions[p].collateralAmount]

\* Both sums move by the change of one position.
LEMMA StakeChange ==
    ASSUME positions \in [PositionIds -> Position], (positions \in [PositionIds -> Position])',
           NEW k \in PositionIds, \A p \in PositionIds \ {k} : SameStake(p), NEW o \in OfferIds
    PROVE  /\ StakeIn(Principals, o)' = StakeIn(Principals, o)
                 + (IF positions'[k].offerId = o THEN positions'[k].principalAmount ELSE 0)
                 - (IF positions[k].offerId = o THEN positions[k].principalAmount ELSE 0)
           /\ StakeIn(Collaterals, o)' = StakeIn(Collaterals, o)
                 + (IF positions'[k].offerId = o THEN positions'[k].collateralAmount ELSE 0)
                 - (IF positions[k].offerId = o THEN positions[k].collateralAmount ELSE 0)
<1>1. PICK P, Q : P = PositionsOf(o) /\ Q = PositionsOf(o)'
    OBVIOUS
<1>2. /\ P \in SUBSET PositionIds /\ Q \in SUBSET PositionIds
      /\ k \in P <=> positions[k].offerId = o
      /\ k \in Q <=> positions'[k].offerId = o
      /\ \A p \in PositionIds \ {k} : p \in Q <=> p \in P
    BY <1>1 DEF PositionsOf, SameStake
<1>3. IsFiniteSet(PositionIds)
    BY VaultAssumption
<1>4. PICK f, g : f = Principals /\ g = Principals'
    OBVIOUS
<1>5. /\ \A p \in PositionIds : f[p] \in Int /\ g[p] \in Int
      /\ \A p \in PositionIds \ {k} : g[p] = f[p]
      /\ f[k] = positions[k].principalAmount /\ g[k] = positions'[k].principalAmount
    BY <1>4 DEF Principals, SameStake, Position
<1>6. SumFunctionOnSet(g, Q) = SumFunctionOnSet(f, P) + (IF k \in Q THEN g[k] ELSE 0)
                                                     - (IF k \in P THEN f[k] ELSE 0)
    BY <1>2, <1>3, <1>5, SumGroup
<1>7. PICK u, v : u = Collaterals /\ v = Collaterals'
    OBVIOUS
<1>8. /\ \A p \in PositionIds : u[p] \in Int /\ v[p] \in Int
      /\ \A p \in PositionIds \ {k} : v[p] = u[p]
      /\ u[k] = positions[k].collateralAmount /\ v[k] = positions'[k].collateralAmount
    BY <1>7 DEF Collaterals, SameStake, Position
<1>9. SumFunctionOnSet(v, Q) = SumFunctionOnSet(u, P) + (IF k \in Q THEN v[k] ELSE 0)
                                                     - (IF k \in P THEN u[k] ELSE 0)
    BY <1>2, <1>3, <1>8, SumGroup
<1>10. /\ StakeIn(Principals, o) = SumFunctionOnSet(f, P)
       /\ StakeIn(Principals, o)' = SumFunctionOnSet(g, Q)
       /\ StakeIn(Collaterals, o) = SumFunctionOnSet(u, P)
       /\ StakeIn(Collaterals, o)' = SumFunctionOnSet(v, Q)
    BY <1>1, <1>4, <1>7 DEF StakeIn
<1> QED
    BY <1>2, <1>5, <1>6, <1>8, <1>9, <1>10

\* Without a change of any position, both sums stay.
LEMMA StakeKept ==
    ASSUME positions \in [PositionIds -> Position], (positions \in [PositionIds -> Position])',
           \A p \in PositionIds : SameStake(p), NEW o \in OfferIds
    PROVE  /\ StakeIn(Principals, o)' = StakeIn(Principals, o)
           /\ StakeIn(Collaterals, o)' = StakeIn(Collaterals, o)
<1>1. PICK P : P = PositionsOf(o)
    OBVIOUS
<1>2. PositionsOf(o)' = P /\ P \subseteq PositionIds
    BY <1>1 DEF PositionsOf, SameStake
<1>3. Principals' = Principals /\ Collaterals' = Collaterals
    BY DEF Principals, Collaterals, SameStake
<1> QED
    BY <1>1, <1>2, <1>3 DEF StakeIn

\* No step upsets the accounts of an offer.
LEMMA AccountsStep ==
    ASSUME IInv, IInv', PositionsAddUp, UnusedRecords, [Next]_vars
    PROVE  PositionsAddUp' /\ UnusedRecords'
<1>1. /\ positions \in [PositionIds -> Position] /\ (positions \in [PositionIds -> Position])'
      /\ offers \in [OfferIds -> Offer] /\ nextOfferId \in Nat
    BY DEF IInv, TypeOK
<1>2. \A o \in OfferIds : /\ offers[o].filledPrincipal = StakeIn(Principals, o)
                          /\ offers[o].allocatedCollateral = StakeIn(Collaterals, o)
    BY DEF PositionsAddUp, StakeIn, Principals, Collaterals
<1>3. ASSUME \A o \in OfferIds : /\ offers'[o].filledPrincipal = StakeIn(Principals, o)'
                                 /\ offers'[o].allocatedCollateral = StakeIn(Collaterals, o)'
      PROVE  PositionsAddUp'
    BY <1>3 DEF PositionsAddUp, StakeIn, Principals, Collaterals
<1>4. OfferIds \subseteq Nat /\ 0 \notin OfferIds
    BY MarketAssumption
<1>5. ASSUME NEW a \in Account, NEW q \in OfferParams, CreateOffer(a, q)
      PROVE  PositionsAddUp' /\ UnusedRecords'
  <2>1. /\ offers' = [offers EXCEPT ![nextOfferId] = offers'[nextOfferId]]
        /\ offers'[nextOfferId].filledPrincipal = 0
        /\ offers'[nextOfferId].allocatedCollateral = 0
    BY <1>1, <1>5 DEF CreateOffer, CanCreateOffer
  <2>2. /\ nextOfferId \in OfferIds /\ nextOfferId' = nextOfferId + 1 /\ positions' = positions
    BY <1>5 DEF CreateOffer, CanCreateOffer
  <2> DEFINE new == offers'[nextOfferId]
  <2>a. offers' = [offers EXCEPT ![nextOfferId] = new]
    BY <2>1
  <2>b. new.filledPrincipal = 0 /\ new.allocatedCollateral = 0
    BY <2>1
  <2> HIDE DEF new
  <2>c. \A o \in OfferIds : offers'[o] = IF o = nextOfferId THEN new ELSE offers[o]
    BY <1>1, <2>2, <2>a
  <2>3. \A o \in OfferIds : /\ offers'[o].filledPrincipal = offers[o].filledPrincipal
                            /\ offers'[o].allocatedCollateral = offers[o].allocatedCollateral
                            /\ o # nextOfferId => offers'[o] = offers[o]
    <3>1. ASSUME NEW o \in OfferIds, o = nextOfferId
          PROVE  offers[o].filledPrincipal = 0 /\ offers[o].allocatedCollateral = 0
      BY <1>1, <3>1 DEF UnusedRecords
    <3> QED
      BY <2>2, <2>b, <2>c, <3>1
  <2>4. \A p \in PositionIds : SameStake(p)
    BY <2>2 DEF SameStake
  <2>5. PositionsAddUp'
    BY <1>1, <1>2, <1>3, <2>3, <2>4, StakeKept
  <2>6. UnusedRecords'
    <3>1. ASSUME NEW o \in OfferIds, o >= nextOfferId + 1
          PROVE  o >= nextOfferId /\ offers'[o] = offers[o]
      BY <1>1, <1>4, <2>3, <3>1
    <3> QED
      BY <2>2, <3>1 DEF UnusedRecords
  <2> QED
    BY <2>5, <2>6
<1>6. ASSUME NEW a \in Account, NEW o \in OfferIds, NEW fill, NEW limit,
             FillOffer(a, o, fill, limit)
      PROVE  PositionsAddUp' /\ UnusedRecords'
  <2>1. /\ offers[o] \in Offer /\ offers[o].status \in Fillable
        /\ offers[o].totalCollateral > 0 /\ offers[o].targetPrincipal > 0
        /\ CumulativelyFilled(offers[o])
        /\ fill \in 1..(offers[o].targetPrincipal - offers[o].filledPrincipal)
    BY <1>6 DEF FillOffer, CanFillOffer, CanFill, IInv, TypeOK, RecordsInv, OffersInv, OfferSound,
                FillsAreCumulative, Fillable
  <2>2. PICK offer, new, k : /\ offer = FilledBy(offers[o], fill)
                             /\ new = NewPosition(a, o, fill) /\ k = nextPositionId
    OBVIOUS
  <2>3. /\ k \in PositionIds /\ positions' = [positions EXCEPT ![k] = new]
        /\ offers' = [offers EXCEPT ![o] = offer] /\ nextOfferId' = nextOfferId
    BY <1>1, <1>6, <2>2 DEF FillOffer, CanFillOffer
  <2>4. /\ offer.filledPrincipal = offers[o].filledPrincipal + fill
        /\ offer.allocatedCollateral = offers[o].allocatedCollateral
                                         + FillCollateral(offers[o], fill)
        /\ FillCollateral(offers[o], fill) \in Nat
    <3>1. offer.filledPrincipal = offers[o].filledPrincipal + fill
      BY <2>1, <2>2 DEF FilledBy, Offer
    <3> QED
      BY <2>1, <2>2, <3>1, FilledByCumulative
  <2>5. /\ new.offerId = o /\ new.principalAmount = fill /\ new.status = "ACTIVE"
        /\ new.collateralAmount = FillCollateral(offers[o], fill)
    BY <2>2 DEF NewPosition
  <2>6. positions[k].offerId = 0
    <3>1. positions[k].status = "NONE"
      <4>1. k \in Nat /\ PositionSound(k)
        BY <2>2, <2>3, MarketAssumption DEF IInv, RecordsInv, CloseoutInv
      <4> QED
        BY <2>2, <4>1 DEF PositionSound
    <3> QED
      BY <2>3, <3>1 DEF UnusedRecords
  <2>7. \A p \in PositionIds \ {k} : positions'[p] = positions[p] /\ SameStake(p)
    BY <1>1, <2>3 DEF SameStake
  <2>8. positions'[k] = new
    BY <1>1, <2>3
  <2>9. ASSUME NEW i \in OfferIds
        PROVE  /\ offers'[i].filledPrincipal = StakeIn(Principals, i)'
               /\ offers'[i].allocatedCollateral = StakeIn(Collaterals, i)'
    <3>1. PICK f, g, u, v : /\ f = StakeIn(Principals, i) /\ g = StakeIn(Principals, i)'
                            /\ u = StakeIn(Collaterals, i) /\ v = StakeIn(Collaterals, i)'
      OBVIOUS
    <3>2. /\ g = f + (IF positions'[k].offerId = i THEN positions'[k].principalAmount ELSE 0)
                   - (IF positions[k].offerId = i THEN positions[k].principalAmount ELSE 0)
          /\ v = u + (IF positions'[k].offerId = i THEN positions'[k].collateralAmount ELSE 0)
                   - (IF positions[k].offerId = i THEN positions[k].collateralAmount ELSE 0)
      BY <1>1, <2>3, <2>7, <3>1, StakeChange
    <3>3. /\ g = f + (IF o = i THEN fill ELSE 0)
          /\ v = u + (IF o = i THEN FillCollateral(offers[o], fill) ELSE 0)
          /\ f = offers[i].filledPrincipal /\ u = offers[i].allocatedCollateral
      <4>1. /\ f = offers[i].filledPrincipal /\ u = offers[i].allocatedCollateral
            /\ f \in Nat /\ u \in Nat
        BY <1>1, <1>2, <3>1 DEF Offer
      <4> QED
        BY <1>4, <2>1, <2>4, <2>5, <2>6, <2>8, <3>2, <4>1
    <3>4. offers'[i] = IF o = i THEN offer ELSE offers[i]
      BY <1>1, <2>3
    <3>5. /\ offers'[i].filledPrincipal = g /\ offers'[i].allocatedCollateral = v
      <4>1. offers[i].filledPrincipal \in Nat /\ offers[i].allocatedCollateral \in Nat
        BY <1>1 DEF Offer
      <4> QED
        BY <2>4, <3>3, <3>4, <4>1
    <3> QED
      BY <3>1, <3>5
  <2>10. UnusedRecords'
    <3>1. ~(o >= nextOfferId)
      BY <2>1 DEF UnusedRecords, Fillable
    <3>2. \A i \in OfferIds : i # o => offers'[i] = offers[i]
      BY <1>1, <2>3
    <3> QED
      BY <2>3, <2>5, <2>7, <2>8, <3>1, <3>2 DEF UnusedRecords
  <2> QED
    BY <1>3, <2>9, <2>10
<1>7. ASSUME nextOfferId' = nextOfferId, \A o \in OfferIds : SameFills(o),
             \A p \in PositionIds : SameStake(p)
      PROVE  PositionsAddUp' /\ UnusedRecords'
  <2>1. PositionsAddUp'
    BY <1>1, <1>2, <1>3, <1>7, StakeKept DEF SameFills
  <2>2. UnusedRecords'
    BY <1>7 DEF UnusedRecords, SameFills, SameStake
  <2> QED
    BY <2>1, <2>2
<1> QED
    BY <1>5, <1>6, <1>7, AccountSteps
\* Nothing is owed before the first deposit, claim or fill.
LEMMA BooksOpen ==
    ASSUME Init
    PROVE  BookBacked(book) /\ VaultBooks /\ PositionsAddUp /\ UnusedRecords
<1>1. VaultBooks
    BY EmptyVault DEF Init
<1>2. BookBacked(book)
  <2>1. PICK f, u : f = book.claimable /\ u = book.claims
    OBVIOUS
  <2>2. /\ f = [a \in Account |-> 0] /\ u = <<>>
        /\ book.totalClaims = 0 /\ book.escrowCash = 0
    BY <2>1 DEF Init, EscrowInit
  <2>3. DOMAIN f = Account /\ \A a \in Account : f[a] = 0
    BY <2>2
  <2>4. SumFunctionOnSet(f, Account) = 0
    BY <2>3, AccountAssumption, SumZeros
  <2>5. ASSUME NEW a \in Account PROVE SumFunction(UnpaidOf(book, a)) = 0
    <3>1. DOMAIN UnpaidOf(book, a) = {}
      BY <2>1, <2>2 DEF UnpaidOf
    <3> QED
      BY <3>1, SumEmpty DEF SumFunction
  <2> QED
    BY <2>1, <2>2, <2>3, <2>4, <2>5 DEF BookBacked, TalliesMatch, SumFunction
<1>3. UnusedRecords
    BY DEF Init, UnusedRecords, NoOffer, NoPosition
<1>4. PositionsAddUp
  <2> SUFFICES ASSUME NEW o \in OfferIds
               PROVE  /\ offers[o].filledPrincipal = StakeIn(Principals, o)
                      /\ offers[o].allocatedCollateral = StakeIn(Collaterals, o)
    BY DEF PositionsAddUp, StakeIn, Principals, Collaterals
  <2>1. PositionsOf(o) = {}
    BY MarketAssumption DEF PositionsOf, Init, NoPosition
  <2> QED
    BY <2>1, SumEmpty DEF StakeIn, Init, NoOffer
<1> QED
    BY <1>1, <1>2, <1>3, <1>4

(***************************************************************************)
(* What the books of the market need to be inductive: every claim is part  *)
(* of the beneficiary's total, and records not handed out yet are unused.  *)
(***************************************************************************)
MarketBooks == BookBacked(book) /\ VaultBooks /\ PositionsAddUp /\ UnusedRecords

LEMMA BooksKept == Spec => []MarketBooks
<1>1. Init => MarketBooks
    BY BooksOpen DEF MarketBooks
<1>2. IInv /\ IInv' /\ MarketBooks /\ [Next]_vars => MarketBooks'
  <2> SUFFICES ASSUME IInv, IInv', MarketBooks, [Next]_vars PROVE MarketBooks'
    OBVIOUS
  <2>1. BookBacked(book) /\ VaultBooks /\ PositionsAddUp /\ UnusedRecords
    BY DEF MarketBooks
  <2>2. BookBacked(book')
    BY <2>1, BookStep
  <2>3. VaultBooks'
    BY <2>1, VaultBooksStep
  <2>4. PositionsAddUp' /\ UnusedRecords'
    BY <2>1, AccountsStep
  <2> QED
    BY <2>2, <2>3, <2>4 DEF MarketBooks
<1> QED
    BY <1>1, <1>2, Invariance, PTL DEF Spec

(***************************************************************************)
(* The market's books balance after any history of fills, repayments,      *)
(* sales, claims and exits: every offer's fills add up to what its         *)
(* positions received, the escrow holds every unpaid claim, and the vault  *)
(* every bucket it records.                                                *)
(***************************************************************************)
THEOREM MarketBooksBalance == Spec => []BooksBalance
<1>1. IInv /\ MarketBooks => BooksBalance
  <2> SUFFICES ASSUME IInv, MarketBooks PROVE BooksBalance
    OBVIOUS
  <2>1. \A a \in Account : RemainingOf(a) = UnpaidOf(book, a)
    BY DEF RemainingOf, UnpaidOf
  <2>2. EscrowBacked
    BY <2>1 DEF EscrowBacked, MarketBooks, BookBacked, TalliesMatch
  <2> QED
    BY <2>2 DEF BooksBalance, MarketBooks, IInv, VaultBooks
<1> QED
    BY <1>1, BooksKept, Invariance, PTL

-----------------------------------------------------------------------------
(* Liquidation.                                                             *)

\* A position in auction is liquidated by the sale of its own auction.
LEMMA LiquidatedBy ==
    ASSUME IInv, [Next]_vars, NEW p \in PositionIds,
           positions[p].status = "AUCTION", positions'[p].status = "LIQUIDATED"
    PROVE  \E a \in Account, x \in AuctionIds, limit \in Limits : BuyAuction(a, x, limit)
<1>1. positions \in [PositionIds -> Position] /\ positions' # positions
    BY DEF IInv, TypeOK
<1>2. /\ ~Tick /\ ~UNCHANGED vars /\ ~InvalidateValuation /\ ~ChangeCompliance /\ ~GovernRisk
      /\ ~Administer
    BY <1>1 DEF Tick, vars, InvalidateValuation, ChangeCompliance, GovernRisk, Administer,
                marketVars, recordVars
<1>3. ASSUME NEW a, NEW n PROVE ~DepositCollateral(a, n)
    BY <1>1 DEF DepositCollateral, CanDepositCollateral, marketVars, recordVars
<1>4. ASSUME NEW a, NEW n, NEW b PROVE ~WithdrawCollateral(a, n, b)
    BY <1>1 DEF WithdrawCollateral, CanWithdrawCollateral, marketVars, recordVars
<1>5. ASSUME NEW a, NEW q PROVE ~CreateOffer(a, q)
    BY <1>1 DEF CreateOffer, CanCreateOffer
<1>6. ASSUME NEW a, NEW o, NEW fill, NEW limit PROVE ~FillOffer(a, o, fill, limit)
    BY <1>1 DEF FillOffer, CanFillOffer, NewPosition
<1>7. ASSUME NEW o, NEW status PROVE ~CloseOffer(o, status)
    BY <1>1 DEF CloseOffer, CanCloseOffer
<1>8. ASSUME NEW q \in PositionIds, NEW status, status # "LIQUIDATED"
      PROVE  positions' # [positions EXCEPT ![q].status = status]
  <2> DEFINE new == [positions[q] EXCEPT !.status = status]
  <2>1. [positions EXCEPT ![q].status = status] = [positions EXCEPT ![q] = new]
    BY <1>1
  <2>2. new.status = status
    BY <1>1 DEF Position
  <2> HIDE DEF new
  <2> QED
    BY <1>1, <1>8, <2>1, <2>2
<1>9. ASSUME NEW a, NEW q \in PositionIds, NEW limit, NEW useEscrow
      PROVE  ~Repurchase(a, q, limit, useEscrow)
    BY <1>8 DEF Repurchase, CanRepurchase
<1>10. ASSUME NEW q \in PositionIds, StartAuction(q) PROVE FALSE
  <2> DEFINE new == [positions[q] EXCEPT !.status = "AUCTION", !.auctionId = nextAuctionId,
                                         !.frozenDebt = Payoff(positions[q], now)]
  <2>1. positions' = [positions EXCEPT ![q] = new]
    BY <1>1, <1>10 DEF StartAuction, CanStartAuction
  <2>2. new.status = "AUCTION"
    BY <1>1 DEF Position
  <2> HIDE DEF new
  <2> QED
    BY <1>1, <2>1, <2>2
<1>11. ASSUME NEW x PROVE ~FinalizeFailedAuction(x)
    BY <1>8 DEF FinalizeFailedAuction
<1>12. ASSUME NEW a, NEW b, NEW q \in PositionIds
       PROVE  ~ClaimDefaultCollateral(a, q, b) /\ ~ClaimCollateralOnOracleFailure(a, q, b)
    BY <1>8 DEF ClaimDefaultCollateral, ClaimCollateralOnOracleFailure,
                CanClaimCollateralOnOracleFailure
<1>13. ASSUME NEW a, NEW c, NEW n, NEW b PROVE ~EscrowClaim(a, c, n, b)
    BY <1>1 DEF EscrowClaim, marketVars, recordVars
<1>14. ASSUME NEW price, NEW observedAt, NEW v, NEW t
       PROVE  ~SubmitValuation(price, observedAt, v, t)
    BY <1>1 DEF SubmitValuation, marketVars, recordVars
<1> QED
    BY <1>2, <1>3, <1>4, <1>5, <1>6, <1>7, <1>9, <1>10, <1>11, <1>12, <1>13, <1>14
       DEF Next, CancelOffer, CanCancelOffer, FinalizeOfferExpiry

\* The seller of collateral sees a surplus only once the lender is whole.
LEMMA SeniorityOfShares ==
    ASSUME NEW position \in Position, NEW price \in Nat
    PROVE  /\ LenderShare(position, price) = Min2(price, position.frozenDebt)
           /\ FeeShare(position, price) > 0 \/ SellerShare(position, price) > 0
                 => LenderShare(position, price) >= position.frozenDebt
<1>1. position.frozenDebt \in Nat
    BY DEF Position
<1>2. LenderShare(position, price) < price => LenderShare(position, price) = position.frozenDebt
    BY <1>1 DEF LenderShare, Min2
<1>3. /\ LenderShare(position, price) \in Nat /\ FeeShare(position, price) \in Nat
      /\ SellerShare(position, price) \in Nat
      /\ LenderShare(position, price) + FeeShare(position, price)
           + SellerShare(position, price) = price
    BY SharesType
<1> QED
    BY <1>1, <1>2, <1>3 DEF LenderShare

\* What a sale adds to the claims adds up to its price.
LEMMA GainsAddUp ==
    ASSUME NEW b \in Book, NEW d \in Book, TalliesMatch(b), TalliesMatch(d)
    PROVE  SumFunction([a \in Account |-> d.claimable[a] - b.claimable[a]])
             = d.totalClaims - b.totalClaims
<1>1. PICK f, g, h : /\ f = d.claimable /\ g = b.claimable
                     /\ h = [a \in Account |-> d.claimable[a] - b.claimable[a]]
    OBVIOUS
<1>2. f \in [Account -> Nat] /\ g \in [Account -> Nat] /\ DOMAIN h = Account
    BY <1>1 DEF Book
<1>3. \A a \in Account : f[a] \in Int /\ g[a] \in Int /\ h[a] = f[a] - g[a]
    BY <1>1, <1>2
<1>4. SumFunctionOnSet(h, Account) = SumFunctionOnSet(f, Account) - SumFunctionOnSet(g, Account)
    BY <1>3, AccountAssumption, SumMinus
<1>5. /\ d.totalClaims = SumFunctionOnSet(f, Account)
      /\ b.totalClaims = SumFunctionOnSet(g, Account)
    BY <1>1, <1>2 DEF TalliesMatch, SumFunction
<1> QED
    BY <1>1, <1>2, <1>4, <1>5 DEF SumFunction

(***************************************************************************)
(* Every sale at auction shares its whole price in the order of seniority: *)
(* the fee and the seller see nothing before the frozen debt is covered.   *)
(***************************************************************************)
THEOREM SaleSharesBySeniority == Spec => LenderIsSenior
<1>1. ASSUME IInv, BookBacked(book), [Next]_vars, NEW p \in PositionIds,
             positions[p].status = "AUCTION", positions'[p].status = "LIQUIDATED"
      PROVE  SharedBySeniority(p)
  <2>1. PICK a \in Account, x \in AuctionIds, limit \in Limits : BuyAuction(a, x, limit)
    BY <1>1, LiquidatedBy
  <2>2. PICK q \in PositionIds, b \in Book, price \in Nat :
              /\ InAuction(x, q)
              /\ positions' = [positions EXCEPT ![q].status = "LIQUIDATED"]
              /\ price \in auctions[x].floorPrice..auctions[x].startPrice
              /\ auctions[x].floorPrice > 0
              /\ auctions' = [auctions EXCEPT ![x].status = "SOLD", ![x].buyer = a,
                                              ![x].salePrice = price]
              /\ BookBacked(b) /\ CanRecordClaims(b, price)
              /\ b.escrowCash = book.escrowCash + price /\ b.totalClaims = book.totalClaims
              /\ b.claimable = book.claimable
              /\ book' = Settled(b, positions[q], price)
              /\ positions[q] \in Position /\ positions[q].seller \in Account
              /\ positions[q].buyer \in Account \ {positions[q].seller}
              /\ feeTreasury \in Account
    BY <1>1, <2>1, SaleSettles
  <2>3. q = p
    BY <1>1, <2>2 DEF IInv, TypeOK
  <2>4. book \in Book /\ book.escrowCash \in Nat /\ auctions \in [AuctionIds -> Auction]
    BY <1>1 DEF IInv, TypeOK, EscrowTypeOK, AuctionTypeOK, Book
  <2>5. PICK position : position = positions[p]
    OBVIOUS
  <2>6. /\ position \in Position /\ position.auctionId = x
        /\ position.buyer \in Account /\ position.seller \in Account
    BY <2>2, <2>3, <2>5 DEF InAuction
  <2>7. PICK lender, fee, rest : /\ lender = LenderShare(position, price)
                                 /\ fee = FeeShare(position, price)
                                 /\ rest = SellerShare(position, price)
    OBVIOUS
  <2>8. /\ lender \in Nat /\ fee \in Nat /\ rest \in Nat
        /\ lender = Min2(price, position.frozenDebt)
        /\ fee > 0 \/ rest > 0 => lender >= position.frozenDebt
    BY <2>6, <2>7, SharesType, SeniorityOfShares
  <2>9. /\ book' \in Book /\ BookBacked(book') /\ book'.escrowCash = b.escrowCash
        /\ book'.totalClaims = b.totalClaims + price
        /\ \A c \in Account :
              book'.claimable[c] = b.claimable[c] + (IF c = position.buyer THEN lender ELSE 0)
                                                  + (IF c = feeTreasury THEN fee ELSE 0)
                                                  + (IF c = position.seller THEN rest ELSE 0)
    <3>1. BookBacked(b) /\ CanRecordClaims(b, price) /\ feeTreasury \in Account
      BY <2>2
    <3>2. book' = Settled(b, position, price)
      BY <2>2, <2>3, <2>5
    <3> QED
      BY <2>6, <2>7, <3>1, <3>2, SettledBook
  <2>10. PICK gain : gain = [c \in Account |-> book'.claimable[c] - book.claimable[c]]
    OBVIOUS
  <2>11. SumFunction(gain) = price
    <3>1. TalliesMatch(book) /\ TalliesMatch(book')
      BY <1>1, <2>9 DEF BookBacked
    <3>2. SumFunction(gain) = book'.totalClaims - book.totalClaims
      BY <2>4, <2>9, <2>10, <3>1, GainsAddUp
    <3> QED
      BY <2>2, <2>4, <2>9, <3>2 DEF Book
  <2>12. \A c \in Account : gain[c] = (IF c = position.buyer THEN lender ELSE 0)
                                     + (IF c = feeTreasury THEN fee ELSE 0)
                                     + (IF c = position.seller THEN rest ELSE 0)
    <3> SUFFICES ASSUME NEW c \in Account
                 PROVE  gain[c] = (IF c = position.buyer THEN lender ELSE 0)
                                     + (IF c = feeTreasury THEN fee ELSE 0)
                                     + (IF c = position.seller THEN rest ELSE 0)
      OBVIOUS
    <3>1. gain[c] = book'.claimable[c] - book.claimable[c] /\ book.claimable[c] \in Nat
      BY <2>4, <2>10 DEF Book
    <3>2. book'.claimable[c] = book.claimable[c] + (IF c = position.buyer THEN lender ELSE 0)
                                                  + (IF c = feeTreasury THEN fee ELSE 0)
                                                  + (IF c = position.seller THEN rest ELSE 0)
      BY <2>2, <2>9
    <3> QED
      BY <2>8, <3>1, <3>2
  <2>13. /\ gain[position.buyer] >= lender
         /\ (\E c \in Account \ {position.buyer} : gain[c] > 0) => fee > 0 \/ rest > 0
    BY <2>6, <2>8, <2>12
  <2>14. PICK sale : sale = auctions'[x]
    OBVIOUS
  <2>15. /\ sale.salePrice = price /\ price > 0
         /\ price \in sale.floorPrice..sale.startPrice
    BY <2>2, <2>4, <2>14 DEF Auction
  <2>16. book'.escrowCash - book.escrowCash = price
    BY <2>2, <2>4, <2>9
  <2>17. /\ gain[position.buyer] >= Min2(price, position.frozenDebt)
         /\ (\E c \in Account \ {position.buyer} : gain[c] > 0)
               => gain[position.buyer] >= position.frozenDebt
    <3>1. gain[position.buyer] \in Int /\ position.frozenDebt \in Nat
      BY <2>6, <2>8, <2>12 DEF Position
    <3>2. /\ gain[position.buyer] >= lender /\ lender = Min2(price, position.frozenDebt)
      BY <2>8, <2>13
    <3>3. ASSUME \E c \in Account \ {position.buyer} : gain[c] > 0
          PROVE  gain[position.buyer] >= position.frozenDebt
      <4>1. lender >= position.frozenDebt
        BY <2>8, <2>13, <3>3
      <4> QED
        BY <2>8, <3>1, <3>2, <4>1
    <3> QED
      BY <3>2, <3>3
  <2>18. position.auctionId = x /\ sale = auctions'[positions[p].auctionId]
    BY <2>5, <2>6, <2>14
  <2> QED
    BY <2>5, <2>10, <2>11, <2>15, <2>16, <2>17, <2>18 DEF SharedBySeniority
<1>2. IInv /\ BookBacked(book) /\ [Next]_vars
        => [\A p \in PositionIds :
               positions[p].status = "AUCTION" /\ positions'[p].status = "LIQUIDATED"
               => SharedBySeniority(p)]_vars
    BY <1>1
<1>3. Init => BookBacked(book)
    BY BooksOpen
<1>4. IInv /\ BookBacked(book) /\ [Next]_vars => BookBacked(book')
    BY BookStep
<1>5. BookBacked(book') <=> BookBacked(book)'
    BY DEF BookBacked, TalliesMatch, UnpaidOf
<1> QED
    BY <1>2, <1>3, <1>4, <1>5, Invariance, PTL DEF Spec, LenderIsSenior

-----------------------------------------------------------------------------
(* What the API quotes from its rows.                                       *)

\* A fill quoted from remainders is the contract's, computed from totals.
LEMMA FillQuotedAsFilled ==
    ASSUME IInv, NEW o \in OfferIds, offers[o].status \in Fillable,
           NEW fill \in 1..OfferRow(o).remainingPrincipal
    PROVE  /\ FillCollateralQuoted(OfferRow(o), fill) = FillCollateral(offers[o], fill)
           /\ FillFeeQuoted(OfferRow(o), fill, ProtocolFeeBps) = FillFee(offers[o], fill)
<1>0. PICK row : row = OfferRow(o)
    OBVIOUS
<1>1. PICK offer \in Offer : offer = offers[o]
    BY DEF IInv, TypeOK
<1>2. /\ row.totalCollateral = offer.totalCollateral
      /\ row.remainingCollateral = offer.totalCollateral - offer.allocatedCollateral
      /\ row.targetPrincipal = offer.targetPrincipal
      /\ row.remainingPrincipal = offer.targetPrincipal - offer.filledPrincipal
      /\ row.cumulativeFee = offer.feeCharged
    BY <1>0, <1>1 DEF OfferRow
<1>3. /\ offer.totalCollateral \in Nat /\ offer.targetPrincipal \in Nat \ {0}
      /\ offer.filledPrincipal \in Nat /\ offer.allocatedCollateral \in Nat
      /\ offer.feeCharged \in Nat
    BY <1>1 DEF IInv, RecordsInv, OffersInv, OfferSound, Fillable, Offer
<1>4. /\ fill \in Nat
      /\ FilledAfter(row, fill) = offer.filledPrincipal + fill
      /\ row.totalCollateral - row.remainingCollateral = offer.allocatedCollateral
    BY <1>0, <1>2, <1>3 DEF FilledAfter
<1>5. PICK filled \in Nat : filled = offer.filledPrincipal + fill
    BY <1>3, <1>4
<1>6. fill = row.remainingPrincipal => filled = offer.targetPrincipal
    BY <1>2, <1>3, <1>5
<1>7. MulDiv(offer.totalCollateral, offer.targetPrincipal, offer.targetPrincipal)
         = offer.totalCollateral
    BY <1>3, MulDivWhole
<1>8. FillCollateralQuoted(row, fill) = FillCollateral(offer, fill)
    BY <1>2, <1>4, <1>5, <1>6, <1>7 DEF FillCollateralQuoted, FillCollateral, AllocatedCollateral
<1>9. CeilDiv(filled * ProtocolFeeBps, BPS_DENOMINATOR) = CumulativeFee(filled, ProtocolFeeBps)
    BY CeilDivIsMulDivCeil, MarketAssumption, ScalesAssumption DEF CumulativeFee
<1>10. FillFeeQuoted(row, fill, ProtocolFeeBps) = FillFee(offer, fill)
    BY <1>2, <1>4, <1>5, <1>9 DEF FillFeeQuoted, FillFee
<1> QED
    BY <1>0, <1>1, <1>8, <1>10

\* Rounding the hold down never takes it past the contract's.
LEMMA RoundedDownIsLess ==
    ASSUME NEW a \in Nat, NEW b \in Nat, NEW c \in Nat \ {0}
    PROVE  MulDiv(a, b, c) <= MulDivCeil(a, b, c)
<1>1. PICK m \in Nat : m = a * b
    OBVIOUS
<1>2. m + c - 1 \in Nat /\ m <= m + c - 1
    OBVIOUS
<1>3. m \div c <= (m + c - 1) \div c
    BY <1>2, DivMonotone
<1> QED
    BY <1>1, <1>3 DEF MulDiv, MulDivCeil

\* A payoff quoted from a position's row is exact from maturity on, and never too large before.
LEMMA PayoffQuotedBelow ==
    ASSUME IInv, NEW p \in PositionIds, PayoffDefined(positions[p], now)
    PROVE  /\ PayoffQuoted(PositionRow(p), now) <= Payoff(positions[p], now)
           /\ now >= positions[p].maturity
              => PayoffQuoted(PositionRow(p), now) = Payoff(positions[p], now)
<1>0. PICK row : row = PositionRow(p)
    OBVIOUS
<1>1. PICK position \in Position, t \in Nat : position = positions[p] /\ t = now
    BY DEF IInv, TypeOK
<1>2. /\ position.principalAmount \in Nat /\ position.acceptedAt \in Nat
      /\ position.maturity \in Nat /\ position.terms \in Terms
      /\ PayoffDefined(position, t)
    BY <1>1 DEF Position
<1>3. /\ position.terms.annualRateBps \in Nat /\ position.terms.defaultAnnualRateBps \in Nat
      /\ position.terms.duration \in Nat /\ position.terms.earlyMinHoldBps \in Nat
      /\ position.terms.earlyBreakFeeBps \in Nat
    BY <1>2 DEF Terms
<1>4. /\ row.principal = position.principalAmount /\ row.acceptedAt = position.acceptedAt
      /\ row.maturityAt = position.maturity
      /\ row.annualRateBps = position.terms.annualRateBps
      /\ row.defaultRateBps = position.terms.defaultAnnualRateBps
      /\ row.minimumHoldSeconds = MulDiv(position.terms.duration, position.terms.earlyMinHoldBps,
                                         BPS_DENOMINATOR)
      /\ row.breakFeeBps = position.terms.earlyBreakFeeBps
    BY <1>0, <1>1 DEF PositionRow
<1>5. /\ position.maturity - position.acceptedAt = position.terms.duration
      /\ position.acceptedAt <= t
  <2>1. positions[p].status = "ACTIVE" /\ PositionSound(p)
    BY DEF PayoffDefined, IInv, RecordsInv, CloseoutInv
  <2>2. /\ position.acceptedAt <= t
        /\ position.acceptedAt + position.terms.duration = position.maturity
    BY <1>1, <2>1 DEF PositionSound
  <2> QED
    BY <1>2, <1>3, <2>2
<1>6. FullTermQuoted(row) = ScheduledInterest(position) /\ ScheduledInterest(position) \in Nat
  <2>1. PICK principal \in Nat, rate \in Nat, duration \in Nat :
          /\ principal = position.principalAmount /\ rate = position.terms.annualRateBps
          /\ duration = position.terms.duration
    BY <1>2, <1>3
  <2>2. FullTermQuoted(row) = AccruedQuoted(principal, rate, duration)
    BY <1>4, <1>5, <2>1 DEF FullTermQuoted
  <2>3. ScheduledInterest(position) = Interest(principal, rate, duration)
    BY <2>1 DEF ScheduledInterest
  <2> QED
    BY <2>2, <2>3, AccruedIsInterest, InterestType
<1>7. ASSUME t < position.maturity
      PROVE  /\ EarlyInterestQuoted(row, t) <= EarlyInterest(position, t)
             /\ EarlyInterestQuoted(row, t) \in Int /\ EarlyInterest(position, t) \in Int
  <2>0. PICK principal \in Nat, rate \in Nat, duration \in Nat, holdBps \in Nat, feeBps \in Nat :
          /\ principal = position.principalAmount /\ rate = position.terms.annualRateBps
          /\ duration = position.terms.duration /\ holdBps = position.terms.earlyMinHoldBps
          /\ feeBps = position.terms.earlyBreakFeeBps
    BY <1>2, <1>3
  <2>1. PICK hold \in Nat, elapsed \in Nat, breakFee \in Nat :
          /\ hold = MulDivCeil(duration, holdBps, BPS_DENOMINATOR)
          /\ elapsed = t - position.acceptedAt
          /\ breakFee = MulDivCeil(principal, feeBps, BPS_DENOMINATOR)
    <3>1. t - position.acceptedAt \in Nat
      BY <1>2, <1>5
    <3>2. /\ MulDivCeil(duration, holdBps, BPS_DENOMINATOR) \in Nat
          /\ MulDivCeil(principal, feeBps, BPS_DENOMINATOR) \in Nat
      BY MulDivType, ScalesAssumption
    <3> QED
      BY <3>1, <3>2
  <2>2. row.minimumHoldSeconds \in Nat /\ row.minimumHoldSeconds <= hold
    <3>1. row.minimumHoldSeconds = MulDiv(duration, holdBps, BPS_DENOMINATOR)
      BY <1>4, <2>0
    <3>2. /\ MulDiv(duration, holdBps, BPS_DENOMINATOR) \in Nat
          /\ MulDiv(duration, holdBps, BPS_DENOMINATOR)
                <= MulDivCeil(duration, holdBps, BPS_DENOMINATOR)
      BY MulDivType, RoundedDownIsLess, ScalesAssumption
    <3> QED
      BY <2>1, <3>1, <3>2
  <2>3. PICK short \in Nat, long \in Nat :
          /\ short = Max2(elapsed, row.minimumHoldSeconds)
          /\ long = Max2(elapsed, hold)
    BY <2>1, <2>2 DEF Max2
  <2>4. short <= long
    BY <2>2, <2>3 DEF Max2
  <2>5. PICK owed \in Nat, quoted \in Nat :
          /\ owed = Interest(principal, rate, long)
          /\ quoted = AccruedQuoted(principal, rate, short)
          /\ quoted <= owed
    <3>1. /\ AccruedQuoted(principal, rate, short) = Interest(principal, rate, short)
          /\ Interest(principal, rate, short) \in Nat /\ Interest(principal, rate, long) \in Nat
      BY AccruedIsInterest, InterestType
    <3>2. Interest(principal, rate, short) <= Interest(principal, rate, long)
      BY <2>4, InterestMonotone
    <3> QED
      BY <3>1, <3>2
  <2>6. BreakFeeQuoted(row) = breakFee
    <3>1. BreakFeeQuoted(row) = CeilDiv(principal * feeBps, BPS_DENOMINATOR)
      BY <1>4, <2>0 DEF BreakFeeQuoted
    <3> QED
      BY <2>1, <3>1, CeilDivIsMulDivCeil, ScalesAssumption
  <2>7. Max2(t - row.acceptedAt, 0) = elapsed
    BY <1>4, <2>1 DEF Max2
  <2>8. EarlyInterestQuoted(row, t) = Min2(quoted + breakFee, ScheduledInterest(position))
    BY <1>4, <1>6, <2>0, <2>3, <2>5, <2>6, <2>7 DEF EarlyInterestQuoted
  <2>9. EarlyInterest(position, t) = Min2(ScheduledInterest(position), owed + breakFee)
    BY <2>0, <2>1, <2>3, <2>5 DEF EarlyInterest
  <2> QED
    BY <1>6, <2>5, <2>8, <2>9 DEF Min2
<1>8. ASSUME t >= position.maturity
      PROVE  /\ FullTermQuoted(row) + DefaultInterestQuoted(row, t) = LateInterest(position, t)
             /\ LateInterest(position, t) \in Int /\ DefaultInterestQuoted(row, t) \in Int
  <2>1. PICK overdue \in Nat : overdue = t - position.maturity
    BY <1>2, <1>8
  <2>2. PICK charged \in Nat :
          charged = Interest(position.principalAmount, position.terms.defaultAnnualRateBps, overdue)
    BY <1>2, <1>3, InterestType
  <2>3. DefaultInterestQuoted(row, t) = charged
    <3>1. CASE t > position.maturity
      BY <1>2, <1>3, <1>4, <2>1, <2>2, <3>1, AccruedIsInterest DEF DefaultInterestQuoted
    <3>2. CASE ~(t > position.maturity)
      BY <1>2, <1>4, <1>8, <2>1, <2>2, <3>2 DEF DefaultInterestQuoted, Interest
    <3> QED
      BY <3>1, <3>2
  <2>4. LateInterest(position, t) = ScheduledInterest(position) + charged
    BY <2>1, <2>2 DEF LateInterest
  <2> QED
    BY <1>6, <2>3, <2>4
<1>9. CASE t < position.maturity
  <2>1. DefaultInterestQuoted(row, t) = 0
    BY <1>2, <1>4, <1>9 DEF DefaultInterestQuoted
  <2>2. /\ PayoffQuoted(row, t) = position.principalAmount + EarlyInterestQuoted(row, t)
        /\ Payoff(position, t) = position.principalAmount + EarlyInterest(position, t)
    BY <1>2, <1>4, <1>7, <1>9, <2>1 DEF PayoffQuoted, Payoff
  <2>3. PayoffQuoted(row, t) <= Payoff(position, t) /\ ~(t >= position.maturity)
    BY <1>2, <1>7, <1>9, <2>2
  <2> QED
    BY <1>0, <1>1, <2>3
<1>10. CASE t >= position.maturity
  <2>1. /\ PayoffQuoted(row, t) = position.principalAmount + LateInterest(position, t)
        /\ Payoff(position, t) = position.principalAmount + LateInterest(position, t)
    BY <1>2, <1>4, <1>6, <1>8, <1>10 DEF PayoffQuoted, Payoff
  <2>2. PayoffQuoted(row, t) = Payoff(position, t) /\ Payoff(position, t) \in Int
    BY <1>2, <1>8, <1>10, <2>1
  <2> QED
    BY <1>0, <1>1, <1>10, <2>2
<1> QED
    BY <1>2, <1>9, <1>10

\* The price shown of a live auction is the auction house's.
LEMMA PriceQuotedAsAsked ==
    ASSUME IInv, NEW x \in AuctionIds, auctions[x].status = "LIVE"
    PROVE  LET row == AuctionRow(x)
           IN  AuctionPriceQuoted(row.startPrice, row.floorPrice, row.startsAt, row.endsAt, now)
                  = PriceAt(auctions[x], now)
<1>0. PICK row : row = AuctionRow(x)
    OBVIOUS
<1>1. PICK auction \in Auction, t \in Nat : auction = auctions[x] /\ t = now
    BY DEF IInv, TypeOK, AuctionTypeOK
<1>2. /\ row.startsAt = auction.startedAt /\ row.endsAt = auction.endsAt
      /\ row.startPrice = auction.startPrice /\ row.floorPrice = auction.floorPrice
    BY <1>0, <1>1 DEF AuctionRow
<1>3. auction.startedAt <= t /\ auction.startedAt < auction.endsAt
    BY <1>1 DEF IInv, RecordsInv, CloseoutInv, AuctionsSound, AuctionSound
<1>4. /\ auction.startedAt \in Nat /\ auction.endsAt \in Nat
      /\ auction.startPrice \in Nat /\ auction.floorPrice \in Nat
    BY DEF Auction
<1>5. ASSUME t = auction.startedAt PROVE PriceAt(auction, t) = auction.startPrice
  <2>1. PICK range \in Int, length \in Nat \ {0} :
          /\ range = auction.startPrice - auction.floorPrice
          /\ length = auction.endsAt - auction.startedAt
    BY <1>3, <1>4
  <2>2. MulDiv(range, 0, length) = 0
    BY DEF MulDiv
  <2> QED
    BY <1>3, <1>4, <1>5, <2>1, <2>2 DEF PriceAt
<1>6. AuctionPriceQuoted(row.startPrice, row.floorPrice, row.startsAt, row.endsAt, t)
         = PriceAt(auction, t)
    BY <1>2, <1>3, <1>4, <1>5 DEF AuctionPriceQuoted, PriceAt
<1> QED
    BY <1>0, <1>1, <1>6

\* The waterfall shown of a price is the settlement of a sale at that price.
LEMMA WaterfallIsSettlement ==
    ASSUME NEW position \in Position, NEW price \in Nat
    PROVE  Waterfall(price, position.frozenDebt, position.closeout.liquidationFeeBps) =
              [lenderProceeds |-> LenderShare(position, price),
               liquidationFee |-> FeeShare(position, price),
               sellerSurplus |-> SellerShare(position, price),
               lenderShortfall |-> position.frozenDebt - LenderShare(position, price)]
<1>1. position.closeout.liquidationFeeBps \in Nat
    BY DEF Position, CloseoutTerms
<1>2. CeilDiv(price * position.closeout.liquidationFeeBps, BPS_DENOMINATOR)
         = MulDivCeil(price, position.closeout.liquidationFeeBps, BPS_DENOMINATOR)
    BY <1>1, CeilDivIsMulDivCeil, ScalesAssumption
<1> QED
    BY <1>2 DEF Waterfall, LenderShare, FeeShare, SellerShare

(***************************************************************************)
(* Whatever fills, repayments and auctions came before, what the API shows *)
(* of the next one is what the contracts will compute; only a payoff       *)
(* before maturity may be shown too small.                                 *)
(***************************************************************************)
THEOREM QuotesAreTheContracts == Spec => []QuotesMatchContract
<1>1. IInv => QuotesMatchContract
  <2> SUFFICES ASSUME IInv PROVE QuotesMatchContract
    OBVIOUS
  <2>1. FillsQuotedExactly
    BY FillQuotedAsFilled DEF FillsQuotedExactly
  <2>2. PayoffsQuoted
    BY PayoffQuotedBelow DEF PayoffsQuoted
  <2>3. ASSUME NEW x \in AuctionIds, auctions[x].status = "LIVE"
        PROVE  /\ positions[positionForAuction[x]] \in Position
               /\ PriceAt(auctions[x], now) \in Nat
    <3>1. positionForAuction[x] \in PositionIds
      BY <2>3 DEF IInv, TypeOK, RecordsInv, CloseoutInv, AuctionAgreement
    <3>2. auctions[x] \in Auction /\ AuctionSound(auctions[x]) /\ now \in Nat
      BY DEF IInv, TypeOK, AuctionTypeOK, RecordsInv, CloseoutInv, AuctionsSound
    <3>3. PriceAt(auctions[x], now) \in Nat
      BY <2>3, <3>2, PriceRange DEF AuctionSound
    <3>4. positions \in [PositionIds -> Position]
      BY DEF IInv, TypeOK
    <3> QED
      BY <3>1, <3>3, <3>4
  <2>4. SalesQuotedExactly
    BY <2>3, PriceQuotedAsAsked, WaterfallIsSettlement DEF SalesQuotedExactly
  <2> QED
    BY <2>1, <2>2, <2>4 DEF QuotesMatchContract
<1> QED
    BY <1>1, Invariance, PTL

-----------------------------------------------------------------------------
(* Nobody's way out is objected to.                                         *)

\* The seller's and the permissionless end of an offer.
LEMMA OfferEndPrepared ==
    ASSUME IInv, NEW o \in OfferIds
    PROVE  /\ \A a : CancelOffer(a, o) => CancelPreflight(offers[o].seller, o).reasons = {}
           /\ FinalizeOfferExpiry(o) => ExpiryPreflight(o).reasons = {}
<1>1. OfferRow(o).seller = offers[o].seller /\ OfferRow(o).status = offers[o].status
      /\ OfferRow(o).offerExpiry = offers[o].offerExpiry
    BY DEF OfferRow
<1>2. ASSUME NEW a, CancelOffer(a, o) PROVE CancelPreflight(offers[o].seller, o).reasons = {}
  <2>1. (OfferRow(o).status \notin Fillable) = FALSE /\ (OfferRow(o).seller # offers[o].seller) = FALSE
    BY <1>1, <1>2 DEF CancelOffer, CanCancelOffer, CloseOffer, CanCloseOffer
  <2>2. Blocking([OFFER_NOT_OPEN |-> FALSE]) = {}
    BY DEF Blocking
  <2> QED
    BY <2>1, <2>2 DEF CancelPreflight, Prepared
<1>3. ASSUME FinalizeOfferExpiry(o) PROVE ExpiryPreflight(o).reasons = {}
  <2>1. PICK t \in Nat, expiry \in Nat : t = now /\ expiry = offers[o].offerExpiry
    BY DEF IInv, TypeOK, Offer
  <2>2. t > expiry /\ offers[o].status \in Fillable
    BY <1>3, <2>1 DEF FinalizeOfferExpiry, CloseOffer, CanCloseOffer
  <2>3. (OfferRow(o).status \notin Fillable \/ now <= OfferRow(o).offerExpiry) = FALSE
    BY <1>1, <2>1, <2>2
  <2>4. Blocking([OFFER_NOT_OPEN |-> FALSE]) = {}
    BY DEF Blocking
  <2> QED
    BY <2>3, <2>4 DEF ExpiryPreflight, Prepared
<1> QED
    BY <1>2, <1>3

\* A repayment, whether the lender is paid or credited in escrow.
LEMMA RepaymentPrepared ==
    ASSUME IInv, ExitsConfigured, NEW p \in PositionIds, NEW a \in Account, NEW limit,
           NEW useEscrow, Repurchase(a, p, limit, useEscrow)
    PROVE  RepayPreflight(positions[p].seller, p, 0, Payoff(positions[p], now)).reasons = {}
<1>0. PICK row : row = PositionRow(p)
    OBVIOUS
<1>1. PICK position \in Position, t \in Nat : position = positions[p] /\ t = now
    BY DEF IInv, TypeOK
<1>2. /\ position.status = "ACTIVE" /\ position.seller = a /\ a \in compliant
      /\ PayoffDefined(position, t) /\ CanPay(book, a, Payoff(position, t))
    BY <1>1 DEF Repurchase, CanRepurchase
<1>3. PICK owed \in Nat : owed = Payoff(position, t)
    BY <1>2, PayoffType
<1>4. /\ row.status = "ACTIVE" /\ row.seller = a /\ row.buyer = position.buyer
      /\ row.maturityAt = position.maturity
      /\ row.earlyRepurchaseEnabled = position.terms.earlyRepurchaseEnabled
    BY <1>0, <1>1, <1>2 DEF PositionRow
<1>5. PayoffEconomicsDefined(row, t)
    BY <1>2, <1>4 DEF PayoffEconomicsDefined, PayoffDefined
<1>6. EvaluateEdges({Edge(Settlement, a, IF PaysIntoEscrow(row) THEN Escrow ELSE row.buyer)}) = {}
  <2>1. PICK payee : payee = IF PaysIntoEscrow(row) THEN Escrow ELSE row.buyer
    OBVIOUS
  <2>2. PaysIntoEscrow(row) => Passes(payee)
    BY <2>1 DEF Passes, CustodyContracts
  <2>3. ~PaysIntoEscrow(row) => Passes(payee)
    BY <2>1, PassesAdmitted DEF PaysIntoEscrow, Passes
  <2> QED
    BY <1>2, <2>1, <2>2, <2>3, EdgePasses DEF ExitsConfigured, Passes
<1>7. FundsReasons(book.cash[a], owed, owed) = {}
  <2>1. book.cash[a] \in Nat /\ owed <= book.cash[a]
    BY <1>2, <1>3 DEF IInv, TypeOK, EscrowTypeOK, Book, CanPay
  <2> QED
    BY <2>1, FundsSuffice
<1>8. /\ (row.status # "ACTIVE") = FALSE /\ (~MarketSourcesRegistered(CoreModules)) = FALSE
      /\ (~PayoffEconomicsDefined(row, t)) = FALSE /\ (~PayoffDefined(position, t)) = FALSE
      /\ (owed < owed) = FALSE
    BY <1>2, <1>4, <1>5 DEF ExitsConfigured, MarketSourcesRegistered, CoreModules
<1>9. Blocking([POSITION_NOT_ACTIVE |-> FALSE, CONTRACT_NOT_CONFIGURED |-> FALSE,
                EARLY_REPURCHASE_DISABLED |-> FALSE, TRANSACTION_WOULD_REVERT |-> FALSE,
                SLIPPAGE_EXCEEDED |-> FALSE]) = {}
    BY DEF Blocking
<1>10. RepayPreflight(a, p, 0, owed).reasons = {}
    BY <1>0, <1>1, <1>2, <1>3, <1>4, <1>6, <1>7, <1>8, <1>9 DEF RepayPreflight, Prepared
<1> QED
    BY <1>1, <1>2, <1>3, <1>10

\* The start and the failure of an auction, which anybody may call.
LEMMA AuctionStartPrepared ==
    ASSUME IInv, ExitsConfigured, NEW p \in PositionIds, StartAuction(p)
    PROVE  StartAuctionPreflight(p).reasons = {}
<1>0. PICK row : row = PositionRow(p)
    OBVIOUS
<1>1. PICK t \in Nat, deadline \in Nat : t = now /\ deadline = positions[p].repaymentDeadline
    BY DEF IInv, TypeOK, Position
<1>2. /\ row.status = "ACTIVE" /\ row.repaymentDeadline = deadline
      /\ t > deadline /\ PriceIsFresh(row.maxOracleAge)
    BY <1>0, <1>1 DEF PositionRow, StartAuction, CanStartAuction, DefaultOpen
<1>3. /\ (~MarketSourcesRegistered(CoreModules)) = FALSE /\ (row.status # "ACTIVE") = FALSE
      /\ (t <= deadline) = FALSE
      /\ (/\ row.status = "ACTIVE" /\ t > deadline
          /\ MarketSourcesRegistered(CoreModules) /\ ~PriceIsFresh(row.maxOracleAge)) = FALSE
    BY <1>2 DEF ExitsConfigured, MarketSourcesRegistered, CoreModules
<1>4. Blocking([CONTRACT_NOT_CONFIGURED |-> FALSE, POSITION_NOT_ACTIVE |-> FALSE,
                NOT_AT_MATURITY |-> FALSE, ORACLE_STALE |-> FALSE]) = {}
    BY DEF Blocking
<1> QED
    BY <1>0, <1>1, <1>2, <1>3, <1>4 DEF StartAuctionPreflight, Prepared

LEMMA FailurePrepared ==
    ASSUME IInv, ExitsConfigured, NEW x \in AuctionIds, FinalizeFailedAuction(x)
    PROVE  FinalizePreflight(x).reasons = {}
<1>1. PICK t \in Nat, end \in Nat : t = now /\ end = auctions[x].endsAt
    BY DEF IInv, TypeOK, AuctionTypeOK, Auction
<1>2. AuctionRow(x).open /\ AuctionRow(x).endsAt = end /\ t > end
    BY <1>1 DEF AuctionRow, FinalizeFailedAuction, MarkFailed
<1>3. /\ (~MarketSourcesRegistered(CoreModules)) = FALSE
      /\ (~AuctionRow(x).open \/ now <= AuctionRow(x).endsAt) = FALSE
    BY <1>1, <1>2 DEF ExitsConfigured, MarketSourcesRegistered, CoreModules
<1>4. Blocking([CONTRACT_NOT_CONFIGURED |-> FALSE, AUCTION_NOT_OPEN |-> FALSE]) = {}
    BY DEF Blocking
<1> QED
    BY <1>3, <1>4 DEF FinalizePreflight, Prepared

\* A purchase at auction.
LEMMA SalePrepared ==
    ASSUME IInv, ExitsConfigured, NEW a \in Account, NEW x \in AuctionIds, NEW limit,
           BuyAuction(a, x, limit)
    PROVE  BuyAuctionPreflight(auctions'[x].buyer, x, 0, auctions'[x].salePrice).reasons = {}
<1>0. PICK row : row = AuctionRow(x)
    OBVIOUS
<1>1. PICK auction \in Auction, t \in Nat : auction = auctions[x] /\ t = now
    BY DEF IInv, TypeOK, AuctionTypeOK
<1>2. PICK p \in PositionIds :
        /\ InAuction(x, p) /\ a # positions[p].seller /\ a \in compliant
        /\ MarkSold(x, a, limit) /\ CanPay(book, a, PriceAt(auctions[x], now))
    BY DEF BuyAuction
<1>3. /\ auction.status = "LIVE" /\ t <= auction.endsAt /\ auction.endsAt \in Nat
      /\ auction.startedAt <= t /\ auction.startedAt < auction.endsAt
      /\ auction.floorPrice <= auction.startPrice
    BY <1>1, <1>2 DEF MarkSold, IInv, RecordsInv, CloseoutInv, AuctionsSound, AuctionSound, Auction
<1>4. PICK price \in Nat : price = PriceAt(auction, t)
    BY <1>3, PriceRange
<1>5. auctions'[x].buyer = a /\ auctions'[x].salePrice = price
  <2>1. PICK sold : sold = [auction EXCEPT !.status = "SOLD", !.buyer = a, !.salePrice = price]
    OBVIOUS
  <2>2. auctions' = [auctions EXCEPT ![x] = sold]
    BY <1>1, <1>2, <1>4, <2>1 DEF MarkSold, IInv, TypeOK, AuctionTypeOK
  <2>3. sold.buyer = a /\ sold.salePrice = price
    BY <2>1 DEF Auction
  <2> QED
    BY <2>2, <2>3 DEF IInv, TypeOK, AuctionTypeOK
<1>6. /\ row.open /\ row.endsAt = auction.endsAt /\ row.seller = positions[p].seller
    BY <1>0, <1>1, <1>2, <1>3 DEF AuctionRow, InAuction
<1>7. EvaluateEdges({Edge(Settlement, a, Escrow), Edge(Cva, Vault, a)}) = {}
  <2>1. \A edge \in {Edge(Settlement, a, Escrow), Edge(Cva, Vault, a)} :
           Passes(edge.from) /\ Passes(edge.to)
    BY <1>2 DEF Passes, CustodyContracts, Edge
  <2> QED
    BY <2>1, EdgesPass DEF ExitsConfigured
<1>8. FundsReasons(book.cash[a], price, price) = {}
  <2>1. book.cash[a] \in Nat /\ price <= book.cash[a]
    BY <1>1, <1>2, <1>4 DEF IInv, TypeOK, EscrowTypeOK, Book, CanPay
  <2> QED
    BY <2>1, FundsSuffice
<1>9. /\ (~MarketSourcesRegistered(Modules)) = FALSE /\ (~row.open) = FALSE
      /\ (row.seller = a) = FALSE /\ (t > row.endsAt) = FALSE /\ (price < price) = FALSE
    BY <1>2, <1>3, <1>6 DEF ExitsConfigured
<1>10. Blocking([CONTRACT_NOT_CONFIGURED |-> FALSE, AUCTION_NOT_OPEN |-> FALSE,
                 BUYER_NOT_PERMITTED |-> FALSE, AUCTION_EXPIRED |-> FALSE,
                 SLIPPAGE_EXCEEDED |-> FALSE]) = {}
    BY DEF Blocking
<1>11. BuyAuctionPreflight(a, x, 0, price).reasons = {}
    BY <1>0, <1>1, <1>4, <1>7, <1>8, <1>9, <1>10 DEF BuyAuctionPreflight, Prepared
<1> QED
    BY <1>5, <1>11

\* Collateral that leaves the vault reaches nobody but the recipient.
LEMMA PaidOutTo ==
    ASSUME IInv, NEW recipient \in Account, NEW amount \in Nat, PayOut(recipient, amount)
    PROVE  CvaReceivers \subseteq {recipient}
BY DEF CvaReceivers, PayOut, CanPayOut, IInv, TypeOK, VaultTypeOK

\* What is asked of both ways of taking collateral in kind.
LEMMA ClaimsPass ==
    ASSUME ExitsConfigured, asset.configured, NEW actor \in compliant, NEW recipient \in compliant
    PROVE  ClaimReasons(actor, recipient) = {}
<1>1. EvaluateEdges({Edge(Cva, Vault, recipient)}) = {}
    BY EdgePasses DEF ExitsConfigured, Passes, CustodyContracts
<1>2. EvaluateParticipants({actor}, Cva) = {}
    BY ParticipantsPass
<1>3. (~MarketSourcesRegistered(CoreModules)) = FALSE /\ (~asset.configured) = FALSE
    BY DEF ExitsConfigured, MarketSourcesRegistered, CoreModules
<1>4. Blocking([CONTRACT_NOT_CONFIGURED |-> FALSE, VAULT_NOT_AUTHORIZED |-> FALSE]) = {}
    BY DEF Blocking
<1> QED
    BY <1>1, <1>2, <1>3, <1>4 DEF ClaimReasons

\* Collateral in kind after a failed auction.
LEMMA DefaultClaimPrepared ==
    ASSUME IInv, ExitsConfigured, asset.configured, NEW p \in PositionIds, NEW a \in Account,
           NEW b \in Account, ClaimDefaultCollateral(a, p, b)
    PROVE  /\ positions[p].auctionId # 0
           /\ \A c \in CvaReceivers : ClaimDefaultPreflight(positions[p].buyer, p, c).reasons = {}
<1>1. /\ positions[p].status = "AUCTION_FAILED" /\ a = positions[p].buyer
      /\ a \in compliant /\ b \in compliant
      /\ ReleaseAuction(positions[p].auctionId, b)
    BY DEF ClaimDefaultCollateral
<1>2. positions[p].auctionId \in AuctionIds
    BY <1>1 DEF IInv, RecordsInv, CloseoutInv, PositionSound
<1>3. CvaReceivers \subseteq {b}
  <2>1. auctionLocked[positions[p].auctionId].amount \in Nat
    BY <1>2 DEF IInv, TypeOK, VaultTypeOK, Bucket
  <2> QED
    BY <1>1, <2>1, PaidOutTo DEF ReleaseAuction
<1>4. /\ (PositionRow(p).buyer # a) = FALSE
      /\ (PositionRow(p).status # "AUCTION_FAILED") = FALSE
    BY <1>1 DEF PositionRow
<1>5. Blocking([POSITION_NOT_ACTIVE |-> FALSE]) = {}
    BY DEF Blocking
<1>6. ClaimDefaultPreflight(a, p, b).reasons = {}
    BY <1>1, <1>4, <1>5, ClaimsPass DEF ClaimDefaultPreflight, Prepared
<1> QED
    BY <1>1, <1>2, <1>3, <1>6, AuctionIdsAssumption

\* Collateral in kind because the oracle is silent.
LEMMA OracleClaimPrepared ==
    ASSUME IInv, ExitsConfigured, asset.configured, NEW p \in PositionIds, NEW a \in Account,
           NEW b \in Account, ClaimCollateralOnOracleFailure(a, p, b)
    PROVE  /\ positions[p].status = "ACTIVE"
           /\ \A c \in CvaReceivers : OracleFailurePreflight(positions[p].buyer, p, c).reasons = {}
<1>0. PICK row : row = PositionRow(p)
    OBVIOUS
<1>1. /\ FallbackOpen(positions[p]) /\ a = positions[p].buyer
      /\ a \in compliant /\ b \in compliant /\ SeizePosition(p, b)
    BY DEF ClaimCollateralOnOracleFailure, CanClaimCollateralOnOracleFailure
<1>2. positions[p].status = "ACTIVE"
    BY <1>1 DEF FallbackOpen
<1>3. CvaReceivers \subseteq {b}
  <2>1. positionLocked[p].amount \in Nat
    BY DEF IInv, TypeOK, VaultTypeOK, Bucket
  <2> QED
    BY <1>1, <2>1, PaidOutTo DEF SeizePosition
<1>4. /\ row.buyer = a /\ row.status = "ACTIVE"
      /\ now > row.repaymentDeadline + row.staleOracleFallbackDelay
      /\ ~PriceIsFresh(row.maxOracleAge)
    BY <1>0, <1>1 DEF PositionRow, FallbackOpen
<1>5. PICK open : open = (now > row.repaymentDeadline + row.staleOracleFallbackDelay)
    OBVIOUS
<1>6. /\ (row.buyer # a) = FALSE /\ (row.status # "ACTIVE") = FALSE /\ (~open) = FALSE
      /\ (open /\ row.status = "ACTIVE" /\ PriceIsFresh(row.maxOracleAge)) = FALSE
    BY <1>4, <1>5
<1>7. Blocking([POSITION_NOT_ACTIVE |-> FALSE, ORACLE_FALLBACK_NOT_OPEN |-> FALSE,
                ORACLE_STILL_LIVE |-> FALSE]) = {}
    BY DEF Blocking
<1>8. ClaimReasons(a, b) = {}
    BY <1>1, ClaimsPass
<1>9. OracleFailurePreflight(a, p, b).reasons = {}
    BY <1>0, <1>5, <1>6, <1>7, <1>8 DEF OracleFailurePreflight, Prepared
<1> QED
    BY <1>1, <1>2, <1>3, <1>9

\* Which step gives a position another status, and which status.
Becomes(p, status) == positions'[p].status = status
LEMMA PositionMovedBy ==
    ASSUME IInv, [Next]_vars, NEW p \in PositionIds, positions'[p].status # positions[p].status
    PROVE  \/ /\ Becomes(p, "ACTIVE") /\ positions'[p].auctionId = 0
              /\ asset.configured /\ asset' = asset
           \/ /\ Becomes(p, "REPAID")
              /\ \E a \in Account, limit \in Limits, useEscrow \in BOOLEAN :
                    Repurchase(a, p, limit, useEscrow)
           \/ Becomes(p, "AUCTION") /\ StartAuction(p)
           \/ /\ Becomes(p, "LIQUIDATED")
              /\ \E a \in Account, x \in AuctionIds, limit \in Limits :
                    BuyAuction(a, x, limit) /\ InAuction(x, p)
           \/ /\ Becomes(p, "AUCTION_FAILED")
              /\ \E x \in AuctionIds : FinalizeFailedAuction(x) /\ InAuction(x, p)
           \/ /\ Becomes(p, "COLLATERAL_CLAIMED")
              /\ \/ \E a \in Account, b \in Recipients : ClaimDefaultCollateral(a, p, b)
                 \/ \E a \in Account, b \in Recipients : ClaimCollateralOnOracleFailure(a, p, b)
<1>1. positions \in [PositionIds -> Position] /\ positions' # positions
    BY DEF IInv, TypeOK
<1>2. /\ ~Tick /\ ~UNCHANGED vars /\ ~InvalidateValuation /\ ~ChangeCompliance /\ ~GovernRisk
      /\ ~Administer
    BY <1>1 DEF Tick, vars, InvalidateValuation, ChangeCompliance, GovernRisk, Administer,
                marketVars, recordVars
<1>3. ASSUME NEW a, NEW n PROVE ~DepositCollateral(a, n)
    BY <1>1 DEF DepositCollateral, CanDepositCollateral, marketVars, recordVars
<1>4. ASSUME NEW a, NEW n, NEW b PROVE ~WithdrawCollateral(a, n, b)
    BY <1>1 DEF WithdrawCollateral, CanWithdrawCollateral, marketVars, recordVars
<1>5. ASSUME NEW a, NEW q PROVE ~CreateOffer(a, q)
    BY <1>1 DEF CreateOffer, CanCreateOffer
<1>6. ASSUME NEW a, NEW o, NEW fill, NEW limit, FillOffer(a, o, fill, limit)
      PROVE  /\ Becomes(p, "ACTIVE") /\ positions'[p].auctionId = 0
             /\ asset.configured /\ asset' = asset
  <2> DEFINE new == NewPosition(a, o, fill)
  <2>1. positions' = [positions EXCEPT ![nextPositionId] = new]
    BY <1>6 DEF FillOffer, CanFillOffer
  <2>2. new.status = "ACTIVE" /\ new.auctionId = 0
    BY DEF NewPosition
  <2> HIDE DEF new
  <2>3. positions'[p] = new
    BY <1>1, <2>1
  <2>4. asset.configured /\ asset' = asset
    BY <1>6 DEF FillOffer, CanFillOffer, EntryAssetOpen, adminVars
  <2> QED
    BY <2>2, <2>3, <2>4 DEF Becomes
<1>7. ASSUME NEW o, NEW status PROVE ~CloseOffer(o, status)
    BY <1>1 DEF CloseOffer, CanCloseOffer
<1>8. ASSUME NEW q \in PositionIds, NEW status \in Closed,
             positions' = [positions EXCEPT ![q].status = status]
      PROVE  q = p /\ Becomes(p, status)
  <2> DEFINE new == [positions[q] EXCEPT !.status = status]
  <2>1. positions' = [positions EXCEPT ![q] = new]
    BY <1>1, <1>8
  <2>2. new.status = status
    BY <1>1 DEF Position
  <2> HIDE DEF new
  <2> QED
    BY <1>1, <2>1, <2>2 DEF Becomes
<1>9. ASSUME NEW a, NEW q \in PositionIds, NEW limit, NEW useEscrow,
             Repurchase(a, q, limit, useEscrow)
      PROVE  q = p /\ Becomes(p, "REPAID")
    BY <1>8, <1>9 DEF Repurchase, CanRepurchase, Closed
<1>10. ASSUME NEW q \in PositionIds, StartAuction(q) PROVE q = p /\ Becomes(p, "AUCTION")
  <2> DEFINE new == [positions[q] EXCEPT !.status = "AUCTION", !.auctionId = nextAuctionId,
                                         !.frozenDebt = Payoff(positions[q], now)]
  <2>1. positions' = [positions EXCEPT ![q] = new]
    BY <1>1, <1>10 DEF StartAuction, CanStartAuction
  <2>2. new.status = "AUCTION"
    BY <1>1 DEF Position
  <2> HIDE DEF new
  <2> QED
    BY <1>1, <2>1, <2>2 DEF Becomes
<1>11. ASSUME NEW a, NEW x, NEW limit, BuyAuction(a, x, limit)
       PROVE  InAuction(x, p) /\ Becomes(p, "LIQUIDATED")
    BY <1>8, <1>11 DEF BuyAuction, Closed
<1>12. ASSUME NEW x, FinalizeFailedAuction(x)
       PROVE  InAuction(x, p) /\ Becomes(p, "AUCTION_FAILED")
    BY <1>8, <1>12 DEF FinalizeFailedAuction, Closed
<1>13. ASSUME NEW a, NEW b, NEW q \in PositionIds,
              ClaimDefaultCollateral(a, q, b) \/ ClaimCollateralOnOracleFailure(a, q, b)
       PROVE  q = p /\ Becomes(p, "COLLATERAL_CLAIMED")
    BY <1>8, <1>13 DEF ClaimDefaultCollateral, ClaimCollateralOnOracleFailure,
                       CanClaimCollateralOnOracleFailure, Closed
<1>14. ASSUME NEW a, NEW c, NEW n, NEW b PROVE ~EscrowClaim(a, c, n, b)
    BY <1>1 DEF EscrowClaim, marketVars, recordVars
<1>15. ASSUME NEW price, NEW observedAt, NEW v, NEW t
       PROVE  ~SubmitValuation(price, observedAt, v, t)
    BY <1>1 DEF SubmitValuation, marketVars, recordVars
<1>16. Next
    BY <1>2
<1> QED
    BY <1>2, <1>3, <1>4, <1>5, <1>6, <1>7, <1>9, <1>10, <1>11, <1>12, <1>13, <1>14, <1>15, <1>16
       DEF Next, CancelOffer, CanCancelOffer, FinalizeOfferExpiry

\* Once configured, the asset stays so.
LEMMA ConfiguredStays ==
    ASSUME IInv, [Next]_vars, asset.configured
    PROVE  asset'.configured
<1>1. asset \in [configured: BOOLEAN, enabled: BOOLEAN, ready: BOOLEAN]
    BY DEF IInv, TypeOK
<1>2. CASE Administer
    BY <1>1, <1>2 DEF Administer, ConfigureAsset, SetAssetVaultReady, SetAssetEnabled,
                      SetEntryPaused, GuardianPauseEntry, SetPauseGuardian, SetFeeTreasury
<1>3. CASE asset' = asset
    BY <1>3
<1>4. CASE Tick \/ UNCHANGED vars \/ InvalidateValuation \/ ChangeCompliance \/ GovernRisk
    BY <1>3, <1>4 DEF Tick, vars, InvalidateValuation, ChangeCompliance, GovernRisk, marketVars,
                      adminVars
<1>5. ASSUME NEW a, NEW n PROVE DepositCollateral(a, n) => asset' = asset
    BY DEF DepositCollateral, CanDepositCollateral, marketVars, adminVars
<1>6. ASSUME NEW a, NEW n, NEW b PROVE WithdrawCollateral(a, n, b) => asset' = asset
    BY DEF WithdrawCollateral, CanWithdrawCollateral, marketVars, adminVars
<1>7. ASSUME NEW a, NEW q PROVE CreateOffer(a, q) => asset' = asset
    BY DEF CreateOffer, CanCreateOffer, adminVars
<1>8. ASSUME NEW a, NEW o, NEW fill, NEW limit PROVE FillOffer(a, o, fill, limit) => asset' = asset
    BY DEF FillOffer, CanFillOffer, adminVars
<1>9. ASSUME NEW o, NEW status PROVE CloseOffer(o, status) => asset' = asset
    BY DEF CloseOffer, CanCloseOffer, adminVars
<1>10. ASSUME NEW a, NEW q, NEW limit, NEW useEscrow
       PROVE  Repurchase(a, q, limit, useEscrow) => asset' = asset
    BY DEF Repurchase, CanRepurchase, adminVars
<1>11. ASSUME NEW q PROVE StartAuction(q) => asset' = asset
    BY DEF StartAuction, CanStartAuction, adminVars
<1>12. ASSUME NEW a, NEW x, NEW limit PROVE BuyAuction(a, x, limit) => asset' = asset
    BY DEF BuyAuction, adminVars
<1>13. ASSUME NEW x PROVE FinalizeFailedAuction(x) => asset' = asset
    BY DEF FinalizeFailedAuction, adminVars
<1>14. ASSUME NEW a, NEW b, NEW q
       PROVE  ClaimDefaultCollateral(a, q, b) \/ ClaimCollateralOnOracleFailure(a, q, b)
                 => asset' = asset
    BY DEF ClaimDefaultCollateral, ClaimCollateralOnOracleFailure,
           CanClaimCollateralOnOracleFailure, adminVars
<1>15. ASSUME NEW a, NEW c, NEW n, NEW b PROVE EscrowClaim(a, c, n, b) => asset' = asset
    BY DEF EscrowClaim, marketVars, adminVars
<1>16. ASSUME NEW price, NEW observedAt, NEW v, NEW t
       PROVE  SubmitValuation(price, observedAt, v, t) => asset' = asset
    BY DEF SubmitValuation, marketVars, adminVars
<1> QED
    BY <1>2, <1>3, <1>4, <1>5, <1>6, <1>7, <1>8, <1>9, <1>10, <1>11, <1>12, <1>13, <1>14, <1>15,
       <1>16 DEF Next, CancelOffer, CanCancelOffer, FinalizeOfferExpiry

\* Positions are of a configured asset, and name no auction while they run.
PositionsEstablished ==
    \A p \in PositionIds :
        /\ positions[p].status # "NONE" => asset.configured
        /\ positions[p].status = "ACTIVE" => positions[p].auctionId = 0

LEMMA EstablishedStep ==
    ASSUME IInv, PositionsEstablished, [Next]_vars
    PROVE  PositionsEstablished'
<1>1. ASSUME NEW p \in PositionIds, positions'[p].status # "NONE" PROVE asset'.configured
  <2>1. CASE positions[p].status # "NONE"
    BY <2>1, ConfiguredStays DEF PositionsEstablished
  <2>2. CASE positions[p].status = "NONE"
    <3>1. /\ \A a, limit, useEscrow : ~Repurchase(a, p, limit, useEscrow)
          /\ ~StartAuction(p) /\ \A x : ~InAuction(x, p)
          /\ \A a, b : ~ClaimDefaultCollateral(a, p, b)
                       /\ ~ClaimCollateralOnOracleFailure(a, p, b)
      BY <2>2 DEF Repurchase, CanRepurchase, StartAuction, CanStartAuction, DefaultOpen,
                  InAuction, ClaimDefaultCollateral,
                  ClaimCollateralOnOracleFailure, CanClaimCollateralOnOracleFailure, FallbackOpen
    <3>2. asset.configured
      BY <1>1, <2>2, <3>1, PositionMovedBy
    <3> QED
      BY <3>2, ConfiguredStays
  <2> QED
    BY <2>1, <2>2
<1>2. ASSUME NEW p \in PositionIds, positions'[p].status = "ACTIVE"
      PROVE  positions'[p].auctionId = 0
  <2>1. CASE positions[p].status = "ACTIVE"
    BY <1>2, <2>1, ActivePositionStays DEF PositionsEstablished
  <2>2. CASE positions[p].status # "ACTIVE"
    BY <1>2, <2>2, PositionMovedBy DEF Becomes
  <2> QED
    BY <2>1, <2>2
<1> QED
    BY <1>1, <1>2 DEF PositionsEstablished

\* Every end of a position is prepared for whoever it belongs to.
LEMMA PositionExits ==
    ASSUME IInv, PositionsEstablished, ExitsConfigured, [Next]_vars, NEW p \in PositionIds,
           positions[p].status # "NONE", positions'[p].status # positions[p].status
    PROVE  PositionExitPrepared(p)
<1>1. asset.configured
    BY DEF PositionsEstablished
<1>2. CASE Becomes(p, "ACTIVE")
    BY <1>2 DEF Becomes, PositionExitPrepared
<1>3. CASE /\ Becomes(p, "REPAID")
           /\ \E a \in Account, limit \in Limits, useEscrow \in BOOLEAN :
                 Repurchase(a, p, limit, useEscrow)
  <2>1. RepayPreflight(positions[p].seller, p, 0, Payoff(positions[p], now)).reasons = {}
    BY <1>3, RepaymentPrepared
  <2> QED
    BY <1>3, <2>1 DEF Becomes, PositionExitPrepared
<1>4. CASE Becomes(p, "AUCTION") /\ StartAuction(p)
  <2>1. StartAuctionPreflight(p).reasons = {}
    BY <1>4, AuctionStartPrepared
  <2> QED
    BY <1>4, <2>1 DEF Becomes, PositionExitPrepared
<1>5. CASE /\ Becomes(p, "LIQUIDATED")
           /\ \E a \in Account, x \in AuctionIds, limit \in Limits :
                 BuyAuction(a, x, limit) /\ InAuction(x, p)
  <2>1. PICK a \in Account, x \in AuctionIds, limit \in Limits :
               BuyAuction(a, x, limit) /\ InAuction(x, p)
    BY <1>5
  <2>2. BuyAuctionPreflight(auctions'[x].buyer, x, 0, auctions'[x].salePrice).reasons = {}
    BY <2>1, SalePrepared
  <2>3. positions[p].auctionId = x
    BY <2>1 DEF InAuction
  <2> QED
    BY <1>5, <2>2, <2>3 DEF Becomes, PositionExitPrepared
<1>6. CASE /\ Becomes(p, "AUCTION_FAILED")
           /\ \E x \in AuctionIds : FinalizeFailedAuction(x) /\ InAuction(x, p)
  <2>1. PICK x \in AuctionIds : FinalizeFailedAuction(x) /\ InAuction(x, p)
    BY <1>6
  <2>2. FinalizePreflight(x).reasons = {} /\ positions[p].auctionId = x
    BY <2>1, FailurePrepared DEF InAuction
  <2> QED
    BY <1>6, <2>2 DEF Becomes, PositionExitPrepared
<1>7. CASE /\ Becomes(p, "COLLATERAL_CLAIMED")
           /\ \/ \E a \in Account, b \in Recipients : ClaimDefaultCollateral(a, p, b)
              \/ \E a \in Account, b \in Recipients : ClaimCollateralOnOracleFailure(a, p, b)
  <2>1. Recipients \subseteq Account
    BY MarketAssumption
  <2>2. CASE \E a \in Account, b \in Recipients : ClaimDefaultCollateral(a, p, b)
    <3>1. /\ positions[p].auctionId # 0
          /\ \A c \in CvaReceivers :
                ClaimDefaultPreflight(positions[p].buyer, p, c).reasons = {}
      BY <1>1, <2>1, <2>2, DefaultClaimPrepared
    <3> QED
      BY <1>7, <3>1 DEF Becomes, PositionExitPrepared
  <2>3. CASE \E a \in Account, b \in Recipients : ClaimCollateralOnOracleFailure(a, p, b)
    <3>1. /\ positions[p].status = "ACTIVE"
          /\ \A c \in CvaReceivers :
                OracleFailurePreflight(positions[p].buyer, p, c).reasons = {}
      BY <1>1, <2>1, <2>3, OracleClaimPrepared
    <3>2. positions[p].auctionId = 0
      BY <3>1 DEF PositionsEstablished
    <3> QED
      BY <1>7, <3>1, <3>2 DEF Becomes, PositionExitPrepared
  <2> QED
    BY <1>7, <2>2, <2>3
<1> QED
    BY <1>2, <1>3, <1>4, <1>5, <1>6, <1>7, PositionMovedBy

\* Only its seller, or its expiry, ends an offer that still has something to give.
LEMMA OfferClosedBy ==
    ASSUME IInv, [Next]_vars, NEW o \in OfferIds, offers'[o].status # offers[o].status
    PROVE  /\ offers'[o].status = "CANCELLED" => \E a \in Account : CancelOffer(a, o)
           /\ offers'[o].status = "EXPIRED" => FinalizeOfferExpiry(o)
<1>1. offers \in [OfferIds -> Offer] /\ offers' # offers
    BY DEF IInv, TypeOK
<1>2. /\ ~Tick /\ ~UNCHANGED vars /\ ~InvalidateValuation /\ ~ChangeCompliance /\ ~GovernRisk
      /\ ~Administer
    BY <1>1 DEF Tick, vars, InvalidateValuation, ChangeCompliance, GovernRisk, Administer,
                marketVars, recordVars
<1>3. ASSUME NEW a, NEW n PROVE ~DepositCollateral(a, n)
    BY <1>1 DEF DepositCollateral, CanDepositCollateral, marketVars, recordVars
<1>4. ASSUME NEW a, NEW n, NEW b PROVE ~WithdrawCollateral(a, n, b)
    BY <1>1 DEF WithdrawCollateral, CanWithdrawCollateral, marketVars, recordVars
<1>5. ASSUME NEW a \in Account, NEW q \in OfferParams, CreateOffer(a, q)
      PROVE  offers'[o].status = "OPEN"
    BY <1>1, <1>5 DEF CreateOffer, CanCreateOffer
<1>6. ASSUME NEW a \in Account, NEW q \in OfferIds, NEW fill, NEW limit,
             FillOffer(a, q, fill, limit)
      PROVE  offers'[o].status \in {"FILLED", "PARTIALLY_FILLED"}
  <2> DEFINE new == FilledBy(offers[q], fill)
  <2>1. offers' = [offers EXCEPT ![q] = new]
    BY <1>6 DEF FillOffer, CanFillOffer
  <2>2. new.status \in {"FILLED", "PARTIALLY_FILLED"}
    BY <1>1 DEF FilledBy, Offer
  <2> HIDE DEF new
  <2> QED
    BY <1>1, <2>1, <2>2
<1>7. ASSUME NEW q \in OfferIds, NEW status, CloseOffer(q, status)
      PROVE  q = o /\ offers'[o].status = status
  <2> DEFINE new == [offers[q] EXCEPT !.status = status]
  <2>1. offers' = [offers EXCEPT ![q] = new]
    BY <1>1, <1>7 DEF CloseOffer, CanCloseOffer
  <2>2. new.status = status
    BY <1>1 DEF Offer
  <2> HIDE DEF new
  <2> QED
    BY <1>1, <2>1, <2>2
<1>8. ASSUME NEW a, NEW q, NEW limit, NEW useEscrow PROVE ~Repurchase(a, q, limit, useEscrow)
    BY <1>1 DEF Repurchase, CanRepurchase
<1>9. ASSUME NEW q PROVE ~StartAuction(q)
    BY <1>1 DEF StartAuction, CanStartAuction
<1>10. ASSUME NEW a, NEW x, NEW limit PROVE ~BuyAuction(a, x, limit)
    BY <1>1 DEF BuyAuction
<1>11. ASSUME NEW x PROVE ~FinalizeFailedAuction(x)
    BY <1>1 DEF FinalizeFailedAuction
<1>12. ASSUME NEW a, NEW b, NEW q
       PROVE  ~ClaimDefaultCollateral(a, q, b) /\ ~ClaimCollateralOnOracleFailure(a, q, b)
    BY <1>1 DEF ClaimDefaultCollateral, ClaimCollateralOnOracleFailure,
                CanClaimCollateralOnOracleFailure
<1>13. ASSUME NEW a, NEW c, NEW n, NEW b PROVE ~EscrowClaim(a, c, n, b)
    BY <1>1 DEF EscrowClaim, marketVars, recordVars
<1>14. ASSUME NEW price, NEW observedAt, NEW v, NEW t
       PROVE  ~SubmitValuation(price, observedAt, v, t)
    BY <1>1 DEF SubmitValuation, marketVars, recordVars
<1>15. ASSUME NEW a, NEW q \in OfferIds, CancelOffer(a, q)
       PROVE  q = o /\ offers'[o].status = "CANCELLED"
    BY <1>7, <1>15 DEF CancelOffer, CanCancelOffer
<1>16. ASSUME NEW q \in OfferIds, FinalizeOfferExpiry(q)
       PROVE  q = o /\ offers'[o].status = "EXPIRED"
    BY <1>7, <1>16 DEF FinalizeOfferExpiry
<1>17. Next
    BY <1>2
<1> QED
    BY <1>2, <1>3, <1>4, <1>5, <1>6, <1>8, <1>9, <1>10, <1>11, <1>12, <1>13, <1>14, <1>15, <1>16,
       <1>17 DEF Next

LEMMA OfferExits ==
    ASSUME IInv, [Next]_vars, NEW o \in OfferIds, offers'[o].status # offers[o].status
    PROVE  OfferExitPrepared(o)
<1>1. offers'[o].status = "CANCELLED" => CancelPreflight(offers[o].seller, o).reasons = {}
    BY OfferClosedBy, OfferEndPrepared
<1>2. offers'[o].status = "EXPIRED" => ExpiryPreflight(o).reasons = {}
    BY OfferClosedBy, OfferEndPrepared
<1> QED
    BY <1>1, <1>2 DEF OfferExitPrepared

\* A withdrawal, to whomever it went.
LEMMA WithdrawalExits ==
    ASSUME IInv, ExitsConfigured, [Next]_vars, NEW a \in Account
    PROVE  WithdrawalPrepared(a)
<1> SUFFICES ASSUME vaultAssets' < vaultAssets, availableBalance'[a] < availableBalance[a],
                    NEW c \in CvaReceivers
             PROVE  WithdrawPreflight(a, availableBalance[a] - availableBalance'[a], c).reasons = {}
    BY DEF WithdrawalPrepared
<1>1. availableBalance \in [Account -> Nat] /\ availableBalance' # availableBalance
    BY DEF IInv, TypeOK, VaultTypeOK
<1>2. PICK owner \in Account, b \in Recipients, n \in Amounts : WithdrawCollateral(owner, n, b)
  <2>1. ASSUME NEW x, NEW recipient, ReleaseAuction(x, recipient) PROVE FALSE
    BY <1>1, <2>1 DEF ReleaseAuction
  <2>2. ASSUME NEW p, NEW recipient, SeizePosition(p, recipient) PROVE FALSE
    BY <1>1, <2>2 DEF SeizePosition
  <2>3. ASSUME NEW buyer, NEW x, NEW limit PROVE ~BuyAuction(buyer, x, limit)
    BY <2>1 DEF BuyAuction
  <2>4. ASSUME NEW buyer, NEW p, NEW b
        PROVE  ~ClaimDefaultCollateral(buyer, p, b) /\ ~ClaimCollateralOnOracleFailure(buyer, p, b)
    BY <2>1, <2>2 DEF ClaimDefaultCollateral, ClaimCollateralOnOracleFailure,
                      CanClaimCollateralOnOracleFailure
  <2> QED
    BY <2>3, <2>4, TokensLeaveBy
<1>3. /\ n \in Nat /\ n > 0 /\ n <= availableBalance[owner] /\ b \in Account
      /\ owner \in compliant /\ b \in compliant
      /\ availableBalance' = [availableBalance EXCEPT ![owner] = @ - n] /\ PayOut(b, n)
    BY <1>2, VaultAssumption, MarketAssumption
       DEF WithdrawCollateral, CanWithdrawCollateral, WithdrawTo, Debit, CanDebitAvailable
<1>4. owner = a /\ availableBalance[a] - availableBalance'[a] = n
    BY <1>1, <1>3
<1>5. c = b
    BY <1>3, PaidOutTo
<1>6. (n <= 0) = FALSE /\ (availableBalance[a] < n) = FALSE
    BY <1>1, <1>3, <1>4
<1>7. Blocking([INVALID_FILL_AMOUNT |-> FALSE, INSUFFICIENT_BALANCE |-> FALSE]) = {}
    BY DEF Blocking
<1>8. EvaluateEdges({Edge(Cva, Vault, b)}) = {}
    BY <1>3, EdgePasses DEF ExitsConfigured, Passes, CustodyContracts
<1>9. EvaluateParticipants({a, b}, Cva) = {}
  <2>1. {a, b} \in SUBSET compliant
    BY <1>3, <1>4
  <2> QED
    BY <2>1, ParticipantsPass
<1>10. WithdrawPreflight(a, n, b).reasons = {}
    BY <1>6, <1>7, <1>8, <1>9 DEF WithdrawPreflight, Prepared
<1> QED
    BY <1>4, <1>5, <1>10

\* What moving tokens and recording claims do to the claims there are.
ClaimsKept(b, d) ==
    \A c \in DOMAIN b.claims :
        c \in DOMAIN d.claims /\ d.claims[c].remaining = b.claims[c].remaining

LEMMA MovingKeepsClaims ==
    ASSUME NEW b \in Book, NEW payer, NEW recipient, NEW amount
    PROVE  /\ ClaimsKept(b, PaidTo(b, payer, recipient, amount))
           /\ ClaimsKept(b, PaidToEscrow(b, payer, amount))
<1>1. PaidTo(b, payer, recipient, amount).claims = b.claims
    BY DEF PaidTo, Book
<1>2. PaidToEscrow(b, payer, amount).claims = b.claims
    BY DEF PaidToEscrow, Book
<1> QED
    BY <1>1, <1>2 DEF ClaimsKept

LEMMA RecordingKeepsClaims ==
    ASSUME NEW b \in Book, NEW beneficiary \in Account, NEW amount \in Nat
    PROVE  ClaimsKept(b, WithClaim(b, beneficiary, amount))
<1>1. CASE amount = 0
    BY <1>1 DEF WithClaim, ClaimsKept
<1>2. CASE amount # 0
  <2>1. PICK old, new, claim :
          /\ old = b.claims /\ new = WithClaim(b, beneficiary, amount).claims
          /\ claim = [beneficiary |-> beneficiary, remaining |-> amount]
    OBVIOUS
  <2>2. old \in Seq(Claim) /\ claim \in Claim
    BY <2>1 DEF Book, Claim
  <2>3. new = Append(old, claim)
    BY <1>2, <2>1 DEF WithClaim, Book
  <2>4. \A c \in DOMAIN old : c \in DOMAIN new /\ new[c] = old[c]
    BY <2>2, <2>3
  <2> QED
    BY <2>1, <2>4 DEF ClaimsKept
<1> QED
    BY <1>1, <1>2

LEMMA KeptByBoth ==
    ASSUME NEW b, NEW d, NEW e, ClaimsKept(b, d), ClaimsKept(d, e)
    PROVE  ClaimsKept(b, e)
BY DEF ClaimsKept

\* A payment or a credit, with what came before it.
LEMMA PayingKeepsClaims ==
    ASSUME NEW b \in Book, NEW payer \in Account, NEW beneficiary \in Account,
           NEW amount \in Nat, amount = 0 \/ CanPayOrEscrow(b, payer, beneficiary, amount)
    PROVE  ClaimsKept(b, PaidOrEscrowed(b, payer, beneficiary, amount))
<1>1. CASE beneficiary \in compliant
    BY <1>1, MovingKeepsClaims DEF PaidOrEscrowed
<1>2. CASE beneficiary \notin compliant
  <2>1. PICK d : d = PaidToEscrow(b, payer, amount)
    OBVIOUS
  <2>2. CanPay(b, payer, amount)
    BY <1>2 DEF CanPayOrEscrow, CanPay, Book
  <2>3. d \in Book /\ ClaimsKept(b, d)
    BY <2>1, <2>2, PaidToEscrowType, MovingKeepsClaims
  <2>4. ClaimsKept(d, WithClaim(d, beneficiary, amount))
    BY <2>3, RecordingKeepsClaims
  <2> QED
    BY <1>2, <2>1, <2>3, <2>4, KeptByBoth DEF PaidOrEscrowed
<1> QED
    BY <1>1, <1>2

\* The claims of a sale are new ones.
LEMMA SettlingKeepsClaims ==
    ASSUME IInv, NEW a \in Account, NEW x \in AuctionIds, NEW limit \in Limits,
           BuyAuction(a, x, limit)
    PROVE  ClaimsKept(book, book')
<1>1. PICK p \in PositionIds :
        /\ InAuction(x, p) /\ MarkSold(x, a, limit) /\ CanPay(book, a, PriceAt(auctions[x], now))
        /\ book' = Settled(PaidToEscrow(book, a, PriceAt(auctions[x], now)), positions[p],
                           PriceAt(auctions[x], now))
    BY DEF BuyAuction
<1>2. PICK position \in Position : position = positions[p]
    BY DEF IInv, TypeOK
<1>3. position.seller \in Account /\ position.buyer \in Account /\ feeTreasury \in Account
    BY <1>1, <1>2 DEF IInv, TypeOK, RecordsInv, CloseoutInv, PositionSound, InAuction
<1>4. PICK price \in Nat : price = PriceAt(auctions[x], now)
  <2>1. auctions[x] \in Auction /\ auctions[x].status = "LIVE" /\ now \in Nat
    BY <1>1 DEF MarkSold, IInv, TypeOK, AuctionTypeOK
  <2>2. AuctionSound(auctions[x])
    BY DEF IInv, RecordsInv, CloseoutInv, AuctionsSound
  <2> QED
    BY <2>1, <2>2, PriceRange DEF AuctionSound
<1>5. PICK paid \in Book : paid = PaidToEscrow(book, a, price) /\ ClaimsKept(book, paid)
  <2>1. book \in Book
    BY DEF IInv, TypeOK, EscrowTypeOK
  <2> QED
    BY <1>1, <1>4, <2>1, PaidToEscrowType, MovingKeepsClaims
<1>6. PICK lender \in Nat, fee \in Nat, surplus \in Nat :
        /\ lender = LenderShare(position, price) /\ fee = FeeShare(position, price)
        /\ surplus = SellerShare(position, price)
    BY SharesType
<1>7. PICK first \in Book : first = WithClaim(paid, position.buyer, lender) /\ ClaimsKept(paid, first)
    BY <1>3, WithClaimType, RecordingKeepsClaims
<1>8. PICK second \in Book : second = WithClaim(first, feeTreasury, fee) /\ ClaimsKept(first, second)
    BY <1>3, WithClaimType, RecordingKeepsClaims
<1>9. book' = WithClaim(second, position.seller, surplus)
    BY <1>1, <1>2, <1>4, <1>5, <1>6, <1>7, <1>8 DEF Settled
<1>10. ClaimsKept(second, book')
    BY <1>3, <1>9, RecordingKeepsClaims
<1> QED
    BY <1>5, <1>7, <1>8, <1>10, KeptByBoth

\* Only its beneficiary's claim takes anything off what is due.
LEMMA ClaimPaidBy ==
    ASSUME IInv, [Next]_vars
    PROVE  \/ ClaimsKept(book, book')
           \/ \E a \in Account, b \in Recipients, n \in ClaimAmounts :
                 \E c \in DOMAIN book.claims : EscrowClaim(a, c, n, b)
<1>1. book \in Book /\ feeTreasury \in Account
    BY DEF IInv, TypeOK, EscrowTypeOK
<1>2. UNCHANGED book => ClaimsKept(book, book')
    BY DEF ClaimsKept
<1>3. CASE Tick \/ UNCHANGED vars \/ InvalidateValuation \/ GovernRisk \/ Administer
    BY <1>2, <1>3 DEF Tick, vars, escrowVars, InvalidateValuation, GovernRisk, Administer
<1>4. CASE ChangeCompliance
    BY <1>2, <1>4 DEF ChangeCompliance, SetCompliance
<1>5. ASSUME NEW a, NEW n, DepositCollateral(a, n) PROVE UNCHANGED book
    BY <1>5 DEF DepositCollateral, CanDepositCollateral, escrowVars
<1>6. ASSUME NEW a, NEW b, NEW n, WithdrawCollateral(a, n, b) PROVE UNCHANGED book
    BY <1>6 DEF WithdrawCollateral, CanWithdrawCollateral, escrowVars
<1>7. ASSUME NEW a, NEW q, CreateOffer(a, q) PROVE UNCHANGED book
    BY <1>7 DEF CreateOffer, CanCreateOffer, escrowVars
<1>8. ASSUME NEW a \in Account, NEW o \in OfferIds, NEW fill, NEW limit,
             FillOffer(a, o, fill, limit)
      PROVE  ClaimsKept(book, book')
  <2>1. PICK fee, b : /\ fee = FillFee(offers[o], fill)
                      /\ b = PaidTo(book, a, offers[o].seller, fill - fee)
    OBVIOUS
  <2>2. /\ fee < fill /\ CanPay(book, a, fill - fee)
        /\ fee > 0 => CanPayOrEscrow(b, a, feeTreasury, fee)
        /\ book' = PaidOrEscrowed(b, a, feeTreasury, fee)
    BY <1>8, <2>1 DEF FillOffer, CanFillOffer, CanFill
  <2>3. /\ offers[o] \in Offer /\ offers[o].seller \in Account
        /\ offers[o].totalCollateral > 0 /\ offers[o].targetPrincipal > 0
        /\ CumulativelyFilled(offers[o])
        /\ fill \in 1..(offers[o].targetPrincipal - offers[o].filledPrincipal)
    BY <1>8 DEF FillOffer, CanFillOffer, CanFill, IInv, TypeOK, RecordsInv, OffersInv, OfferSound,
                FillsAreCumulative, Fillable
  <2>4. fee \in Nat /\ fill \in Nat /\ fill - fee \in Nat
    BY <2>1, <2>2, <2>3, FilledByCumulative DEF Offer
  <2>5. b \in Book /\ ClaimsKept(book, b)
    BY <1>1, <2>1, <2>2, <2>3, <2>4, PaidToType, MovingKeepsClaims
  <2>6. fee = 0 \/ CanPayOrEscrow(b, a, feeTreasury, fee)
    BY <2>2, <2>4
  <2>7. ClaimsKept(b, book')
    BY <1>1, <2>2, <2>4, <2>5, <2>6, PayingKeepsClaims
  <2> QED
    BY <2>5, <2>7, KeptByBoth
<1>9. ASSUME NEW o, NEW status, CloseOffer(o, status) PROVE UNCHANGED book
    BY <1>9 DEF CloseOffer, CanCloseOffer, escrowVars
<1>10. ASSUME NEW a \in Account, NEW p \in PositionIds, NEW limit, NEW useEscrow,
              Repurchase(a, p, limit, useEscrow)
       PROVE  ClaimsKept(book, book')
  <2>1. PICK payoff, b : /\ payoff = Payoff(positions[p], now)
                         /\ b = PaidToEscrow(book, positions[p].seller, payoff)
    OBVIOUS
  <2>2. /\ positions[p] \in Position /\ now \in Nat /\ positions[p].seller = a
        /\ positions[p].buyer \in Account /\ PayoffDefined(positions[p], now)
        /\ CanPay(book, a, payoff)
        /\ IF useEscrow THEN RepurchaseEscrowed(book, positions[p], payoff)
                        ELSE RepurchaseDirect(book, positions[p], payoff)
    BY <1>10, <2>1 DEF Repurchase, CanRepurchase, IInv, TypeOK, RecordsInv, CloseoutInv,
                       PositionSound
  <2>3. payoff \in Nat
    BY <2>1, <2>2, PayoffType
  <2>4. CASE ~useEscrow
    BY <1>1, <2>2, <2>4, MovingKeepsClaims DEF RepurchaseDirect
  <2>5. CASE useEscrow
    <3>1. book' = WithClaim(b, positions[p].buyer, payoff)
      BY <2>1, <2>2, <2>5 DEF RepurchaseEscrowed
    <3>2. b \in Book /\ ClaimsKept(book, b)
      BY <1>1, <2>1, <2>2, <2>3, PaidToEscrowType, MovingKeepsClaims
    <3>3. ClaimsKept(b, book')
      BY <2>2, <2>3, <3>1, <3>2, RecordingKeepsClaims
    <3> QED
      BY <3>2, <3>3, KeptByBoth
  <2> QED
    BY <2>4, <2>5
<1>11. ASSUME NEW p, StartAuction(p) PROVE UNCHANGED book
    BY <1>11 DEF StartAuction, CanStartAuction, escrowVars
<1>12. ASSUME NEW x, FinalizeFailedAuction(x) PROVE UNCHANGED book
    BY <1>12 DEF FinalizeFailedAuction, escrowVars
<1>13. ASSUME NEW a, NEW b, NEW p,
              ClaimDefaultCollateral(a, p, b) \/ ClaimCollateralOnOracleFailure(a, p, b)
       PROVE  UNCHANGED book
    BY <1>13 DEF ClaimDefaultCollateral, ClaimCollateralOnOracleFailure,
                 CanClaimCollateralOnOracleFailure, escrowVars
<1>14. ASSUME NEW price, NEW observedAt, NEW v, NEW t, SubmitValuation(price, observedAt, v, t)
       PROVE  UNCHANGED book
    BY <1>14 DEF SubmitValuation, escrowVars
<1>15. CASE Next
    BY <1>2, <1>3, <1>4, <1>5, <1>6, <1>7, <1>8, <1>9, <1>10, <1>11, <1>12, <1>13, <1>14, <1>15,
       SettlingKeepsClaims DEF Next, CancelOffer, CanCancelOffer, FinalizeOfferExpiry
<1> QED
    BY <1>3, <1>15

\* A claim on the escrow, whoever receives it.
LEMMA EscrowClaimExits ==
    ASSUME IInv, ExitsConfigured, [Next]_vars, NEW c \in DOMAIN book.claims
    PROVE  EscrowClaimPrepared(c)
<1> SUFFICES ASSUME book'.claims[c].remaining < book.claims[c].remaining,
                    NEW d \in Account, book'.cash[d] > book.cash[d]
             PROVE  ClaimSettlementPreflight(book.claims[c].beneficiary, c,
                        book.claims[c].remaining - book'.claims[c].remaining, d).reasons = {}
    BY DEF EscrowClaimPrepared
<1>1. PICK b \in Book : b = book
    BY DEF IInv, TypeOK, EscrowTypeOK
<1>2. /\ b.cash \in [Account -> Nat] /\ b.claims \in Seq(Claim)
      /\ \A e \in DOMAIN b.claims : b.claims[e] \in Claim /\ b.claims[e].remaining \in Nat
  <2>1. b.cash \in [Account -> Nat] /\ b.claims \in Seq(Claim)
    BY DEF Book
  <2>2. \A e \in DOMAIN b.claims : b.claims[e] \in Claim
    BY <2>1
  <2>3. \A claim \in Claim : claim.remaining \in Nat
    BY DEF Claim
  <2> QED
    BY <2>1, <2>2, <2>3
<1>3. ~ClaimsKept(book, book')
  <2> SUFFICES ASSUME ClaimsKept(book, book') PROVE FALSE
    OBVIOUS
  <2>1. book'.claims[c].remaining = book.claims[c].remaining
    BY DEF ClaimsKept
  <2>2. book.claims[c].remaining \in Nat
    BY <1>1, <1>2
  <2> QED
    BY <2>1, <2>2
<1>4. PICK a \in Account, to \in Recipients, n \in ClaimAmounts :
         \E e \in DOMAIN book.claims : EscrowClaim(a, e, n, to)
    BY <1>3, ClaimPaidBy
<1>5. PICK e \in DOMAIN book.claims : EscrowClaim(a, e, n, to)
    BY <1>4
<1>6. /\ b.claims[e].beneficiary = a /\ a \in compliant /\ to \in compliant
      /\ n > 0 /\ n <= b.claims[e].remaining
      /\ book' = ClaimPaid(b, e, n, to)
    BY <1>1, <1>5 DEF EscrowClaim, ClaimSettlement
<1>7. n \in Nat /\ to \in Account
    BY MarketAssumption
<1>8. /\ book'.claims = [b.claims EXCEPT ![e].remaining = b.claims[e].remaining - n]
      /\ book'.cash = [b.cash EXCEPT ![to] = b.cash[to] + n]
    BY <1>1, <1>6, <1>7 DEF ClaimPaid, Book
<1>9. c = e /\ book'.claims[c].remaining = b.claims[c].remaining - n
  <2>1. /\ \A i \in DOMAIN b.claims : i # e => book'.claims[i] = b.claims[i]
        /\ book'.claims[e] = [b.claims[e] EXCEPT !.remaining = b.claims[e].remaining - n]
    BY <1>1, <1>2, <1>8
  <2>2. c = e
    <3> SUFFICES ASSUME c # e PROVE FALSE
      OBVIOUS
    <3>1. book'.claims[c].remaining = b.claims[c].remaining /\ b.claims[c].remaining \in Nat
      BY <1>1, <1>2, <2>1
    <3> QED
      BY <1>1, <3>1
  <2>3. book'.claims[e].remaining = b.claims[e].remaining - n
    BY <1>1, <1>2, <2>1 DEF Claim
  <2> QED
    BY <2>2, <2>3
<1>10. d = to
    BY <1>1, <1>2, <1>7, <1>8
<1>11. PICK left \in Nat : left = book.claims[c].remaining
    BY <1>1, <1>2
<1>12. /\ book.claims[c].beneficiary = a /\ n <= left
       /\ book.claims[c].remaining - book'.claims[c].remaining = n
    BY <1>1, <1>6, <1>7, <1>9, <1>11
<1>13. (n \notin 1..book.claims[c].remaining) = FALSE
    BY <1>6, <1>7, <1>11, <1>12
<1>14. Blocking([INVALID_FILL_AMOUNT |-> FALSE]) = {}
    BY DEF Blocking
<1>15. EvaluateEdges({edge \in {Edge(Settlement, Escrow, to)} : n > 0}) = {}
  <2>1. Passes(Escrow) /\ Passes(to)
    BY <1>6 DEF Passes, CustodyContracts
  <2>2. {edge \in {Edge(Settlement, Escrow, to)} : n > 0} = {Edge(Settlement, Escrow, to)}
    BY <1>6
  <2> QED
    BY <2>1, <2>2, EdgePasses DEF ExitsConfigured
<1>16. EvaluateParticipants({a}, Settlement) = {}
  <2>1. {a} \in SUBSET compliant
    BY <1>6
  <2> QED
    BY <2>1, ParticipantsPass
<1>17. ClaimSettlementPreflight(a, c, n, to).reasons = {}
    BY <1>12, <1>13, <1>14, <1>15, <1>16 DEF ClaimSettlementPreflight, Prepared
<1> QED
    BY <1>10, <1>12, <1>17

(***************************************************************************)
(* Whatever exit the contracts let a user take, the API's checks of the    *)
(* same call find no reason against it: in every reachable state, for      *)
(* every offer, position, withdrawal and escrow claim of v2-preflight.ts.  *)
(***************************************************************************)
THEOREM PreflightNeverBlocksExits == Spec => PreflightKeepsExitsOpen
<1>1. Init => PositionsEstablished
    BY DEF Init, PositionsEstablished, NoPosition
<1>2. IInv /\ PositionsEstablished /\ [Next]_vars => PositionsEstablished'
    BY EstablishedStep
<1>3. IInv /\ PositionsEstablished /\ [Next]_vars => [EveryExitPrepared]_vars
  <2> SUFFICES ASSUME IInv, PositionsEstablished, [Next]_vars, ExitsConfigured
               PROVE  /\ \A o \in OfferIds :
                            offers'[o].status # offers[o].status => OfferExitPrepared(o)
                      /\ \A p \in PositionIds :
                            /\ positions[p].status # "NONE"
                            /\ positions'[p].status # positions[p].status
                            => PositionExitPrepared(p)
                      /\ \A a \in Account : WithdrawalPrepared(a)
                      /\ \A c \in DOMAIN book.claims : EscrowClaimPrepared(c)
    BY DEF EveryExitPrepared
  <2>1. \A o \in OfferIds : offers'[o].status # offers[o].status => OfferExitPrepared(o)
    BY OfferExits
  <2>2. \A p \in PositionIds :
           /\ positions[p].status # "NONE"
           /\ positions'[p].status # positions[p].status
           => PositionExitPrepared(p)
    BY PositionExits
  <2>3. \A a \in Account : WithdrawalPrepared(a)
    BY WithdrawalExits
  <2>4. \A c \in DOMAIN book.claims : EscrowClaimPrepared(c)
    BY EscrowClaimExits
  <2> QED
    BY <2>1, <2>2, <2>3, <2>4
<1> QED
    BY <1>1, <1>2, <1>3, Invariance, PTL DEF Spec, PreflightKeepsExitsOpen

-----------------------------------------------------------------------------
(* Neither side is locked in: what each call requires follows from what has *)
(* been proved of the books, the terms and the buckets, and from how        *)
(* auction ids are handed out.                                              *)

\* An auction id is used once, in order, for the position that names it.
AuctionIdsInOrder ==
    /\ 1..(nextAuctionId - 1) \subseteq AuctionIds
    /\ \A x \in AuctionIds : positionForAuction[x] # 0 <=> x < nextAuctionId
    /\ \A p \in PositionIds :
          auctionForReference[p] # 0 => positionForAuction[auctionForReference[p]] = p

\* Every auction will run for some time.
AuctionsTakeTime == \A p \in PositionIds : positions[p].closeout.auctionDuration > 0

LEMMA AuctionIdsStep ==
    ASSUME IInv, AuctionIdsInOrder, [Next]_vars
    PROVE  AuctionIdsInOrder'
<1>1. /\ positionForAuction \in [AuctionIds -> PositionIds \cup {0}]
      /\ auctionForReference \in [PositionIds -> AuctionIds \cup {0}]
      /\ nextAuctionId \in Nat \ {0} /\ 0 \notin PositionIds
    BY MarketAssumption DEF IInv, TypeOK, AuctionTypeOK
<1>2. CASE UNCHANGED <<positionForAuction, nextAuctionId, auctionForReference>>
    BY <1>2 DEF AuctionIdsInOrder
<1>3. ASSUME NEW p \in PositionIds, StartAuction(p)
      PROVE  AuctionIdsInOrder'
  <2>1. PICK x : x = nextAuctionId
    OBVIOUS
  <2>2. /\ x \in AuctionIds /\ nextAuctionId' = x + 1 /\ x \in Nat \ {0}
        /\ positionForAuction' = [positionForAuction EXCEPT ![x] = p]
        /\ auctionForReference' = [auctionForReference EXCEPT ![p] = x]
    BY <1>1, <1>3, <2>1 DEF StartAuction, CanStartAuction, Create, CanCreate
  <2>3. 1..(nextAuctionId' - 1) \subseteq AuctionIds
    BY <2>1, <2>2 DEF AuctionIdsInOrder
  <2>4. ASSUME NEW y \in AuctionIds
        PROVE  positionForAuction'[y] # 0 <=> y < nextAuctionId'
    BY <1>1, <2>1, <2>2, AuctionIdsAssumption DEF AuctionIdsInOrder
  <2>5. ASSUME NEW q \in PositionIds, auctionForReference'[q] # 0
        PROVE  positionForAuction'[auctionForReference'[q]] = q
    <3>1. CASE q = p
      BY <1>1, <2>2, <3>1
    <3>2. CASE q # p
      <4>1. PICK y : y = auctionForReference[q]
        OBVIOUS
      <4>2. auctionForReference'[q] = y /\ y \in AuctionIds /\ positionForAuction[y] = q
        BY <1>1, <2>2, <2>5, <3>2, <4>1 DEF AuctionIdsInOrder
      <4>3. y # x
        BY <1>1, <2>1, <2>2, <4>2 DEF AuctionIdsInOrder
      <4> QED
        BY <1>1, <2>2, <4>2, <4>3
    <3> QED
      BY <3>1, <3>2
  <2> QED
    BY <2>3, <2>4, <2>5 DEF AuctionIdsInOrder
<1> QED
    BY <1>2, <1>3, AuctionSteps

LEMMA AuctionLengthStep ==
    ASSUME IInv, AuctionsTakeTime, [Next]_vars
    PROVE  AuctionsTakeTime'
<1> SUFFICES ASSUME NEW p \in PositionIds PROVE positions'[p].closeout.auctionDuration > 0
    BY DEF AuctionsTakeTime
<1>1. PositionStep(p) /\ positions \in [PositionIds -> Position]
    BY PositionSteps DEF IInv, TypeOK
<1>2. CASE \E a \in Account, o \in OfferIds : \E fill \in 1..offers[o].targetPrincipal :
              positions'[p] = NewPosition(a, o, fill)
  <2>1. positions'[p].closeout = SnapshotOf(risk)
    BY <1>2 DEF NewPosition
  <2>2. risk.auctionDuration > 0
    BY RiskAssumption DEF IInv, TypeOK, RiskTypeOK, ValidRisk
  <2> QED
    BY <2>1, <2>2 DEF SnapshotOf
<1>3. CASE StartAuction(p)
    BY <1>3, AuctionedPosition DEF AuctionsTakeTime
<1>4. CASE \E status \in Closed : positions'[p] = [positions[p] EXCEPT !.status = status]
  <2>1. positions'[p].closeout = positions[p].closeout
    BY <1>1, <1>4 DEF Position
  <2> QED
    BY <2>1 DEF AuctionsTakeTime
<1> QED
    BY <1>1, <1>2, <1>3, <1>4 DEF PositionStep, AuctionsTakeTime

\* While a position waits for its auction, there is an id left for it.
LEMMA AuctionIdLeft ==
    ASSUME IInv, AuctionIdsInOrder, NEW p \in PositionIds, positions[p].status = "ACTIVE"
    PROVE  nextAuctionId \in AuctionIds
<1> DEFINE used == 1..(nextAuctionId - 1)
           f == [x \in used |-> positionForAuction[x]]
<1>1. /\ positionForAuction \in [AuctionIds -> PositionIds \cup {0}]
      /\ nextAuctionId \in Nat \ {0} /\ used \subseteq AuctionIds
    BY DEF IInv, TypeOK, AuctionTypeOK, AuctionIdsInOrder
<1>2. ASSUME NEW x \in used
      PROVE  /\ f[x] \in PositionIds \ {p}
             /\ auctionForReference[f[x]] = x
  <2>1. f[x] = positionForAuction[x] /\ x \in AuctionIds /\ positionForAuction[x] # 0
    BY <1>1 DEF AuctionIdsInOrder
  <2>2. positionForAuction[x] # p
    BY <2>1, ActiveHasNoAuction
  <2>3. auctionForReference[positionForAuction[x]] = x
    BY <2>1 DEF IInv, RecordsInv, CloseoutInv, AuctionAgreement
  <2> QED
    BY <1>1, <2>1, <2>2, <2>3
<1> HIDE DEF used
<1>3. f \in Injection(used, PositionIds \ {p})
  <2>1. f \in [used -> PositionIds \ {p}]
    BY <1>2
  <2>2. \A x, y \in used : f[x] = f[y] => x = y
    BY <1>2
  <2> QED
    BY <2>1, <2>2 DEF Injection, IsInjective
<1>4. /\ IsFiniteSet(PositionIds \ {p})
      /\ Cardinality(PositionIds \ {p}) = Cardinality(PositionIds) - 1
      /\ Cardinality(PositionIds) \in Nat
    BY VaultAssumption, FS_RemoveElement, FS_CardinalityType
<1>5. Cardinality(used) <= Cardinality(PositionIds) - 1
  <2> HIDE DEF f
  <2> QED
    BY <1>3, <1>4, FS_Injection
<1>6. Cardinality(used) = nextAuctionId - 1
    BY <1>1, FS_Interval DEF used
<1>7. nextAuctionId \in 1..Cardinality(PositionIds)
    BY <1>1, <1>4, <1>5, <1>6
<1> QED
    BY <1>7, AuctionIdsSuffice

\* With a fresh price anybody can start the auction of a position in default.
LEMMA AuctionCanStart ==
    ASSUME IInv, DeadlineAfterMaturity, PositionsEstablished, AuctionIdsInOrder,
           AuctionsTakeTime, NEW p \in PositionIds, DefaultOpen(positions[p]),
           PriceIsFresh(positions[p].closeout.maxOracleAge)
    PROVE  CanStartAuction(p)
<1> DEFINE debt == Payoff(positions[p], now)
           value == CollateralValue(positions[p].collateralAmount, valuation.price)
<1>1. PICK position \in Position : position = positions[p]
    BY DEF IInv, TypeOK
<1>2. /\ position.status = "ACTIVE" /\ now > position.repaymentDeadline /\ now \in Nat
      /\ position.collateralAmount \in Nat /\ position.collateralAmount > 0
      /\ position.seller \in Account /\ position.acceptedAt <= now
      /\ position.maturity \in Nat /\ position.repaymentDeadline \in Nat
      /\ position.maturity <= position.repaymentDeadline
    BY <1>1 DEF DefaultOpen, IInv, TypeOK, RecordsInv, CloseoutInv, PositionSound, Position,
                DeadlineAfterMaturity
<1>3. PayoffDefined(position, now)
    BY <1>2 DEF PayoffDefined
<1>4. debt \in Nat
    BY <1>1, <1>2, <1>3, PayoffType
<1>5. value \in Nat
  <2>1. valuation.price \in Nat
    BY DEF IInv, TypeOK, FeedTypeOK, Valuation
  <2> QED
    BY <1>1, <1>2, <2>1, CollateralValueType
<1>6. PICK x \in AuctionIds : x = nextAuctionId
    BY <1>1, <1>2, AuctionIdLeft
<1>7. positionForAuction[x] = 0
    BY <1>6, AuctionIdsAssumption DEF AuctionIdsInOrder
<1>8. auctionLocked[x].owner = NoAccount
    BY <1>7 DEF IInv, RecordsInv, CloseoutInv, AuctionCustody, EmptyBucket
<1>9. positionLocked[p] = FullBucket(position.seller, position.collateralAmount)
    BY <1>1, <1>2 DEF IInv, RecordsInv, CloseoutInv, PositionCustody
<1>10. auctionForReference[p] = 0
  <2>1. auctionForReference[p] \in AuctionIds \cup {0}
    BY MarketAssumption DEF IInv, TypeOK, AuctionTypeOK
  <2> QED
    BY <1>1, <1>2, <2>1, ActiveHasNoAuction DEF AuctionIdsInOrder
<1>11. AuctionLength(position) > 0 /\ asset.configured
    BY <1>1, <1>2 DEF AuctionsTakeTime, AuctionLength, PositionsEstablished
<1> HIDE DEF debt, value
<1>12. /\ AuctionFloor(position, value) \in Nat /\ AuctionFloor(position, value) > 0
       /\ AuctionFloor(position, value) <= AuctionStart(position, value, debt)
  <2>1. AuctionStart(position, value, debt) \in Nat /\ AuctionFloor(position, value) \in Nat
    BY <1>4, <1>5, AuctionPriceType
  <2>2. MulDiv(value, position.closeout.auctionFloorBps, BPS_DENOMINATOR) \in Nat
    BY <1>5, MulDivType, ScalesAssumption DEF Position, CloseoutTerms
  <2>3. MulDivCeil(value, position.closeout.auctionStartBps, BPS_DENOMINATOR) \in Nat
    BY <1>5, MulDivType, ScalesAssumption DEF Position, CloseoutTerms
  <2>4. PICK floor \in Nat : floor = AuctionFloor(position, value)
    BY <2>1
  <2>5. floor > 0
    BY <2>2, <2>4 DEF AuctionFloor, Max2
  <2>6. floor <= AuctionStart(position, value, debt)
    BY <1>4, <2>3, <2>4 DEF AuctionStart, Max2
  <2> QED
    BY <2>4, <2>5, <2>6
<1>13. CanCreate(p, position.collateralAmount, AuctionStart(position, value, debt),
                 AuctionFloor(position, value), AuctionLength(position))
    BY <1>2, <1>6, <1>10, <1>11, <1>12 DEF CanCreate
<1>14. Owns(positionLocked[p], position.seller) /\ positionLocked[p].amount > 0
    BY <1>2, <1>9, AccountAssumption DEF Owns, FullBucket
<1> QED
    BY <1>1, <1>3, <1>6, <1>8, <1>11, <1>13, <1>14 DEF CanStartAuction, debt, value

\* A position's collateral lies in its bucket, for its seller.
LEMMA PositionHeld ==
    ASSUME IInv, NEW p \in PositionIds, positions[p].status = "ACTIVE"
    PROVE  Owns(positionLocked[p], positions[p].seller) /\ positionLocked[p].amount > 0
<1>1. /\ positions[p].seller \in Account /\ positions[p].collateralAmount > 0
      /\ positionLocked[p] = FullBucket(positions[p].seller, positions[p].collateralAmount)
    BY DEF IInv, RecordsInv, CloseoutInv, PositionSound, PositionCustody
<1> QED
    BY <1>1, AccountAssumption DEF Owns, FullBucket

\* Without one, its lender can have the collateral.
LEMMA DefaultResolvable ==
    ASSUME IInv, DeadlineAfterMaturity, PositionsEstablished, AuctionIdsInOrder,
           AuctionsTakeTime, VaultSolvent
    PROVE  DefaultAlwaysResolvable
<1> SUFFICES ASSUME NEW p \in PositionIds, positions[p].status = "ACTIVE",
                    now > positions[p].repaymentDeadline
                             + positions[p].closeout.staleOracleFallbackDelay,
                    positions[p].buyer \in compliant
             PROVE  \/ CanStartAuction(p)
                    \/ CanClaimCollateralOnOracleFailure(positions[p].buyer, p, positions[p].buyer)
    BY DEF DefaultAlwaysResolvable
<1>1. CASE PriceIsFresh(positions[p].closeout.maxOracleAge)
  <2>1. /\ positions[p].repaymentDeadline \in Nat /\ now \in Nat
        /\ positions[p].closeout.staleOracleFallbackDelay \in Nat
    BY DEF IInv, TypeOK, Position, CloseoutTerms
  <2>2. DefaultOpen(positions[p])
    BY <2>1 DEF DefaultOpen
  <2> QED
    BY <1>1, <2>2, AuctionCanStart
<1>2. CASE ~PriceIsFresh(positions[p].closeout.maxOracleAge)
  <2>1. positionLocked[p].amount > 0
    BY PositionHeld
  <2>2. CanPayOut(positionLocked[p].amount)
    BY HeldCanBePaid DEF IInv, TypeOK
  <2> QED
    BY <1>2, <2>1, <2>2 DEF CanClaimCollateralOnOracleFailure, FallbackOpen
<1> QED
    BY <1>1, <1>2

\* What an open offer has not handed over lies in its bucket, for its seller.
LEMMA OffersCancel ==
    ASSUME IInv, NEW o \in OfferIds, offers[o].status \in Fillable
    PROVE  CanCancelOffer(offers[o].seller, o)
<1>1. PICK offer \in Offer : offer = offers[o]
    BY DEF IInv, TypeOK
<1>2. PICK unallocated \in Int : unallocated = offer.totalCollateral - offer.allocatedCollateral
    BY DEF Offer
<1>3. offer.seller \in Account /\ offerReserved[o] = FullBucket(offer.seller, unallocated)
    BY <1>1, <1>2 DEF IInv, RecordsInv, OffersInv, OfferSound, OfferCustody, Fillable
<1>4. /\ Owns(offerReserved[o], offer.seller)
      /\ unallocated > 0 => CanDebitBucket(offerReserved[o], unallocated)
    BY <1>3, AccountAssumption DEF Owns, CanDebitBucket, FullBucket
<1> QED
    BY <1>1, <1>2, <1>4 DEF CanCancelOffer, CanCloseOffer

\* Whatever the vault holds for its owners is of a configured asset.
HoldingsConfigured == totalAccounted > 0 => asset.configured

LEMMA HoldingsStep ==
    ASSUME IInv, HoldingsConfigured, [Next]_vars
    PROVE  HoldingsConfigured'
<1> DEFINE kept == totalAccounted' <= totalAccounted
<1>0. totalAccounted \in Nat /\ positionLocked \in [PositionIds -> Bucket]
      /\ auctionLocked \in [AuctionIds -> Bucket]
    BY DEF IInv, TypeOK, VaultTypeOK
<1>1. ASSUME NEW n \in Nat, NEW b, PayOut(b, n) PROVE kept
    BY <1>0, <1>1 DEF PayOut
<1>2. UNCHANGED vaultVars \/ UNCHANGED totalAccounted => kept
    BY <1>0 DEF vaultVars
<1>3. ASSUME NEW x \in AuctionIds, NEW b, ReleaseAuction(x, b) PROVE kept
  <2>1. auctionLocked[x].amount \in Nat
    BY <1>0, BucketFields
  <2> QED
    BY <1>1, <1>3, <2>1 DEF ReleaseAuction
<1>4. ASSUME NEW p \in PositionIds, NEW b, SeizePosition(p, b) PROVE kept
  <2>1. positionLocked[p].amount \in Nat
    BY <1>0, BucketFields
  <2> QED
    BY <1>1, <1>4, <2>1 DEF SeizePosition
<1> HIDE DEF kept
<1>5. Tick \/ UNCHANGED vars \/ InvalidateValuation \/ ChangeCompliance \/ GovernRisk
         \/ Administer => kept
    BY <1>2 DEF Tick, vars, InvalidateValuation, ChangeCompliance, GovernRisk, Administer
<1>6. ASSUME NEW a, NEW n, DepositCollateral(a, n) PROVE asset'.configured
    BY <1>6 DEF DepositCollateral, CanDepositCollateral, EntryAssetOpen, marketVars, adminVars
<1>7. ASSUME NEW a, NEW n \in Amounts, NEW b, WithdrawCollateral(a, n, b) PROVE kept
    BY <1>1, <1>7, VaultAssumption DEF WithdrawCollateral, WithdrawTo
<1>8. ASSUME NEW a, NEW q PROVE CreateOffer(a, q) => kept
    BY <1>2 DEF CreateOffer, ReserveOffer, tokensUnchanged
<1>9. ASSUME NEW a, NEW o, NEW fill, NEW limit PROVE FillOffer(a, o, fill, limit) => kept
    BY <1>2 DEF FillOffer, AllocatePosition, tokensUnchanged
<1>10. ASSUME NEW o, NEW status PROVE CloseOffer(o, status) => kept
    BY <1>2 DEF CloseOffer, ReleaseOffer, tokensUnchanged
<1>11. ASSUME NEW a, NEW p, NEW limit, NEW useEscrow
       PROVE  Repurchase(a, p, limit, useEscrow) => kept
    BY <1>2 DEF Repurchase, ReleasePosition, tokensUnchanged
<1>12. ASSUME NEW p PROVE StartAuction(p) => kept
    BY <1>2 DEF StartAuction, AllocateAuction, tokensUnchanged
<1>13. ASSUME NEW a, NEW x \in AuctionIds, NEW limit PROVE BuyAuction(a, x, limit) => kept
    BY <1>3 DEF BuyAuction
<1>14. ASSUME NEW x PROVE FinalizeFailedAuction(x) => kept
    BY <1>2 DEF FinalizeFailedAuction
<1>15. ASSUME NEW a, NEW b, NEW p \in PositionIds, ClaimDefaultCollateral(a, p, b) PROVE kept
  <2>1. positions[p].auctionId \in AuctionIds
    BY <1>15 DEF ClaimDefaultCollateral, IInv, RecordsInv, CloseoutInv, PositionSound
  <2> QED
    BY <1>3, <1>15, <2>1 DEF ClaimDefaultCollateral
<1>16. ASSUME NEW a, NEW b, NEW p \in PositionIds
       PROVE  ClaimCollateralOnOracleFailure(a, p, b) => kept
    BY <1>4 DEF ClaimCollateralOnOracleFailure
<1>17. ASSUME NEW a, NEW c, NEW n, NEW b PROVE EscrowClaim(a, c, n, b) => kept
    BY <1>2 DEF EscrowClaim
<1>18. ASSUME NEW price, NEW observedAt, NEW v, NEW t
       PROVE  SubmitValuation(price, observedAt, v, t) => kept
    BY <1>2 DEF SubmitValuation
<1>19. kept \/ asset'.configured
    BY <1>5, <1>6, <1>7, <1>8, <1>9, <1>10, <1>11, <1>12, <1>13, <1>14, <1>15, <1>16, <1>17, <1>18
       DEF Next, CancelOffer, FinalizeOfferExpiry
<1>20. CASE totalAccounted > 0
    BY <1>20, ConfiguredStays DEF HoldingsConfigured
<1>21. CASE ~(totalAccounted > 0)
  <2>1. totalAccounted' \in Nat
    BY NextInvariant DEF IInv, TypeOK, VaultTypeOK
  <2> QED
    BY <1>0, <1>19, <1>21, <2>1 DEF HoldingsConfigured, kept
<1> QED
    BY <1>20, <1>21

LEMMA ExitsOpen ==
    ASSUME IInv, PositionsEstablished, VaultSolvent, EscrowBacked,
           HoldingsConfigured
    PROVE  ExitsStayOpen
<1>0. compliant \subseteq Account /\ book \in Book
    BY DEF IInv, TypeOK, EscrowTypeOK
<1>1. ASSUME NEW a \in compliant, availableBalance[a] > 0
      PROVE  CanWithdrawCollateral(a, availableBalance[a], a)
  <2>1. CanPayOut(availableBalance[a]) /\ availableBalance[a] \in Nat
    BY <1>0, HeldCanBePaid DEF IInv, TypeOK, VaultTypeOK
  <2>2. asset.configured
    BY <1>1, <2>1 DEF CanPayOut, HoldingsConfigured, IInv, TypeOK, VaultTypeOK
  <2> QED
    BY <1>0, <1>1, <2>1, <2>2 DEF CanWithdrawCollateral, CanDebitAvailable
<1>2. ASSUME NEW p \in PositionIds, PayoffDefined(positions[p], now),
             positions[p].seller \in compliant,
             CanPay(book, positions[p].seller, Payoff(positions[p], now))
      PROVE  CanRepurchase(positions[p].seller, p, Payoff(positions[p], now), TRUE)
  <2>1. positions[p].status = "ACTIVE"
    BY <1>2 DEF PayoffDefined
  <2>2. PICK payoff \in Nat : payoff = Payoff(positions[p], now)
    BY <1>2, PayoffType DEF IInv, TypeOK
  <2>3. CanRecordClaims(PaidToEscrow(book, positions[p].seller, payoff), payoff)
    BY <1>0, <1>2, PaidInIsClaimable DEF EscrowBacked
  <2> QED
    BY <1>2, <2>1, <2>2, <2>3, PositionHeld DEF CanRepurchase
<1> QED
    BY <1>1, <1>2, OffersCancel DEF ExitsStayOpen

(***************************************************************************)
(* Neither side is ever locked in, whatever governance, the oracle or the  *)
(* validators have done: a lender can always close out a default, a seller *)
(* take back an open offer or repay, and an owner withdraw.                *)
(***************************************************************************)
THEOREM NobodyIsLockedOut == Spec => []WaysOutStayOpen
<1> DEFINE Agreed == DeadlineAfterMaturity /\ AuctionsTakeTime
           Ways == PositionsEstablished /\ AuctionIdsInOrder /\ HoldingsConfigured
<1>1. Init => Agreed /\ Ways
  <2> SUFFICES ASSUME Init PROVE Agreed /\ Ways
    OBVIOUS
  <2>1. /\ positions = [p \in PositionIds |-> NoPosition] /\ totalAccounted = 0
        /\ positionForAuction = [x \in AuctionIds |-> 0] /\ nextAuctionId = 1
        /\ auctionForReference = [p \in PositionIds |-> 0]
    BY MarketAssumption DEF Init, VaultInit, AuctionInit
  <2>2. \A x \in AuctionIds : ~(x < 1)
    BY AuctionIdsAssumption
  <2>3. \A p \in PositionIds : positions[p] = NoPosition
    BY <2>1
  <2>4. AuctionsTakeTime
    BY <2>3, RiskAssumption DEF AuctionsTakeTime, NoPosition, SnapshotOf, ValidRisk
  <2>5. DeadlineAfterMaturity /\ PositionsEstablished
    BY <2>3 DEF DeadlineAfterMaturity, PositionsEstablished, NoPosition
  <2>6. AuctionIdsInOrder /\ HoldingsConfigured
    BY <2>1, <2>2 DEF AuctionIdsInOrder, HoldingsConfigured
  <2> QED
    BY <2>4, <2>5, <2>6
<1>2. IInv /\ Agreed /\ Ways /\ [Next]_vars => Agreed' /\ Ways'
    BY DeadlineStep, AuctionLengthStep, EstablishedStep, AuctionIdsStep, HoldingsStep
<1>3. IInv /\ Agreed /\ Ways /\ BooksBalance => WaysOutStayOpen
    BY DefaultResolvable, ExitsOpen DEF BooksBalance, WaysOutStayOpen
<1> HIDE DEF Agreed, Ways
<1> QED
    BY <1>1, <1>2, <1>3, Invariance, MarketBooksBalance, PTL DEF Spec

-----------------------------------------------------------------------------
(* What the API prepares, the contracts execute.                            *)

\* The gates of entry the API asks about are the contracts'.
LEMMA EntryGates ==
    ASSUME VaultOpenForEntry
    PROVE  ~entryPaused /\ EntryAssetOpen
BY DEF VaultOpenForEntry, MarketEntryConfigured, EntryAssetOpen

LEMMA RiskPasses ==
    ASSUME IInv, NEW principal \in Nat, NEW collateral \in Nat,
           RiskReasons(principal, collateral) = {}
    PROVE  /\ risk.enabled
           /\ PriceIsFresh(risk.maxOracleAge)
           /\ WithinLtv(principal, CollateralValue(collateral, valuation.price),
                        risk.initialLtvBps)
<1> DEFINE value == CollateralValueQuoted(collateral, valuation.price)
<1>1. PICK disabled, stale, exceeded :
         /\ disabled = ~risk.enabled /\ stale = ~PriceIsFresh(risk.maxOracleAge)
         /\ exceeded = (/\ PriceIsFresh(risk.maxOracleAge)
                         /\ LtvExceeded(principal, value, risk.initialLtvBps))
    OBVIOUS
<1>2. PICK checks : checks = [ASSET_NOT_ALLOWED |-> disabled, ORACLE_STALE |-> stale,
                              LTV_LIMIT_EXCEEDED |-> exceeded]
    OBVIOUS
<1>3. Blocking(checks) = {}
    BY <1>1, <1>2 DEF RiskReasons
<1>4. ~disabled /\ ~stale /\ ~exceeded
    BY <1>2, <1>3, NothingBlocks
<1>5. /\ risk.enabled /\ PriceIsFresh(risk.maxOracleAge)
      /\ ~LtvExceeded(principal, value, risk.initialLtvBps)
    BY <1>1, <1>4, Zenon
<1>6. value = CollateralValue(collateral, valuation.price)
    BY DEF CollateralValueQuoted, CollateralValue
<1>7. valuation.price \in Nat /\ risk.initialLtvBps \in Nat
    BY DEF IInv, TypeOK, FeedTypeOK, Valuation, RiskTypeOK, ValidRisk, RiskConfig
<1>8. value \in Nat
    BY <1>6, <1>7, CollateralValueType
<1> HIDE DEF value
<1> QED
    BY <1>5, <1>6, <1>7, <1>8, QuotedWithinLtv

LEMMA DepositsApproved ==
    ASSUME IInv, now <= EntryHorizon
    PROVE  DepositsExecute
<1> SUFFICES ASSUME NEW a \in Account, NEW n \in Amounts,
                    DepositPreflight(a, n, n).reasons = {}
             PROVE  CanDepositCollateral(a, n)
    BY DEF DepositsExecute
<1>1. PICK none, unlisted, closed :
         none = (n <= 0) /\ unlisted = ~Api.listed /\ closed = ~VaultOpenForEntry
    OBVIOUS
<1>2. PICK checks : checks = [INVALID_FILL_AMOUNT |-> none, ASSET_NOT_ALLOWED |-> unlisted,
                              VAULT_NOT_AUTHORIZED |-> closed]
    OBVIOUS
<1>3. /\ Blocking(checks) = {} /\ FundsReasons(cva[a], n, n) = {}
      /\ EvaluateEdges({Edge(Cva, a, Vault)}) = {}
    BY <1>1, <1>2 DEF DepositPreflight, Prepared
<1>4. ~none /\ ~closed
    BY <1>2, <1>3, NothingBlocks
<1>5. ~(n <= 0) /\ VaultOpenForEntry
    BY <1>1, <1>4, Zenon
<1>6. n \in Nat /\ cva[a] \in Nat
    BY VaultAssumption DEF IInv, TypeOK, VaultTypeOK
<1>7. n <= cva[a] /\ a \in compliant
    BY <1>3, <1>6, FundsHeld, EdgeAdmits
<1> QED
    BY <1>5, <1>6, <1>7, EntryGates DEF CanDepositCollateral, CanDeposit

LEMMA OffersApproved ==
    ASSUME IInv, UnusedRecords, now <= EntryHorizon
    PROVE  OffersExecute
<1> SUFFICES ASSUME NEW a \in Account, NEW q \in OfferParams, nextOfferId \in OfferIds,
                    DepositDeficit(a, q.collateralAmount) = 0,
                    q.annualRateBps <= risk.maxDefaultRateBps,
                    CreateOfferPreflight(a, q, 0).reasons = {}
             PROVE  CanCreateOffer(a, q)
    BY DEF OffersExecute
<1>1. /\ q.collateralAmount \in Nat /\ q.targetPrincipal \in Nat /\ q.minimumFill \in Nat
      /\ q.lifetime \in Int /\ MaxOfferLifetime \in Nat
    BY MarketAssumption
<1>2. PICK fill, expired, late, duration, unlisted, closed :
         /\ fill = (q.minimumFill <= 0 \/ q.minimumFill > q.targetPrincipal)
         /\ expired = (q.lifetime <= 0) /\ late = (q.lifetime > MaxOfferLifetime)
         /\ duration = (q.duration \notin Api.allowedDurations) /\ unlisted = ~Api.listed
         /\ closed = (~VaultOpenForEntry \/ ~Api.feeTreasuryEligible)
    OBVIOUS
<1>3. PICK checks :
         checks = [INVALID_FILL_AMOUNT |-> fill, OFFER_EXPIRED |-> expired,
                   INVALID_OFFER_EXPIRY |-> late, INVALID_DURATION |-> duration,
                   ASSET_NOT_ALLOWED |-> unlisted, VAULT_NOT_AUTHORIZED |-> closed]
    OBVIOUS
<1>4. /\ Blocking(checks) = {} /\ RiskReasons(q.targetPrincipal, q.collateralAmount) = {}
      /\ EvaluateParticipants({a}, Cva) = {}
    BY <1>2, <1>3 DEF CreateOfferPreflight, Prepared
<1>5. ~fill /\ ~expired /\ ~late /\ ~duration /\ ~closed
    BY <1>3, <1>4, NothingBlocks
<1>6. /\ ~(q.minimumFill <= 0) /\ ~(q.minimumFill > q.targetPrincipal) /\ ~(q.lifetime <= 0)
      /\ ~(q.lifetime > MaxOfferLifetime) /\ q.duration \in Api.allowedDurations
      /\ VaultOpenForEntry
    BY <1>2, <1>5, Zenon
<1>7. /\ risk.enabled /\ PriceIsFresh(risk.maxOracleAge)
      /\ WithinLtv(q.targetPrincipal, CollateralValue(q.collateralAmount, valuation.price),
                   risk.initialLtvBps)
    BY <1>1, <1>4, RiskPasses
<1>8. q.collateralAmount > 0
  <2>1. valuation.price \in Nat
    BY DEF IInv, TypeOK, FeedTypeOK, Valuation
  <2>2. q.collateralAmount # 0
    BY <1>7, <2>1, WorthlessIsZero DEF WithinLtv
  <2> QED
    BY <1>1, <2>2
<1>9. ValidOfferParams(q)
    BY <1>1, <1>6, <1>8, DurationsAssumption DEF ValidOfferParams
<1>10. CanDebitAvailable(a, q.collateralAmount)
  <2>1. availableBalance[a] \in Nat
    BY DEF IInv, TypeOK, VaultTypeOK
  <2> QED
    BY <1>1, <1>8, <2>1 DEF CanDebitAvailable, DepositDeficit, Max2
<1>11. offerReserved[nextOfferId].owner = NoAccount
  <2>1. offers[nextOfferId].status = "NONE"
    BY DEF UnusedRecords, IInv, TypeOK
  <2> QED
    BY <2>1 DEF IInv, RecordsInv, OffersInv, OfferCustody, Fillable, EmptyBucket
<1>12. a \in compliant
    BY <1>4, ParticipantsAdmitted
<1> QED
    BY <1>6, <1>7, <1>9, <1>10, <1>11, <1>12, EntryGates DEF CanCreateOffer
\* The offer's bucket covers a fill, and the position it makes has no bucket yet.
LEMMA FillAllocates ==
    ASSUME IInv, NEW o \in OfferIds, offers[o].status \in Fillable,
           NEW fill \in 1..(offers[o].targetPrincipal - offers[o].filledPrincipal),
           FillCollateral(offers[o], fill) # 0, nextPositionId \in PositionIds
    PROVE  /\ Owns(offerReserved[o], offers[o].seller)
           /\ CanDebitBucket(offerReserved[o], FillCollateral(offers[o], fill))
           /\ positionLocked[nextPositionId].owner = NoAccount
<1>1. PICK offer \in Offer : offer = offers[o]
    BY DEF IInv, TypeOK
<1>2. /\ offer.seller \in Account /\ offer.totalCollateral > 0 /\ offer.targetPrincipal > 0
      /\ CumulativelyFilled(offer)
      /\ offerReserved[o] =
            FullBucket(offer.seller, offer.totalCollateral - offer.allocatedCollateral)
    BY <1>1 DEF IInv, RecordsInv, OffersInv, OfferSound, OfferCustody, FillsAreCumulative, Fillable
<1>3. PICK filled, locked :
         filled = FilledBy(offer, fill) /\ locked = FillCollateral(offer, fill)
    OBVIOUS
<1>4. /\ locked \in Nat /\ CumulativelyFilled(filled) /\ filled \in Offer
      /\ filled.allocatedCollateral = offer.allocatedCollateral + locked
      /\ offer.filledPrincipal + fill < offer.targetPrincipal
            => filled.allocatedCollateral < offer.totalCollateral
    BY <1>1, <1>2, <1>3, FilledByCumulative
<1>5. locked <= offer.totalCollateral - offer.allocatedCollateral
  <2>1. /\ offer.filledPrincipal \in Nat /\ offer.targetPrincipal \in Nat /\ fill \in Nat
        /\ fill <= offer.targetPrincipal - offer.filledPrincipal
        /\ offer.totalCollateral \in Nat /\ offer.allocatedCollateral \in Nat
    BY <1>1 DEF Offer
  <2>2. CASE offer.filledPrincipal + fill = offer.targetPrincipal
    <3>1. filled.status = "FILLED" /\ filled.totalCollateral = offer.totalCollateral
      BY <1>3, <2>2 DEF FilledBy, Offer
    <3>2. filled.allocatedCollateral = offer.totalCollateral
      BY <1>4, <3>1 DEF CumulativelyFilled
    <3> QED
      BY <1>4, <2>1, <3>2
  <2>3. CASE offer.filledPrincipal + fill < offer.targetPrincipal
    BY <1>4, <2>1, <2>3
  <2>4. \/ offer.filledPrincipal + fill = offer.targetPrincipal
        \/ offer.filledPrincipal + fill < offer.targetPrincipal
    BY <2>1
  <2> QED
    BY <2>2, <2>3, <2>4, Zenon
<1>6. Owns(offerReserved[o], offer.seller) /\ CanDebitBucket(offerReserved[o], locked)
    BY <1>1, <1>2, <1>3, <1>4, <1>5, AccountAssumption DEF Owns, CanDebitBucket, FullBucket
<1>7. positions[nextPositionId].status = "NONE"
    BY DEF IInv, TypeOK, RecordsInv, CloseoutInv, PositionSound
<1>8. positionLocked[nextPositionId].owner = NoAccount
    BY <1>7 DEF IInv, RecordsInv, CloseoutInv, PositionCustody, EmptyBucket
<1> QED
    BY <1>1, <1>3, <1>6, <1>8

\* The buyer's cash covers the proceeds, and after them the fee.
LEMMA FillPays ==
    ASSUME IInv, NEW buyer \in Account, NEW seller \in Account \ {buyer},
           NEW fill \in Nat, NEW fee \in Nat, fee < fill, fill <= book.cash[buyer],
           fee > 0 => feeTreasury \in compliant
    PROVE  /\ CanPay(book, buyer, fill - fee)
           /\ fee > 0 => CanPayOrEscrow(PaidTo(book, buyer, seller, fill - fee), buyer,
                                        feeTreasury, fee)
<1>1. book.cash \in [Account -> Nat] /\ book \in Book
    BY DEF IInv, TypeOK, EscrowTypeOK, Book
<1>2. CanPay(book, buyer, fill - fee)
    BY <1>1 DEF CanPay
<1>3. PaidTo(book, buyer, seller, fill - fee).cash[buyer] = book.cash[buyer] - (fill - fee)
    BY <1>1 DEF PaidTo, Book
<1>4. book.cash[buyer] - (fill - fee) >= fee
    BY <1>1
<1> QED
    BY <1>2, <1>3, <1>4 DEF CanPayOrEscrow, CanPay

LEMMA FillsApproved ==
    ASSUME IInv, now <= EntryHorizon
    PROVE  FillsExecute
<1> SUFFICES ASSUME NEW a \in Account, NEW o \in OfferIds,
                    NEW fill \in 1..offers[o].targetPrincipal, nextPositionId \in PositionIds,
                    FillPreflight(a, o, fill, fill).reasons = {}
             PROVE  CanFillOffer(a, o, fill, FillFee(offers[o], fill))
    BY DEF FillsExecute
<1> DEFINE row == OfferRow(o)
           fee == FillFee(offers[o], fill)
           locked == FillCollateral(offers[o], fill)
           quoted == FillQuoted(row, fill)
<1>1. PICK offer \in Offer : offer = offers[o]
    BY DEF IInv, TypeOK
<1>2. /\ row.status = offer.status /\ row.seller = offer.seller
      /\ row.permittedBuyer = offer.permittedBuyer /\ row.minimumFill = offer.minimumFill
      /\ row.remainingPrincipal = offer.targetPrincipal - offer.filledPrincipal
      /\ row.offerExpiry = offer.offerExpiry
    BY <1>1 DEF OfferRow
<1>3. PICK closed, ended, expired, barred, invalid, below :
         /\ closed = (~VaultOpenForEntry \/ ~Api.feeTreasuryEligible)
         /\ ended = (row.status \notin Fillable) /\ expired = (now > row.offerExpiry)
         /\ barred = (row.permittedBuyer \notin {NoAccount, a} \/ row.seller = a)
         /\ invalid = ~quoted
         /\ below = (fill < row.minimumFill /\ fill # row.remainingPrincipal)
    OBVIOUS
<1>4. PICK checks :
         checks = [VAULT_NOT_AUTHORIZED |-> closed, OFFER_NOT_OPEN |-> ended,
                   OFFER_EXPIRED |-> expired, BUYER_NOT_PERMITTED |-> barred,
                   INVALID_FILL_AMOUNT |-> invalid, BELOW_MINIMUM_FILL |-> below]
    OBVIOUS
<1>5. PICK collateral, charged, proceeds :
         /\ collateral = IF quoted THEN locked ELSE 0
         /\ charged = IF quoted THEN fee ELSE 0
         /\ proceeds = IF quoted THEN fill - charged ELSE 0
    OBVIOUS
<1>6. PICK edges :
         edges = {edge \in {Edge(Settlement, a, row.seller)} : proceeds > 0} \cup
                 {edge \in {Edge(Settlement, a, feeTreasury)} : charged > 0}
    OBVIOUS
<1>7. /\ Blocking(checks) = {} /\ FundsReasons(book.cash[a], fill, fill) = {}
      /\ EvaluateEdges(edges) = {} /\ RiskReasons(fill, collateral) = {}
      /\ EvaluateParticipants({a, row.seller}, Cva) = {}
    BY <1>3, <1>4, <1>5, <1>6 DEF FillPreflight, Prepared
<1>8. ~closed /\ ~ended /\ ~expired /\ ~barred /\ ~invalid /\ ~below
    BY <1>4, <1>7, NothingBlocks
<1>9. /\ VaultOpenForEntry /\ offer.status \in Fillable /\ ~(now > offer.offerExpiry)
      /\ offer.permittedBuyer \in {NoAccount, a} /\ offer.seller # a /\ quoted
      /\ ~(fill < offer.minimumFill) \/ fill = offer.targetPrincipal - offer.filledPrincipal
    BY <1>2, <1>3, <1>8, Zenon
<1>10. collateral = locked /\ charged = fee
    BY <1>5, <1>9
<1>11. fill \in 1..(offer.targetPrincipal - offer.filledPrincipal)
    BY <1>2, <1>9 DEF FillQuoted, FillEconomicsDefined
<1>12. FillFeeQuoted(row, fill, ProtocolFeeBps) = fee
    BY <1>1, <1>2, <1>9, <1>11, FillQuotedAsFilled
<1>13. fee < fill
    BY <1>9, <1>12 DEF FillQuoted, FillEconomicsDefined
<1>14. /\ offer.seller \in Account /\ offer.totalCollateral > 0 /\ offer.targetPrincipal > 0
       /\ CumulativelyFilled(offer)
    BY <1>1, <1>9 DEF IInv, RecordsInv, OffersInv, OfferSound, FillsAreCumulative, Fillable
<1>15. locked \in Nat /\ fee \in Nat /\ fill \in Nat
    BY <1>1, <1>11, <1>14, FilledByCumulative
<1> HIDE DEF row, fee, locked, quoted
<1>16. {a, offer.seller} \subseteq compliant
    BY <1>2, <1>7, ParticipantsAdmitted
<1>17. fill <= book.cash[a]
  <2>1. book.cash[a] \in Nat
    BY DEF IInv, TypeOK, EscrowTypeOK, Book
  <2> QED
    BY <1>7, <1>15, <2>1, FundsHeld
<1>18. fee > 0 => feeTreasury \in compliant
  <2> SUFFICES ASSUME fee > 0 PROVE feeTreasury \in compliant
    OBVIOUS
  <2>1. Edge(Settlement, a, feeTreasury) \in edges
    BY <1>6, <1>10
  <2> QED
    BY <1>7, <2>1, EdgeAdmits DEF IInv, TypeOK
<1>19. /\ risk.enabled /\ PriceIsFresh(risk.maxOracleAge)
       /\ WithinLtv(fill, CollateralValue(locked, valuation.price), risk.initialLtvBps)
    BY <1>7, <1>10, <1>15, RiskPasses
<1>20. locked # 0
  <2>1. valuation.price \in Nat
    BY DEF IInv, TypeOK, FeedTypeOK, Valuation
  <2> QED
    BY <1>19, <2>1, WorthlessIsZero DEF WithinLtv
<1>21. /\ Owns(offerReserved[o], offer.seller) /\ CanDebitBucket(offerReserved[o], locked)
       /\ positionLocked[nextPositionId].owner = NoAccount
    BY <1>1, <1>9, <1>11, <1>20, FillAllocates DEF locked
<1>22. /\ CanPay(book, a, fill - fee)
       /\ fee > 0 => CanPayOrEscrow(PaidTo(book, a, offer.seller, fill - fee), a,
                                    feeTreasury, fee)
    BY <1>9, <1>13, <1>14, <1>15, <1>17, <1>18, FillPays
<1>23. now <= offer.offerExpiry
       /\ (fill >= offer.minimumFill \/ fill = offer.targetPrincipal - offer.filledPrincipal)
    BY <1>9, <1>15 DEF IInv, TypeOK, Offer
<1>24. CanFill(a, offer, fill, fee)
    BY <1>1, <1>9, <1>11, <1>13, <1>15, <1>16, <1>19, <1>23 DEF CanFill, fee, locked
<1> QED
    BY <1>1, <1>9, <1>21, <1>22, <1>24, EntryGates DEF CanFillOffer, fee, locked

LEMMA RepaymentsApproved ==
    ASSUME IInv, EscrowBacked
    PROVE  RepaymentsExecute
<1> SUFFICES ASSUME NEW p \in PositionIds, PayoffDefined(positions[p], now),
                    RepayPreflight(positions[p].seller, p, 0, Payoff(positions[p], now)).reasons
                        = {}
             PROVE  CanRepurchase(positions[p].seller, p, Payoff(positions[p], now),
                                  PaysIntoEscrow(PositionRow(p)))
    BY DEF RepaymentsExecute
<1> DEFINE row == PositionRow(p)
           payee == IF PaysIntoEscrow(row) THEN Escrow ELSE row.buyer
<1>1. PICK position \in Position : position = positions[p]
    BY DEF IInv, TypeOK
<1>2. position.status = "ACTIVE"
    BY <1>1 DEF PayoffDefined
<1>3. PICK owed \in Nat : owed = Payoff(position, now)
    BY <1>1, PayoffType DEF IInv, TypeOK
<1>4. row.seller = position.seller /\ row.buyer = position.buyer
    BY <1>1 DEF PositionRow
<1>5. position.seller \in Account /\ position.buyer \in Account
    BY <1>1, <1>2 DEF IInv, RecordsInv, CloseoutInv, PositionSound
<1>6. /\ FundsReasons(book.cash[position.seller], owed, owed) = {}
      /\ EvaluateEdges({Edge(Settlement, position.seller, payee)}) = {}
    BY <1>1, <1>3, <1>4 DEF RepayPreflight, Prepared
<1> HIDE DEF payee
<1>7. position.seller \in compliant
    BY <1>5, <1>6, EdgeAdmits
<1>8. book \in Book /\ owed <= book.cash[position.seller]
  <2>1. book \in Book /\ book.cash[position.seller] \in Nat
    BY <1>5 DEF IInv, TypeOK, EscrowTypeOK, Book
  <2> QED
    BY <1>3, <1>6, <2>1, FundsHeld
<1>9. PaysIntoEscrow(row) \/ position.buyer \in compliant
    BY <1>4, PassesAdmitted DEF PaysIntoEscrow
<1>10. CanRecordClaims(PaidToEscrow(book, position.seller, owed), owed)
    BY <1>5, <1>8, PaidInIsClaimable DEF EscrowBacked
<1>11. CanPay(book, position.seller, owed)
  <2>1. book.cash[position.seller] \in Nat
    BY <1>5, <1>8 DEF Book
  <2> QED
    BY <1>8, <2>1 DEF CanPay
<1> HIDE DEF row
<1>12. CanRepurchase(position.seller, p, owed, PaysIntoEscrow(row))
    BY <1>1, <1>2, <1>3, <1>7, <1>9, <1>10, <1>11, PositionHeld DEF CanRepurchase
<1> QED
    BY <1>1, <1>3, <1>12 DEF row

(***************************************************************************)
(* What the API prepares, the contracts execute: a deposit, an offer, a    *)
(* fill or a repayment its checks find nothing against succeeds, in every  *)
(* state of entry, admission, risk parameters, oracle and compliance.      *)
(***************************************************************************)
THEOREM PreparedCallsExecute == Spec => []ApprovedCallsExecute
<1>1. IInv /\ MarketBooks /\ BooksBalance => ApprovedCallsExecute
    BY DepositsApproved, OffersApproved, FillsApproved, RepaymentsApproved
       DEF ApprovedCallsExecute, MarketBooks, BooksBalance
<1> QED
    BY <1>1, Invariance, BooksKept, MarketBooksBalance, PTL
=============================================================================
