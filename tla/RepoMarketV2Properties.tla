----------------------- MODULE RepoMarketV2Properties -----------------------
(***************************************************************************)
(* What the market of RepoMarketV2 promises its users.                     *)
(***************************************************************************)
EXTENDS RepoMarketV2, CollateralVaultV2Properties

(***************************************************************************)
(* Types of the market's variables.                                        *)
(***************************************************************************)
TypeOK ==
    /\ VaultTypeOK /\ AuctionTypeOK /\ EscrowTypeOK /\ RiskTypeOK /\ FeedTypeOK
    /\ offers \in [OfferIds -> Offer] /\ nextOfferId \in Nat \ {0}
    /\ positions \in [PositionIds -> Position] /\ nextPositionId \in Nat \ {0}
    /\ positionForAuction \in [AuctionIds -> PositionIds \cup {0}]
    /\ asset \in [configured: BOOLEAN, enabled: BOOLEAN, ready: BOOLEAN]
    /\ entryPaused \in BOOLEAN
    /\ feeTreasury \in Account /\ pauseGuardian \in Account
    /\ interventions \in Nat /\ now \in Nat

-----------------------------------------------------------------------------
(* Custody: which bucket holds a unit of collateral is decided by the status *)
(* of the offer or position it backs.                                        *)

OfferCustody(o) ==
    offerReserved[o] =
        IF offers[o].status \in Fillable
        THEN FullBucket(offers[o].seller, offers[o].totalCollateral - offers[o].allocatedCollateral)
        ELSE EmptyBucket

PositionCustody(p) ==
    positionLocked[p] =
        IF positions[p].status = "ACTIVE"
        THEN FullBucket(positions[p].seller, positions[p].collateralAmount)
        ELSE EmptyBucket

AuctionCustody(x) ==
    LET p == positionForAuction[x]
    IN  auctionLocked[x] =
            IF p # 0 /\ positions[p].status \in {"AUCTION", "AUCTION_FAILED"}
            THEN FullBucket(positions[p].seller, positions[p].collateralAmount)
            ELSE EmptyBucket

(***************************************************************************)
(* Every bucket of the vault holds exactly the collateral of the offer,    *)
(* position or auction it belongs to, in its owner's name, while that one  *)
(* is open, and nothing once it is closed: whatever the order of fills,    *)
(* cancellation, expiry, repayment and default, no unit is released twice, *)
(* seized after repayment or left behind.                                  *)
(***************************************************************************)
CustodyMatchesStatus ==
    /\ \A o \in OfferIds : OfferCustody(o)
    /\ \A p \in PositionIds : PositionCustody(p)
    /\ \A x \in AuctionIds : AuctionCustody(x)

(***************************************************************************)
(* The market's view of an auction and the auction house's agree: an       *)
(* auction decides one position, and each outcome of one side has exactly  *)
(* its counterpart on the other (RepoMarketV2 and DutchAuctionV2 keep      *)
(* separate status fields).                                                *)
(***************************************************************************)
AuctionAgreement ==
    \A x \in AuctionIds :
        LET p == positionForAuction[x]
        IN  IF p = 0
            THEN auctions[x].status = "NONE"
            ELSE /\ positions[p].auctionId = x
                 /\ auctions[x].referenceId = p
                 /\ auctionForReference[p] = x
                 /\ auctions[x].assetAmount = positions[p].collateralAmount
                 /\ <<auctions[x].status, positions[p].status>> \in
                       {<<"LIVE", "AUCTION">>, <<"SOLD", "LIQUIDATED">>,
                        <<"FAILED", "AUCTION_FAILED">>, <<"FAILED", "COLLATERAL_CLAIMED">>}

\* What an offer has handed over depends on how much of it is filled only.
CumulativelyFilled(offer) ==
    /\ offer.filledPrincipal <= offer.targetPrincipal
    /\ offer.allocatedCollateral =
          AllocatedCollateral(offer.totalCollateral, offer.filledPrincipal, offer.targetPrincipal)
    /\ offer.feeCharged = CumulativeFee(offer.filledPrincipal, ProtocolFeeBps)
    /\ offer.status = "FILLED" <=> offer.filledPrincipal = offer.targetPrincipal
    /\ offer.status = "FILLED" => offer.allocatedCollateral = offer.totalCollateral

(***************************************************************************)
(* However an offer's fills were split, its cumulative collateral and fee  *)
(* are what a single fill of the same principal would have taken, and no   *)
(* dust is left when it is filled (fillOffer's cumulative rounding).       *)
(***************************************************************************)
FillsAreCumulative ==
    \A o \in OfferIds : offers[o].status # "NONE" => CumulativelyFilled(offers[o])

(***************************************************************************)
(* A close-out runs on the terms fixed at the fill, whatever governance    *)
(* has configured since: the auction lasts as long as the position's       *)
(* snapshot says, opens at no less than the frozen debt, and the frozen    *)
(* debt covers principal and scheduled interest.                           *)
(***************************************************************************)
CloseoutOnFillTerms ==
    \A x \in AuctionIds :
        LET position == positions[positionForAuction[x]]
        IN  positionForAuction[x] # 0 =>
            /\ auctions[x].endsAt - auctions[x].startedAt = position.closeout.auctionDuration
            /\ auctions[x].startPrice >= position.frozenDebt
            /\ position.frozenDebt >= position.principalAmount + ScheduledInterest(position)

PositionsOf(o) == {p \in PositionIds : positions[p].offerId = o}

(***************************************************************************)
(* What an offer has handed over is what its positions received: principal *)
(* and collateral add up, so no fill created or lost any.                  *)
(***************************************************************************)
PositionsAddUp ==
    \A o \in OfferIds :
        /\ offers[o].filledPrincipal =
              SumFunctionOnSet([p \in PositionIds |-> positions[p].principalAmount],
                               PositionsOf(o))
        /\ offers[o].allocatedCollateral =
              SumFunctionOnSet([p \in PositionIds |-> positions[p].collateralAmount],
                               PositionsOf(o))

(***************************************************************************)
(* The escrow holds the settlement tokens of every unpaid claim, and its   *)
(* three tallies of them agree: total, per beneficiary, per claim.         *)
(***************************************************************************)
RemainingOf(a) ==
    [c \in DOMAIN book.claims |-> IF book.claims[c].beneficiary = a
                                  THEN book.claims[c].remaining ELSE 0]

EscrowBacked ==
    /\ book.totalClaims <= book.escrowCash
    /\ book.totalClaims = SumFunction(book.claimable)
    /\ \A a \in Account : book.claimable[a] = SumFunction(RemainingOf(a))

(***************************************************************************)
(* The books balance: no amount goes below zero, fills neither create nor  *)
(* lose principal or collateral, and escrow and vault hold what they owe.  *)
(***************************************************************************)
BooksBalance == TypeOK /\ PositionsAddUp /\ EscrowBacked /\ VaultSolvent

-----------------------------------------------------------------------------
(* Steps.                                                                   *)

\* What an account holds of the settlement token, in its wallet and in escrow.
Wealth(b, a) == b.cash[a] + b.claimable[a]

RepaidExactly(p) ==
    LET seller == positions[p].seller
        lender == positions[p].buyer
        payoff == Payoff(positions[p], now)
    IN  /\ payoff >= positions[p].principalAmount
        /\ Wealth(book', lender) - Wealth(book, lender) = payoff
        /\ Wealth(book, seller) - Wealth(book', seller) = payoff
        /\ availableBalance'[seller] - availableBalance[seller] = positions[p].collateralAmount

(***************************************************************************)
(* A repayment costs the seller the payoff, brings the lender all of it in *)
(* wallet or escrow, and frees exactly the position's collateral to the    *)
(* seller, in the same transaction.                                        *)
(***************************************************************************)
RepaidInFull ==
    [][\A p \in PositionIds :
         positions[p].status = "ACTIVE" /\ positions'[p].status = "REPAID"
         => RepaidExactly(p)]_vars

SharedBySeniority(p) ==
    LET lender == positions[p].buyer
        sale == auctions'[positions[p].auctionId]
        gain == [a \in Account |-> book'.claimable[a] - book.claimable[a]]
    IN  /\ SumFunction(gain) = sale.salePrice
        /\ book'.escrowCash - book.escrowCash = sale.salePrice
        /\ sale.salePrice \in sale.floorPrice..sale.startPrice
        /\ sale.salePrice > 0
        /\ gain[lender] >= Min2(sale.salePrice, positions[p].frozenDebt)
        /\ (\E a \in Account \ {lender} : gain[a] > 0)
              => gain[lender] >= positions[p].frozenDebt

(***************************************************************************)
(* A liquidation distributes the whole sale price as claims, nobody but    *)
(* the lender gets any of it before the frozen debt is covered, and the    *)
(* price is at least the auction's positive floor.                         *)
(***************************************************************************)
LenderIsSenior ==
    [][\A p \in PositionIds :
         positions[p].status = "AUCTION" /\ positions'[p].status = "LIQUIDATED"
         => SharedBySeniority(p)]_vars

(***************************************************************************)
(* Collateral leaves the vault in two ways only: its owner withdraws free  *)
(* collateral, or a position whose repayment deadline has passed is closed *)
(* out for exactly its own collateral.  In particular no order of calls    *)
(* lets a third party take collateral before the deadline.                 *)
(***************************************************************************)
CollateralExit ==
    [][vaultAssets' < vaultAssets =>
         \/ \E a \in compliant :
               /\ availableBalance[a] - availableBalance'[a] = vaultAssets - vaultAssets'
               /\ UNCHANGED <<positions, offers>>
         \/ \E p \in PositionIds :
               /\ positions[p].status \in {"ACTIVE", "AUCTION", "AUCTION_FAILED"}
               /\ positions'[p].status \in {"LIQUIDATED", "COLLATERAL_CLAIMED"}
               /\ now > positions[p].repaymentDeadline
               /\ positions[p].collateralAmount = vaultAssets - vaultAssets'
               /\ UNCHANGED availableBalance]_vars

(***************************************************************************)
(* Waiting never pays: while a position stays active its payoff does not   *)
(* fall, through the minimum hold, the break fee, the cap at the scheduled *)
(* interest, maturity and the overdue days.                                *)
(***************************************************************************)
PayoffNeverFalls ==
    [][\A p \in PositionIds :
         /\ positions[p].status = "ACTIVE" /\ positions'[p].status = "ACTIVE"
         /\ PayoffDefined(positions[p], now)
         => Payoff(positions[p], now) <= Payoff(positions'[p], now')]_vars

-----------------------------------------------------------------------------
(* Close-out is always possible, and eventually happens.                    *)

(***************************************************************************)
(* A lender who may hold CVA is never left with no way out: once the       *)
(* fallback delay after the deadline has passed, either anybody can start  *)
(* the auction or the lender can take the collateral in kind, whatever the *)
(* oracle, the price, governance or the pause switch are doing.            *)
(***************************************************************************)
DefaultAlwaysResolvable ==
    \A p \in PositionIds :
        LET position == positions[p]
        IN  /\ position.status = "ACTIVE"
            /\ now > position.repaymentDeadline + position.closeout.staleOracleFallbackDelay
            /\ position.buyer \in compliant
            => \/ CanStartAuction(p)
               \/ CanClaimCollateralOnOracleFailure(position.buyer, p, position.buyer)

(***************************************************************************)
(* The way out is never closed: whatever governance has paused, disabled   *)
(* or left unattested, whatever the oracle says and whoever is suspended,  *)
(* a compliant owner can withdraw free collateral, a seller can cancel an  *)
(* open offer, and a seller who can pay can repay, if need be into escrow. *)
(***************************************************************************)
ExitsStayOpen ==
    /\ \A a \in compliant :
          availableBalance[a] > 0 => CanWithdrawCollateral(a, availableBalance[a], a)
    /\ \A o \in OfferIds :
          offers[o].status \in Fillable => CanCancelOffer(offers[o].seller, o)
    /\ \A p \in PositionIds :
          LET position == positions[p]
          IN  /\ PayoffDefined(position, now)
              /\ position.seller \in compliant
              /\ CanPay(book, position.seller, Payoff(position, now))
              => CanRepurchase(position.seller, p, Payoff(position, now), TRUE)

(***************************************************************************)
(* Neither side is ever locked in: lenders have a way to close out a       *)
(* default and sellers and owners their ways to leave.                     *)
(***************************************************************************)
WaysOutStayOpen == DefaultAlwaysResolvable /\ ExitsStayOpen

(***************************************************************************)
(* Every offer is eventually filled, cancelled or expired, releasing what  *)
(* it reserved: the keeper finalises expiry even if the seller never acts. *)
(***************************************************************************)
OffersClose ==
    \A o \in OfferIds :
        offers[o].status \in Fillable ~> offers[o].status \notin Fillable

(***************************************************************************)
(* A defaulted position does not stay active for ever: it is repaid late,  *)
(* auctioned, or taken in kind, unless its lender is barred from CVA.  The *)
(* clock must outrun the fallback delay before the model's horizon.        *)
(***************************************************************************)
DefaultsResolve ==
    \A p \in PositionIds :
        /\ DefaultOpen(positions[p])
        /\ positions[p].repaymentDeadline + positions[p].closeout.staleOracleFallbackDelay < MaxTime
        ~> positions[p].status # "ACTIVE" \/ positions[p].buyer \notin compliant

(***************************************************************************)
(* An auction that ends within the model's horizon ends in a sale, or      *)
(* fails and its collateral goes to a lender who is allowed to hold it.    *)
(***************************************************************************)
AuctionsSettle ==
    \A x \in AuctionIds, p \in PositionIds :
        InAuction(x, p) /\ auctions[x].endsAt < MaxTime
        ~> \/ positions[p].status \in {"LIQUIDATED", "COLLATERAL_CLAIMED"}
           \/ positions[p].buyer \notin compliant

(***************************************************************************)
(* Every close-out ends: a default is resolved, and so is its auction.     *)
(***************************************************************************)
CloseoutEnds == DefaultsResolve /\ AuctionsSettle
=============================================================================
