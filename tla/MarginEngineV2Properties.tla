---------------------- MODULE MarginEngineV2Properties ----------------------
(***************************************************************************)
(* What the cross-margin engine promises the seller and the lenders of a   *)
(* netting set.                                                            *)
(***************************************************************************)
EXTENDS MarginEngineV2, CollateralVaultV2Properties

(***************************************************************************)
(* Types of the engine's variables; amounts never fall below zero, so no   *)
(* checked subtraction of the contract can revert.                         *)
(***************************************************************************)
MarginTypeOK ==
    /\ VaultTypeOK /\ AuctionTypeOK /\ EscrowTypeOK /\ RiskTypeOK /\ FeedTypeOK
    /\ accounts \in [MarginIds -> MarginAccount] /\ nextAccountId \in Nat \ {0}
    /\ exposures \in [ExposureIds -> Exposure] /\ nextExposureId \in Nat \ {0}
    /\ accountForAuction \in [AuctionIds -> MarginIds \cup {0}]
    /\ admission \in [custodyReady: BOOLEAN, enabled: BOOLEAN, entryPaused: BOOLEAN]
    /\ pauseGuardian \in Account
    /\ interventions \in Nat /\ now \in Nat

-----------------------------------------------------------------------------
(* One account and its exposures.                                           *)

ExposuresOf(m, statuses) ==
    {e \in ExposureIds : exposures[e].accountId = m /\ exposures[e].status \in statuses}
FaceDebtOf(set) == SumFunctionOnSet([e \in ExposureIds |-> exposures[e].faceDebt], set)
PrincipalOf(set) == SumFunctionOnSet([e \in ExposureIds |-> exposures[e].principal], set)

Claimed == {"PROCEEDS_CLAIMED", "COLLATERAL_CLAIMED"}
ClosedOut == {"LIQUIDATING", "LIQUIDATED", "AUCTION_FAILED"}

(***************************************************************************)
(* The aggregates that spare the engine a loop over lenders are right:     *)
(* until closeout the total debt and the count are those of the active     *)
(* exposures; from then on the frozen debt is that of all frozen           *)
(* exposures, claimed or not, and the count is of the unclaimed ones; a    *)
(* closed account owes nobody.                                             *)
(***************************************************************************)
AggregatesRight(m) ==
    LET account == accounts[m]
        active == ExposuresOf(m, {"ACTIVE"})
    IN  /\ account.status \in Running \cup {"CLOSED", "NONE"} =>
              /\ account.totalFaceDebt = FaceDebtOf(active)
              /\ account.activeExposureCount = Cardinality(active)
        /\ account.status \in ClosedOut =>
              /\ account.frozenDebt = FaceDebtOf(ExposuresOf(m, {"ACTIVE"} \cup Claimed))
              /\ account.unclaimedExposureCount = Cardinality(active)
        /\ account.status \in {"CLOSED", "NONE"} => active = {}

DebtAddsUp == \A m \in MarginIds : AggregatesRight(m)

(***************************************************************************)
(* A unit of margin collateral is in the bucket the account's status names *)
(* and nowhere else: its own while it runs, the pool of its auction or of  *)
(* its closeout in kind until it is sold or claimed.                       *)
(***************************************************************************)
HeldFor(owner, amount) == IF amount = 0 THEN EmptyBucket ELSE FullBucket(owner, amount)

AccountCustody(m) ==
    marginLocked[m] = IF accounts[m].status \in Running
                      THEN HeldFor(accounts[m].seller, accounts[m].collateralAmount)
                      ELSE EmptyBucket

LiesIn(m, x) ==
    accounts[m].claimPoolId = x /\ accounts[m].status \in {"LIQUIDATING", "AUCTION_FAILED"}
PoolOf(account) ==
    HeldFor(account.seller, IF account.status = "LIQUIDATING" THEN account.collateralAmount
                                                              ELSE account.remainingCollateral)

PoolCustody(x) ==
    /\ (\A m \in MarginIds : ~LiesIn(m, x)) => auctionLocked[x] = EmptyBucket
    /\ \A m \in MarginIds : LiesIn(m, x) => auctionLocked[x] = PoolOf(accounts[m])

MarginCustody ==
    /\ \A m \in MarginIds : AccountCustody(m)
    /\ \A x \in AuctionIds : PoolCustody(x)

(***************************************************************************)
(* The escrow holds, beyond all claims, exactly the lenders' proceeds that *)
(* are not yet claims, over all accounts: no fee, surplus, repayment or    *)
(* claim of one netting set is ever paid out of another's proceeds.        *)
(***************************************************************************)
ProceedsBacked ==
    book.escrowCash - book.totalClaims =
        SumFunction([m \in MarginIds |-> accounts[m].remainingProceeds])

(***************************************************************************)
(* The seller's mandate is not revolving: what was ever funded is the sum  *)
(* of all exposures, repaid or not, stays within the target, at no more    *)
(* than the seller's rate and for the seller's duration, with the fee of   *)
(* one single fill.                                                        *)
(***************************************************************************)
OnTerms(exposure, mandate) ==
    /\ exposure.maturity = exposure.openedAt + mandate.duration
    /\ exposure.openedAt <= mandate.fundingExpiry
    /\ exposure.faceDebt <= exposure.principal
          + Interest(exposure.principal, mandate.maxAnnualRateBps, mandate.duration)

FundedByMandate(m) ==
    LET account == accounts[m]
        everFunded == ExposuresOf(m, ExposureStatus)
    IN  /\ account.totalFunded = PrincipalOf(everFunded)
        /\ account.totalFunded <= account.mandate.fundingTarget
        /\ account.feeCharged = CumulativeFee(account.totalFunded, ProtocolFeeBps)
        /\ \A e \in everFunded : OnTerms(exposures[e], account.mandate)

MandateKept == \A m \in MarginIds : FundedByMandate(m)

(***************************************************************************)
(* The engine's books: types without underflow, aggregates equal to the    *)
(* sums they stand for, custody by status, the mandate's limits, and       *)
(* proceeds of closeouts that are there to be claimed.                     *)
(***************************************************************************)
MarginBooks == MarginTypeOK /\ DebtAddsUp /\ MarginCustody /\ MandateKept /\ ProceedsBacked

-----------------------------------------------------------------------------
(* Steps.                                                                   *)

(***************************************************************************)
(* A netting set is closed out only for a reason: some exposure of it had  *)
(* passed its deadline when default was declared, the price breaches the   *)
(* liquidation limit, or a margin call was open for the whole cure period  *)
(* and is not cured now.  In kind only after the first, and late.          *)
(***************************************************************************)
Overdue(m, t) ==
    \E e \in ExposuresOf(m, ExposureStatus) : t > exposures[e].maturity + GracePeriod

ClosedOutForAReason(m) ==
    LET account == accounts[m]
        terms == account.snapshot
    IN  \/ account.paymentDefaultDeclared /\ Overdue(m, account.defaultDeclaredAt)
        \/ /\ accounts'[m].status = "LIQUIDATING"
           /\ ~LtvWithin(account, terms.maintenanceLtvBps)
           /\ \/ ~LtvWithin(account, terms.liquidationLtvBps)
              \/ now > account.marginCallDeadline /\ account.marginCallDeadline > terms.marginCallPeriod

LiquidationIsEarned ==
    [][\A m \in MarginIds :
         accounts[m].status \in Running /\ accounts'[m].status \in ClosedOut
         => ClosedOutForAReason(m)]_vars

(***************************************************************************)
(* Recovery is pari passu by face debt: a claimant receives its rounded    *)
(* share, the last one what is left, which is at least its share and less  *)
(* than one unit per lender above it.  After the last claim nothing is     *)
(* left, in proceeds or in collateral.                                     *)
(***************************************************************************)
SharedOut(e, m, pool, before, after, claimants) ==
    LET share == MulDiv(pool, exposures[e].faceDebt, accounts[m].frozenDebt)
        last == ExposuresOf(m, {"ACTIVE"}) = {e}
    IN  /\ before - after >= share
        /\ before - after = share \/ last
        /\ before - after < share + claimants
        /\ last => after = 0

SharedPariPassu(e, m) ==
    LET claimants == Cardinality(ExposuresOf(m, {"ACTIVE"} \cup Claimed))
    IN  IF exposures'[e].status = "PROCEEDS_CLAIMED"
        THEN SharedOut(e, m, accounts[m].liquidationProceeds,
                       accounts[m].remainingProceeds, accounts'[m].remainingProceeds, claimants)
        ELSE SharedOut(e, m, accounts[m].collateralAmount,
                       accounts[m].remainingCollateral, accounts'[m].remainingCollateral,
                       claimants)

PariPassu ==
    [][\A e \in ExposureIds, m \in MarginIds :
         /\ exposures[e].accountId = m
         /\ exposures[e].status = "ACTIVE" /\ exposures'[e].status \in Claimed
         => SharedPariPassu(e, m)]_vars

(***************************************************************************)
(* Margin collateral leaves the engine's custody only if its seller takes  *)
(* it out of free balance or of an account that stays at opening health,   *)
(* or if the account has been closed out.                                  *)
(***************************************************************************)
TakenFromBalance ==
    /\ UNCHANGED <<accounts, marginLocked, auctionLocked>>
    /\ \E a \in compliant :
          availableBalance[a] - availableBalance'[a] = vaultAssets - vaultAssets'

TakenFromAccount(m) ==
    /\ UNCHANGED availableBalance
    /\ accounts[m].status \in Running =>
          LtvWithin(accounts'[m], accounts[m].snapshot.initialLtvBps)
    /\ accounts[m].status \in Running \cup ClosedOut
    /\ accounts[m] # accounts'[m]

MarginCollateralExit ==
    [][vaultAssets' < vaultAssets =>
         TakenFromBalance \/ \E m \in MarginIds : TakenFromAccount(m)]_vars

(***************************************************************************)
(* Collateral is taken from nobody, lender or seller, without a reason.    *)
(***************************************************************************)
CollateralIsKept == LiquidationIsEarned /\ MarginCollateralExit

-----------------------------------------------------------------------------
(* Nobody is locked in.                                                     *)

(***************************************************************************)
(* An overdue exposure never stays unresolved for want of a way: anybody   *)
(* can declare the default, and once it is declared and the fallback delay *)
(* is over either the auction or the closeout in kind is open, whatever    *)
(* the oracle, the price, governance or the pause switch are doing.        *)
(***************************************************************************)
OverdueAlwaysResolvable ==
    \A e \in ExposureIds, m \in MarginIds :
        LET account == accounts[m]
        IN  /\ exposures[e].status = "ACTIVE" /\ exposures[e].accountId = m
            /\ account.status \in Running
            => /\ now > exposures[e].maturity + GracePeriod /\ ~account.paymentDefaultDeclared
                  => CanDeclarePaymentDefault(e, m)
               /\ /\ account.paymentDefaultDeclared
                  /\ now > account.defaultDeclaredAt + account.snapshot.staleOracleFallbackDelay
                  => CanStartMarginLiquidation(m) \/ CanStartInKindOracleFallback(m)

(***************************************************************************)
(* After closeout every lender can claim, in any order: no rounding, zero  *)
(* share or earlier claim leaves a later claimant with a reverting call.   *)
(***************************************************************************)
EveryLenderCanClaim ==
    \A e \in ExposureIds, m \in MarginIds :
        exposures[e].status = "ACTIVE" /\ exposures[e].accountId = m =>
            /\ accounts[m].status = "LIQUIDATED" => CanMaterializeLiquidationClaim(e, m)
            /\ accounts[m].status = "AUCTION_FAILED" /\ exposures[e].lender \in compliant
               => CanClaimFailedCollateral(exposures[e].lender, e, m, exposures[e].lender)

(***************************************************************************)
(* What each lender's claim would take is there whenever he comes: his     *)
(* share of the proceeds in the escrow, beyond every recorded claim, or    *)
(* his share of the unsold collateral in the bucket of his account's pool, *)
(* in the vault's books and in its tokens.                                 *)
(***************************************************************************)
ShareIsCovered(e, m) ==
    LET account == accounts[m]
        proceeds == ProceedsShare(e, m)
        collateral == CollateralShare(e, m)
    IN  /\ account.status = "LIQUIDATED" =>
              proceeds <= account.remainingProceeds /\ CanRecordClaims(book, proceeds)
        /\ account.status = "AUCTION_FAILED" =>
              /\ collateral <= account.remainingCollateral
              /\ collateral <= auctionLocked[account.claimPoolId].amount
              /\ collateral <= totalAccounted /\ collateral <= vaultAssets

EveryShareIsCovered ==
    \A e \in ExposureIds, m \in MarginIds :
        exposures[e].accountId = m /\ exposures[e].status = "ACTIVE" => ShareIsCovered(e, m)

(***************************************************************************)
(* What a closeout leaves reaches its lenders: the debts are added up      *)
(* right, every claim is covered and can be made, and the rest of the pool *)
(* backs the claims still to come.                                         *)
(***************************************************************************)
SharesAreBacked == DebtAddsUp /\ EveryShareIsCovered /\ EveryLenderCanClaim /\ ProceedsBacked

(***************************************************************************)
(* A seller is never locked in either: free collateral can be withdrawn,   *)
(* each exposure of a running account can be repaid, if need be into       *)
(* escrow, and an account without debt can be closed, after a cure if it   *)
(* is under a margin call, with no oracle and no admission needed.         *)
(***************************************************************************)
SellerCanExit ==
    /\ \A a \in compliant :
          availableBalance[a] > 0 => CanWithdrawAvailable(a, availableBalance[a], a)
    /\ \A e \in ExposureIds, m \in MarginIds :
          LET seller == accounts[m].seller
          IN  /\ exposures[e].accountId = m /\ exposures[e].status = "ACTIVE"
              /\ accounts[m].status \in Running
              /\ seller \in compliant /\ CanPay(book, seller, exposures[e].faceDebt)
              => CanRepayExposure(seller, e, m, exposures[e].faceDebt, TRUE)
    /\ \A m \in MarginIds :
          accounts[m].totalFaceDebt = 0 =>
              /\ accounts[m].status = "OPEN" => CanCloseMarginAccount(accounts[m].seller, m)
              /\ accounts[m].status = "MARGIN_CALL" => CanCureMarginCall(m)

(***************************************************************************)
(* Neither the lenders of overdue debt nor a seller are ever locked in.    *)
(***************************************************************************)
NobodyIsLockedIn == OverdueAlwaysResolvable /\ SellerCanExit
=============================================================================
