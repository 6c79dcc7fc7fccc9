------------------------- MODULE CollateralVaultV2 -------------------------
(***************************************************************************)
(* The tri-party vault that holds one CVA asset.  It moves amounts between *)
(* buckets when its controller (RepoMarketV2 or MarginEngineV2) tells it   *)
(* to, and lets tokens out on withdrawal, seizure and auction release.     *)
(*                                                                         *)
(* Each operation is an action on the vault's variables; the controller's  *)
(* action conjoins it, because both run in one transaction: where the      *)
(* contract reverts, the action is disabled and so is the caller's.        *)
(***************************************************************************)
EXTENDS BlockContext

CONSTANTS
    OfferIds, PositionIds, MarginIds,   \* finite prefixes of the id spaces
    InitialCva,     \* the CVA tokens each account holds at the start
    Amounts         \* amounts of collateral a caller may name

ASSUME VaultAssumption ==
    /\ InitialCva \in [Account -> Nat]
    /\ Amounts \subseteq Nat
    /\ IsFiniteSet(OfferIds) /\ IsFiniteSet(PositionIds) /\ IsFiniteSet(MarginIds)

VARIABLES
    availableBalance,   \* free collateral of each owner
    offerReserved,      \* _offerReserved: bucket of each open offer
    positionLocked,     \* _positionLocked: bucket of each active position
    auctionLocked,      \* _auctionLocked: bucket of each auction
    marginLocked,       \* _marginLocked: bucket of each margin account
    totalAccounted,     \* what the vault owes to all buckets together
    vaultAssets,        \* asset.balanceOf(vault)
    cva                 \* asset.balanceOf of every account

bucketVars == <<availableBalance, offerReserved, positionLocked, auctionLocked, marginLocked>>
vaultVars == <<bucketVars, totalAccounted, vaultAssets, cva>>

Bucket == [owner: Account \cup {NoAccount}, amount: Nat]
EmptyBucket == [owner |-> NoAccount, amount |-> 0]
FullBucket(owner, amount) == [owner |-> owner, amount |-> amount]

\* Deviation: any debit deletes the bucket.
DebitedWhole(bucket, amount) == EmptyBucket

\* A bucket after _debitBucket, deleted when nothing is left in it.
Debited(bucket, amount) ==
    IF bucket.amount = amount THEN EmptyBucket ELSE [bucket EXCEPT !.amount = @ - amount]

\* The guards of _debitAvailable, _debitBucket and _requireOwner.
CanDebitAvailable(owner, amount) == amount > 0 /\ availableBalance[owner] >= amount
CanDebitBucket(bucket, amount) == amount > 0 /\ bucket.amount >= amount
Owns(bucket, owner) == owner # NoAccount /\ bucket.owner = owner

Credit(owner, amount) ==
    availableBalance' = [availableBalance EXCEPT ![owner] = @ + amount]
Debit(owner, amount) ==
    /\ CanDebitAvailable(owner, amount)
    /\ availableBalance' = [availableBalance EXCEPT ![owner] = @ - amount]

\* _transferAssetExact together with the write-off of the liability before it.
CanPayOut(amount) == amount <= totalAccounted /\ amount <= vaultAssets
PayOut(recipient, amount) ==
    /\ CanPayOut(amount)
    /\ totalAccounted' = totalAccounted - amount
    /\ vaultAssets' = vaultAssets - amount
    /\ cva' = [cva EXCEPT ![recipient] = @ + amount]

tokensUnchanged == UNCHANGED <<totalAccounted, vaultAssets, cva>>

VaultInit ==
    /\ availableBalance = [a \in Account |-> 0]
    /\ offerReserved = [o \in OfferIds |-> EmptyBucket]
    /\ positionLocked = [p \in PositionIds |-> EmptyBucket]
    /\ auctionLocked = [x \in AuctionIds |-> EmptyBucket]
    /\ marginLocked = [m \in MarginIds |-> EmptyBucket]
    /\ totalAccounted = 0
    /\ vaultAssets = 0
    /\ cva = InitialCva

-----------------------------------------------------------------------------
(* Deposits and withdrawals of free collateral. *)

CanDeposit(owner, amount) == amount > 0 /\ cva[owner] >= amount
DepositFor(owner, amount) ==
    /\ CanDeposit(owner, amount)
    /\ cva' = [cva EXCEPT ![owner] = @ - amount]
    /\ vaultAssets' = vaultAssets + amount
    /\ Credit(owner, amount)
    /\ totalAccounted' = totalAccounted + amount
    /\ UNCHANGED <<offerReserved, positionLocked, auctionLocked, marginLocked>>

WithdrawTo(owner, recipient, amount) ==
    /\ Debit(owner, amount)
    /\ PayOut(recipient, amount)
    /\ UNCHANGED <<offerReserved, positionLocked, auctionLocked, marginLocked>>

-----------------------------------------------------------------------------
(* The isolated-repo buckets: offer, then position, then auction. *)

ReserveOffer(owner, o, amount) ==
    /\ offerReserved[o].owner = NoAccount
    /\ Debit(owner, amount)
    /\ offerReserved' = [offerReserved EXCEPT ![o] = FullBucket(owner, amount)]
    /\ UNCHANGED <<positionLocked, auctionLocked, marginLocked>>
    /\ tokensUnchanged

ReleaseOffer(owner, o, amount) ==
    /\ Owns(offerReserved[o], owner)
    /\ CanDebitBucket(offerReserved[o], amount)
    /\ offerReserved' = [offerReserved EXCEPT ![o] = Debited(@, amount)]
    /\ Credit(owner, amount)
    /\ UNCHANGED <<positionLocked, auctionLocked, marginLocked>>
    /\ tokensUnchanged

AllocatePosition(owner, o, p, amount) ==
    /\ Owns(offerReserved[o], owner)
    /\ positionLocked[p].owner = NoAccount
    /\ CanDebitBucket(offerReserved[o], amount)
    /\ offerReserved' = [offerReserved EXCEPT ![o] = Debited(@, amount)]
    /\ positionLocked' = [positionLocked EXCEPT ![p] = FullBucket(owner, amount)]
    /\ UNCHANGED <<availableBalance, auctionLocked, marginLocked>>
    /\ tokensUnchanged

\* Deviation: the released bucket keeps its entry.
ReleasePositionKept(owner, p) ==
    /\ Owns(positionLocked[p], owner)
    /\ positionLocked[p].amount > 0
    /\ Credit(owner, positionLocked[p].amount)
    /\ UNCHANGED <<offerReserved, positionLocked, auctionLocked, marginLocked>>
    /\ tokensUnchanged

ReleasePosition(owner, p) ==
    /\ Owns(positionLocked[p], owner)
    /\ positionLocked[p].amount > 0
    /\ positionLocked' = [positionLocked EXCEPT ![p] = EmptyBucket]
    /\ Credit(owner, positionLocked[p].amount)
    /\ UNCHANGED <<offerReserved, auctionLocked, marginLocked>>
    /\ tokensUnchanged

SeizePosition(p, recipient) ==
    /\ positionLocked[p].amount > 0
    /\ positionLocked' = [positionLocked EXCEPT ![p] = EmptyBucket]
    /\ PayOut(recipient, positionLocked[p].amount)
    /\ UNCHANGED <<availableBalance, offerReserved, auctionLocked, marginLocked>>

AllocateAuction(owner, p, x) ==
    /\ Owns(positionLocked[p], owner)
    /\ auctionLocked[x].owner = NoAccount
    /\ positionLocked[p].amount > 0
    /\ positionLocked' = [positionLocked EXCEPT ![p] = EmptyBucket]
    /\ auctionLocked' = [auctionLocked EXCEPT ![x] = FullBucket(owner, positionLocked[p].amount)]
    /\ UNCHANGED <<availableBalance, offerReserved, marginLocked>>
    /\ tokensUnchanged

ReleaseAuction(x, recipient) ==
    /\ auctionLocked[x].amount > 0
    /\ auctionLocked' = [auctionLocked EXCEPT ![x] = EmptyBucket]
    /\ PayOut(recipient, auctionLocked[x].amount)
    /\ UNCHANGED <<availableBalance, offerReserved, positionLocked, marginLocked>>

ReleaseAuctionPartial(x, recipient, amount) ==
    /\ CanDebitBucket(auctionLocked[x], amount)
    /\ auctionLocked' = [auctionLocked EXCEPT ![x] = Debited(@, amount)]
    /\ PayOut(recipient, amount)
    /\ UNCHANGED <<availableBalance, offerReserved, positionLocked, marginLocked>>

-----------------------------------------------------------------------------
(* The cross-margin buckets. *)

ReserveMargin(owner, m, amount) ==
    /\ marginLocked[m].owner = NoAccount
    /\ Debit(owner, amount)
    /\ marginLocked' = [marginLocked EXCEPT ![m] = FullBucket(owner, amount)]
    /\ UNCHANGED <<offerReserved, positionLocked, auctionLocked>>
    /\ tokensUnchanged

AddMargin(owner, m, amount) ==
    /\ Owns(marginLocked[m], owner)
    /\ Debit(owner, amount)
    /\ marginLocked' = [marginLocked EXCEPT ![m].amount = @ + amount]
    /\ UNCHANGED <<offerReserved, positionLocked, auctionLocked>>
    /\ tokensUnchanged

ReleaseMargin(owner, m, amount) ==
    /\ Owns(marginLocked[m], owner)
    /\ CanDebitBucket(marginLocked[m], amount)
    /\ marginLocked' = [marginLocked EXCEPT ![m] = Debited(@, amount)]
    /\ Credit(owner, amount)
    /\ UNCHANGED <<offerReserved, positionLocked, auctionLocked>>
    /\ tokensUnchanged

AllocateMarginAuction(owner, m, x) ==
    /\ Owns(marginLocked[m], owner)
    /\ auctionLocked[x].owner = NoAccount
    /\ marginLocked[m].amount > 0
    /\ marginLocked' = [marginLocked EXCEPT ![m] = EmptyBucket]
    /\ auctionLocked' = [auctionLocked EXCEPT ![x] = FullBucket(owner, marginLocked[m].amount)]
    /\ UNCHANGED <<availableBalance, offerReserved, positionLocked>>
    /\ tokensUnchanged

-----------------------------------------------------------------------------
\* A holder may transfer CVA to the vault's address without telling the vault.
DirectTransferToVault(a, amount) ==
    /\ amount > 0
    /\ cva[a] >= amount
    /\ cva' = [cva EXCEPT ![a] = @ - amount]
    /\ vaultAssets' = vaultAssets + amount
    /\ UNCHANGED <<bucketVars, totalAccounted>>

VaultTypeOK ==
    /\ availableBalance \in [Account -> Nat]
    /\ offerReserved \in [OfferIds -> Bucket]
    /\ positionLocked \in [PositionIds -> Bucket]
    /\ auctionLocked \in [AuctionIds -> Bucket]
    /\ marginLocked \in [MarginIds -> Bucket]
    /\ totalAccounted \in Nat
    /\ vaultAssets \in Nat
    /\ cva \in [Account -> Nat]

(***************************************************************************)
(* The vault under any controller: calls in any order with any arguments.  *)
(***************************************************************************)
VaultCall(a, b, n) ==
    \/ DepositFor(a, n)
    \/ WithdrawTo(a, b, n)
    \/ DirectTransferToVault(a, n)
    \/ \E o \in OfferIds : ReserveOffer(a, o, n) \/ ReleaseOffer(a, o, n)
    \/ \E o \in OfferIds, p \in PositionIds : AllocatePosition(a, o, p, n)
    \/ \E p \in PositionIds : ReleasePosition(a, p) \/ SeizePosition(p, b)
    \/ \E p \in PositionIds, x \in AuctionIds : AllocateAuction(a, p, x)
    \/ \E x \in AuctionIds : ReleaseAuction(x, b) \/ ReleaseAuctionPartial(x, b, n)
    \/ \E m \in MarginIds : ReserveMargin(a, m, n) \/ AddMargin(a, m, n) \/ ReleaseMargin(a, m, n)
    \/ \E m \in MarginIds, x \in AuctionIds : AllocateMarginAuction(a, m, x)

=============================================================================
