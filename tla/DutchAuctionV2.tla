--------------------------- MODULE DutchAuctionV2 ---------------------------
(***************************************************************************)
(* The auction house a market deploys: one falling-price auction per       *)
(* reference, decided once, by a sale up to and including endsAt or by a   *)
(* failure after it.  As in the vault, operations are actions that the     *)
(* controller's transaction conjoins.                                      *)
(***************************************************************************)
EXTENDS BlockContext, RwcarMath

CONSTANTS
    References          \* what may be auctioned: position or margin account ids

VARIABLES
    auctions,               \* _auctions
    nextAuctionId,
    auctionForReference     \* 0 where the reference was never auctioned

auctionVars == <<auctions, nextAuctionId, auctionForReference>>

AuctionStatus == {"NONE", "LIVE", "SOLD", "FAILED"}

Auction == [status: AuctionStatus, referenceId: Nat, startedAt: Nat, endsAt: Nat,
            assetAmount: Nat, startPrice: Nat, floorPrice: Nat, salePrice: Nat,
            buyer: Account \cup {NoAccount}]

NoAuction == [status |-> "NONE", referenceId |-> 0, startedAt |-> 0, endsAt |-> 0,
              assetAmount |-> 0, startPrice |-> 0, floorPrice |-> 0, salePrice |-> 0,
              buyer |-> NoAccount]

AuctionInit ==
    /\ auctions = [x \in AuctionIds |-> NoAuction]
    /\ nextAuctionId = 1
    /\ auctionForReference = [r \in References |-> 0]

\* The price of a live auction at time t: linear from start to floor.
PriceAt(auction, t) ==
    IF t >= auction.endsAt
    THEN auction.floorPrice
    ELSE auction.startPrice - MulDiv(auction.startPrice - auction.floorPrice,
                                     t - auction.startedAt,
                                     auction.endsAt - auction.startedAt)

CanCreate(ref, amount, startPrice, floorPrice, duration) ==
    /\ amount > 0
    /\ 0 < floorPrice /\ floorPrice <= startPrice
    /\ duration > 0
    /\ auctionForReference[ref] = 0
    /\ nextAuctionId \in AuctionIds

Create(ref, amount, startPrice, floorPrice, duration) ==
    /\ CanCreate(ref, amount, startPrice, floorPrice, duration)
    /\ auctions' = [auctions EXCEPT ![nextAuctionId] =
                        [status |-> "LIVE", referenceId |-> ref,
                         startedAt |-> now, endsAt |-> now + duration,
                         assetAmount |-> amount, startPrice |-> startPrice,
                         floorPrice |-> floorPrice, salePrice |-> 0, buyer |-> NoAccount]]
    /\ auctionForReference' = [auctionForReference EXCEPT ![ref] = nextAuctionId]
    /\ nextAuctionId' = nextAuctionId + 1

MarkSold(x, buyer, maxPrice) ==
    /\ auctions[x].status = "LIVE"
    /\ now <= auctions[x].endsAt
    /\ PriceAt(auctions[x], now) <= maxPrice
    /\ auctions' = [auctions EXCEPT ![x].status = "SOLD",
                                    ![x].buyer = buyer,
                                    ![x].salePrice = PriceAt(auctions[x], now)]
    /\ UNCHANGED <<nextAuctionId, auctionForReference>>

\* Deviation: the auction is checked but stays LIVE.
MarkFailedQuietly(x) ==
    /\ auctions[x].status = "LIVE"
    /\ now > auctions[x].endsAt
    /\ UNCHANGED auctionVars

MarkFailed(x) ==
    /\ auctions[x].status = "LIVE"
    /\ now > auctions[x].endsAt
    /\ auctions' = [auctions EXCEPT ![x].status = "FAILED"]
    /\ UNCHANGED <<nextAuctionId, auctionForReference>>

AuctionTypeOK ==
    /\ auctions \in [AuctionIds -> Auction]
    /\ nextAuctionId \in Nat \ {0}
    /\ auctionForReference \in [References -> AuctionIds \cup {0}]
=============================================================================
