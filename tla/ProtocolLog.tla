----------------------------- MODULE ProtocolLog -----------------------------
(***************************************************************************)
(* The contracts as the indexer sees them: transactions that change the    *)
(* state of one product and the logs each of them emits.  The rules of the *)
(* transactions are those of RepoMarketV2 and MarginEngineV2 without       *)
(* prices, time and amounts: one unit of principal per fill, one unit of   *)
(* collateral per unit of principal, one unit of debt per exposure, and    *)
(* every timed transition possible at any block.                           *)
(***************************************************************************)
EXTENDS Integers, Sequences, SequencesExt

CONSTANTS
    Target,         \* principal an offer asks for, and the collateral it reserves
    MaxOffers, MaxPositions, MaxExposures,   \* bounds of the contracts' counters
    MaxValuations,  \* bound: accepted attestations and applied risk configurations
    ValuedAssets    \* assets with a price feed

ASSUME LogConstants ==
    /\ {Target, MaxOffers, MaxPositions, MaxExposures, MaxValuations} \subseteq Nat
    /\ ValuedAssets # {}

NoMargin == [status |-> "NONE", debt |-> 0, defaulted |-> FALSE, frozen |-> 0]

Genesis == [offers |-> <<>>, positions |-> <<>>, claims |-> <<>>, account |-> NoMargin,
            exposures |-> <<>>,
            nonce |-> [a \in ValuedAssets |-> 0], invalid |-> [a \in ValuedAssets |-> {}],
            config |-> 0]

Log(source, name, args) == [source |-> source, name |-> name, args |-> args]

-----------------------------------------------------------------------------
(* The collateral vault of the repo market, one seller.                     *)

Sum1(n, f(_)) == FoldLeft(LAMBDA s, i : s + f(i), 0, [i \in 1..n |-> i])

\* What a slot of the vault holds: the free balance, or what one offer, position or
\* auction has of a bucket.
Held(t, bucket, id) ==
    CASE bucket = "OFFER_RESERVED" -> t.offers[id].collateral
      [] bucket = "POSITION_LOCKED" -> IF t.positions[id].status = "ACTIVE" THEN 1 ELSE 0
      [] bucket = "AUCTION_LOCKED" ->
            IF t.positions[id].status \in {"AUCTION", "AUCTION_FAILED"} THEN 1 ELSE 0

InBucket(t, bucket) ==
    Sum1(Len(IF bucket = "OFFER_RESERVED" THEN t.offers ELSE t.positions),
         LAMBDA id : Held(t, bucket, id))

Deposit == MaxOffers * Target
Gone(t) == Sum1(Len(t.positions), LAMBDA p :
               IF t.positions[p].status \in {"LIQUIDATED", "COLLATERAL_CLAIMED"} THEN 1 ELSE 0)
Available(t) ==
    Deposit - Gone(t) - InBucket(t, "OFFER_RESERVED")
        - InBucket(t, "POSITION_LOCKED") - InBucket(t, "AUCTION_LOCKED")

\* The event carries the balance of the slot it names, not that of the bucket.
BalanceChanged(u, bucket, id) ==
    Log("vault", "VaultBalanceChanged",
        [bucket |-> bucket, id |-> id,
         balanceAfter |-> IF bucket = "AVAILABLE" THEN Available(u) ELSE Held(u, bucket, id)])

-----------------------------------------------------------------------------
(* Transactions of the repo market.                                         *)

Fillable == {"OPEN", "PARTIALLY_FILLED"}
HasOffer(t, o) == o \in DOMAIN t.offers
InPosition(t, p, status) == p \in DOMAIN t.positions /\ t.positions[p].status = status

OfferTxs == {[op |-> op, id |-> o] : op \in {"create", "fill", "cancel", "expire"}, o \in 1..MaxOffers}
PositionTxs(ops) == {[op |-> op, id |-> p] : op \in ops, p \in 1..MaxPositions}

\* Lifecycles with an auction, and those in which only the seller's collateral moves.
RepoTxs == OfferTxs \union PositionTxs({"repay", "default", "buy", "fail", "claim"})
CustodyTxs == OfferTxs \union PositionTxs({"repay", "repayEscrowed", "withdraw", "staleClaim"})

RepoAllowed(t, tx) ==
    CASE tx.op = "create" -> tx.id = Len(t.offers) + 1
      [] tx.op = "fill" -> /\ HasOffer(t, tx.id) /\ t.offers[tx.id].status \in Fillable
                           /\ Len(t.positions) < MaxPositions
      [] tx.op \in {"cancel", "expire"} ->
            HasOffer(t, tx.id) /\ t.offers[tx.id].status \in Fillable
      [] tx.op \in {"repay", "repayEscrowed", "default", "staleClaim"} ->
            InPosition(t, tx.id, "ACTIVE")
      [] tx.op = "withdraw" -> \E c \in DOMAIN t.claims : t.claims[c] = [from |-> tx.id, open |-> TRUE]
      [] tx.op \in {"buy", "fail"} -> InPosition(t, tx.id, "AUCTION")
      [] tx.op = "claim" -> InPosition(t, tx.id, "AUCTION_FAILED")

SetPosition(t, p, status) == [t EXCEPT !.positions[p].status = status]

ClaimOf(t, p) == CHOOSE c \in DOMAIN t.claims : t.claims[c].from = p
Claimed(t, p) == [t EXCEPT !.claims = Append(@, [from |-> p, open |-> TRUE])]

Filled(t, o) ==
    LET left == t.offers[o].left - 1
    IN  [t EXCEPT !.offers[o].left = left, !.offers[o].collateral = @ - 1,
                  !.offers[o].status = IF left = 0 THEN "FILLED" ELSE "PARTIALLY_FILLED",
                  !.positions = Append(@, [status |-> "ACTIVE", offer |-> o])]

RepoApply(t, tx) ==
    CASE tx.op = "create" ->
            [t EXCEPT !.offers = Append(@, [status |-> "OPEN", left |-> Target,
                                            collateral |-> Target])]
      [] tx.op = "fill" -> Filled(t, tx.id)
      [] tx.op = "cancel" ->
            [t EXCEPT !.offers[tx.id].status = "CANCELLED", !.offers[tx.id].collateral = 0]
      [] tx.op = "expire" ->
            [t EXCEPT !.offers[tx.id].status = "EXPIRED", !.offers[tx.id].collateral = 0]
      [] tx.op = "repay" -> SetPosition(t, tx.id, "REPAID")
      [] tx.op = "repayEscrowed" -> Claimed(SetPosition(t, tx.id, "REPAID"), tx.id)
      [] tx.op = "withdraw" -> [t EXCEPT !.claims[ClaimOf(t, tx.id)].open = FALSE]
      [] tx.op = "default" -> SetPosition(t, tx.id, "AUCTION")
      [] tx.op = "buy" -> SetPosition(t, tx.id, "LIQUIDATED")
      [] tx.op = "fail" -> SetPosition(t, tx.id, "AUCTION_FAILED")
      [] tx.op \in {"claim", "staleClaim"} -> SetPosition(t, tx.id, "COLLATERAL_CLAIMED")

\* The auction of a position has the position's number; u is the state after the call.
RepoLogs(t, u, tx) ==
    LET id == tx.id
        p == Len(u.positions)
        Repaid == Log("market", "PositionRepaid", [position |-> id])
        Freed(bucket) == <<BalanceChanged(u, bucket, id), BalanceChanged(u, "AVAILABLE", 0)>>
    IN  CASE tx.op = "create" ->
               <<BalanceChanged(u, "AVAILABLE", 0), BalanceChanged(u, "OFFER_RESERVED", id),
                 Log("market", "OfferCreated", [offer |-> id])>>
          [] tx.op = "fill" ->
               <<BalanceChanged(u, "OFFER_RESERVED", id), BalanceChanged(u, "POSITION_LOCKED", p),
                 Log("market", "OfferFilled", [offer |-> id, position |-> p])>>
          [] tx.op = "cancel" ->
               Freed("OFFER_RESERVED") \o <<Log("market", "OfferCancelled", [offer |-> id])>>
          [] tx.op = "expire" ->
               Freed("OFFER_RESERVED") \o <<Log("market", "OfferExpired", [offer |-> id])>>
          [] tx.op = "repay" -> Freed("POSITION_LOCKED") \o <<Repaid>>
          [] tx.op = "repayEscrowed" ->
               <<Log("escrow", "ClaimRecorded", [claim |-> Len(u.claims)])>>
                   \o Freed("POSITION_LOCKED") \o <<Repaid>>
          [] tx.op = "withdraw" ->
               <<Log("escrow", "ClaimWithdrawn", [claim |-> ClaimOf(t, id)])>>
          [] tx.op = "default" ->
               <<Log("house", "AuctionStarted", [auction |-> id, reference |-> id, kind |-> 1]),
                 BalanceChanged(u, "POSITION_LOCKED", id), BalanceChanged(u, "AUCTION_LOCKED", id),
                 Log("market", "PositionDefaulted", [position |-> id, auction |-> id])>>
          [] tx.op = "buy" ->
               <<Log("house", "AuctionSold", [auction |-> id]),
                 BalanceChanged(u, "AUCTION_LOCKED", id),
                 Log("market", "PositionLiquidated", [position |-> id, auction |-> id])>>
          [] tx.op = "fail" ->
               <<Log("house", "AuctionFailed", [auction |-> id]),
                 Log("market", "AuctionFailed", [position |-> id, auction |-> id])>>
          [] tx.op = "claim" ->
               <<BalanceChanged(u, "AUCTION_LOCKED", id),
                 Log("market", "DefaultCollateralClaimed", [position |-> id])>>
          [] tx.op = "staleClaim" ->
               <<BalanceChanged(u, "POSITION_LOCKED", id),
                 Log("market", "StaleOracleCollateralClaimed", [position |-> id])>>

-----------------------------------------------------------------------------
(* Transactions of the margin engine, one account.                          *)

Running == {"HEALTHY", "MARGIN_CALL"}
AccountTxs == {"open", "call", "cure", "liquidate", "buy", "fail", "inKind", "close"}
MarginTxs ==
    {[op |-> op, id |-> 1] : op \in AccountTxs}
        \union {[op |-> op, id |-> e] :
                  op \in {"fund", "repay", "declare", "materialize", "share"},
                  e \in 1..MaxExposures}

ActiveExposure(t, e) == e \in DOMAIN t.exposures /\ t.exposures[e] = "ACTIVE"

MarginAllowed(t, tx) ==
    LET a == t.account
    IN  CASE tx.op = "open" -> a.status = "NONE"
          [] tx.op = "fund" -> a.status = "HEALTHY" /\ tx.id = Len(t.exposures) + 1
          [] tx.op = "repay" -> a.status \in Running /\ ActiveExposure(t, tx.id)
          [] tx.op = "declare" -> a.status \in Running /\ ~a.defaulted /\ ActiveExposure(t, tx.id)
          [] tx.op = "call" -> a.status = "HEALTHY" /\ a.debt > 0
          [] tx.op = "cure" -> a.status = "MARGIN_CALL" /\ ~a.defaulted
          [] tx.op = "liquidate" -> a.status \in Running /\ a.debt > 0
          [] tx.op \in {"buy", "fail"} -> a.status = "LIQUIDATING"
          [] tx.op = "inKind" -> a.status \in Running /\ a.defaulted
          [] tx.op = "materialize" -> a.status = "LIQUIDATED" /\ ActiveExposure(t, tx.id)
          [] tx.op = "share" -> a.status = "AUCTION_FAILED" /\ ActiveExposure(t, tx.id)
          [] tx.op = "close" -> a.status = "HEALTHY" /\ a.debt = 0

MarginApply(t, tx) ==
    CASE tx.op = "open" -> [t EXCEPT !.account.status = "HEALTHY"]
      [] tx.op = "fund" -> [t EXCEPT !.exposures = Append(@, "ACTIVE"), !.account.debt = @ + 1]
      [] tx.op = "repay" ->
            [t EXCEPT !.exposures[tx.id] = "REPAID", !.account.debt = @ - 1,
                      !.account.defaulted = @ /\ t.account.debt > 1]
      [] tx.op = "declare" -> [t EXCEPT !.account.defaulted = TRUE]
      [] tx.op = "call" -> [t EXCEPT !.account.status = "MARGIN_CALL"]
      [] tx.op = "cure" -> [t EXCEPT !.account.status = "HEALTHY"]
      [] tx.op = "liquidate" ->
            [t EXCEPT !.account.status = "LIQUIDATING", !.account.frozen = t.account.debt]
      [] tx.op = "buy" -> [t EXCEPT !.account.status = "LIQUIDATED"]
      [] tx.op = "fail" -> [t EXCEPT !.account.status = "AUCTION_FAILED"]
      [] tx.op = "inKind" ->
            [t EXCEPT !.account.status = "AUCTION_FAILED", !.account.frozen = t.account.debt]
      [] tx.op = "materialize" -> [t EXCEPT !.exposures[tx.id] = "PROCEEDS_CLAIMED"]
      [] tx.op = "share" -> [t EXCEPT !.exposures[tx.id] = "COLLATERAL_CLAIMED"]
      [] tx.op = "close" -> [t EXCEPT !.account.status = "CLOSED"]

\* The account's auction has number 1, its in-kind pool number 0.
MarginLogs(tx) ==
    LET Engine(name, args) == Log("engine", name, args)
        House(name, args) == Log("marginHouse", name, args)
        exposure == [exposure |-> tx.id]
        auction == [auction |-> 1]
    IN  CASE tx.op = "open" -> <<Engine("MarginAccountOpened", <<>>)>>
          [] tx.op = "fund" -> <<Engine("ExposureFunded", exposure)>>
          [] tx.op = "repay" -> <<Engine("ExposureRepaid", exposure)>>
          [] tx.op = "declare" -> <<Engine("PaymentDefaultDeclared", exposure)>>
          [] tx.op = "call" -> <<Engine("MarginCallOpened", <<>>)>>
          [] tx.op = "cure" -> <<Engine("MarginCallCured", <<>>)>>
          [] tx.op = "liquidate" ->
               <<House("AuctionStarted", [auction |-> 1, reference |-> 1, kind |-> 2]),
                 Engine("MarginLiquidationStarted", auction)>>
          [] tx.op = "buy" ->
               <<House("AuctionSold", auction), Engine("MarginLiquidated", auction)>>
          [] tx.op = "fail" ->
               <<House("AuctionFailed", auction), Engine("MarginAuctionFailed", auction)>>
          [] tx.op = "inKind" -> <<Engine("MarginInKindCloseoutStarted", [auction |-> 0])>>
          [] tx.op = "materialize" -> <<Engine("LiquidationProceedsMaterialized", exposure)>>
          [] tx.op = "share" -> <<Engine("LiquidationCollateralClaimed", exposure)>>
          [] tx.op = "close" -> <<Engine("MarginAccountClosed", <<>>)>>

-----------------------------------------------------------------------------
(* Prices and risk parameters.                                              *)

ReferenceTxs ==
    {[op |-> op, id |-> a] : op \in {"publish", "invalidate"}, a \in ValuedAssets}
        \union {[op |-> "configure", id |-> "config"]}

ReferenceAllowed(t, tx) ==
    CASE tx.op = "publish" -> t.nonce[tx.id] < MaxValuations
      [] tx.op = "invalidate" ->
            t.nonce[tx.id] > 0 /\ t.nonce[tx.id] \notin t.invalid[tx.id]
      [] tx.op = "configure" -> t.config < MaxValuations

\* Nonces count per asset.
ReferenceApply(t, tx) ==
    CASE tx.op = "publish" -> [t EXCEPT !.nonce[tx.id] = @ + 1]
      [] tx.op = "invalidate" -> [t EXCEPT !.invalid[tx.id] = @ \union {t.nonce[tx.id]}]
      [] tx.op = "configure" -> [t EXCEPT !.config = @ + 1]

ReferenceLogs(u, tx) ==
    CASE tx.op = "publish" ->
            <<Log("oracle", "ValuationAccepted", [asset |-> tx.id, nonce |-> u.nonce[tx.id]])>>
      [] tx.op = "invalidate" ->
            <<Log("oracle", "ValuationInvalidated", [asset |-> tx.id, nonce |-> u.nonce[tx.id]])>>
      [] tx.op = "configure" -> <<Log("risk", "ConfigApplied", [config |-> u.config])>>

-----------------------------------------------------------------------------
(* One product at a time, for they share no row of the projection; the repo *)
(* market with its vault and escrow apart from the one with its auctions.   *)

Products == {"repo", "custody", "margin", "reference"}

TxsOf(product) ==
    CASE product = "repo" -> RepoTxs
      [] product = "custody" -> CustodyTxs
      [] product = "margin" -> MarginTxs
      [] product = "reference" -> ReferenceTxs

Allowed(product, t, tx) ==
    CASE product \in {"repo", "custody"} -> RepoAllowed(t, tx)
      [] product = "margin" -> MarginAllowed(t, tx)
      [] product = "reference" -> ReferenceAllowed(t, tx)

Apply(product, t, tx) ==
    CASE product \in {"repo", "custody"} -> RepoApply(t, tx)
      [] product = "margin" -> MarginApply(t, tx)
      [] product = "reference" -> ReferenceApply(t, tx)

Logs(product, t, tx) ==
    LET u == Apply(product, t, tx)
    IN  CASE product \in {"repo", "custody"} -> RepoLogs(t, u, tx)
          [] product = "margin" -> MarginLogs(tx)
          [] product = "reference" -> ReferenceLogs(u, tx)
=============================================================================
