----------------------------- MODULE V2Projector -----------------------------
(***************************************************************************)
(* The projector (apps/indexer/src/v2-projector.ts): what one log of the   *)
(* V2 contracts does to the tables, in the database transaction that also  *)
(* records the log.  A handler that needs a row it does not find throws,   *)
(* which rolls the transaction back and ends the sync.                     *)
(***************************************************************************)
EXTENDS RwcarDb

\* The controller an event belongs to, which names its jobs and its auctions.
Controller(source) == IF source \in {"engine", "marginHouse"} THEN "engine" ELSE "market"

Job(event, action, id) == <<Controller(event.source), action, id>>

-----------------------------------------------------------------------------
(* Jobs.                                                                    *)

\* A row that exists keeps its status: only its times may move, to the earlier.
ScheduleJob(db, event, action, id) ==
    [db EXCEPT !.jobs = InsertOnce(@, Job(event, action, id), JobRow("PENDING"))]

\* Whatever the row's status is.
CancelJob(db, event, action, id) ==
    [db EXCEPT !.jobs = Update(@, Job(event, action, id), JobRow("CANCELLED"))]

CancelMarginAccountJobs(db, event) ==
    CancelJob(CancelJob(db, event, "startMarginLiquidation", 1),
              event, "startInKindOracleFallback", 1)

CancelMarginExposureDefaultJobs(db, event) ==
    [db EXCEPT !.jobs =
        [k \in DOMAIN @ |->
            IF /\ k[1] = Controller(event.source) /\ k[2] = "declarePaymentDefault"
               /\ Has(db.exposures, k[3]) /\ db.exposures[k[3]].status = "ACTIVE"
            THEN JobRow("CANCELLED") ELSE @[k]]]

\* Deviation: nobody looks for an earlier notice.
EmitWalletAgentEventAlways(db, event, type) ==
    [db EXCEPT !.notices = InsertAgain(@, <<event.tx, event.idx, type>>)]

\* A notice to the agents of the parties, unless one with the log's key is found.  No unique
\* index stands behind the search.
EmitWalletAgentEvent(db, event, type) ==
    LET key == <<event.tx, event.idx, type>>
    IN  IF Has(db.notices, key) THEN db
        ELSE [db EXCEPT !.notices = InsertAgain(@, key)]

-----------------------------------------------------------------------------
(* The repo market.                                                         *)

SetPositionRow(db, p, status) ==
    [db EXCEPT !.positions = IF Has(@, p) THEN [@ EXCEPT ![p].status = status] ELSE @]

ProjectOfferCreated(db, event, target) ==
    LET o == event.args.offer
    IN  ScheduleJob([db EXCEPT !.offers = InsertOnce(@, o, OfferRow("OPEN", target, target))],
                    event, "finalizeOfferExpiry", o)

ProjectOfferFilled(db, event) ==
    LET o == event.args.offer
        left == db.offers[o].left - 1
        filled == [db EXCEPT
            !.offers[o] = OfferRow(IF left = 0 THEN "FILLED" ELSE "PARTIALLY_FILLED",
                                   left, @.collateral - 1),
            !.positions = InsertOnce(@, event.args.position, PositionRow("ACTIVE", o))]
        scheduled == ScheduleJob(filled, event, "startAuction", event.args.position)
    IN  IF left = 0 THEN CancelJob(scheduled, event, "finalizeOfferExpiry", o) ELSE scheduled

ProjectOfferClosed(db, event, status) ==
    LET o == event.args.offer
        closed == [db EXCEPT !.offers =
            IF Has(@, o) THEN [@ EXCEPT ![o].status = status, ![o].collateral = 0] ELSE @]
    IN  CancelJob(closed, event, "finalizeOfferExpiry", o)

\* The auction may have been projected before or after this event.
ProjectPositionDefaulted(db, event) ==
    LET p == event.args.position
        x == <<"house", event.args.auction>>
        frozen == [db EXCEPT
            !.positions = IF Has(@, p)
                          THEN [@ EXCEPT ![p].status = "AUCTION", ![p].frozen = TRUE,
                                         ![p].auction = event.args.auction]
                          ELSE @,
            !.auctions = IF Has(@, x) THEN [@ EXCEPT ![x].frozen = TRUE] ELSE @]
        cancelled == CancelJob(frozen, event, "startAuction", p)
    IN  IF Has(db.positions, p)
        THEN EmitWalletAgentEvent(cancelled, event, "POSITION_DEFAULTED")
        ELSE cancelled

ProjectPositionLiquidated(db, event) ==
    LET x == <<"house", event.args.auction>>
    IN  [SetPositionRow(db, event.args.position, "LIQUIDATED") EXCEPT
            !.settlements = IF Has(db.auctions, x) THEN InsertOnce(@, x, event.tx) ELSE @]

ProjectMarket(db, event, target) ==
    CASE event.name = "OfferCreated" -> ProjectOfferCreated(db, event, target)
      [] event.name = "OfferFilled" -> ProjectOfferFilled(db, event)
      [] event.name = "OfferCancelled" -> ProjectOfferClosed(db, event, "CANCELLED")
      [] event.name = "OfferExpired" -> ProjectOfferClosed(db, event, "EXPIRED")
      [] event.name = "PositionRepaid" ->
            CancelJob(SetPositionRow(db, event.args.position, "REPAID"),
                      event, "startAuction", event.args.position)
      [] event.name = "PositionDefaulted" -> ProjectPositionDefaulted(db, event)
      [] event.name = "PositionLiquidated" -> ProjectPositionLiquidated(db, event)
      [] event.name = "AuctionFailed" ->
            SetPositionRow(db, event.args.position, "AUCTION_FAILED")
      [] event.name \in {"DefaultCollateralClaimed", "StaleOracleCollateralClaimed"} ->
            SetPositionRow(db, event.args.position, "COLLATERAL_CLAIMED")

-----------------------------------------------------------------------------
(* Vault, auction houses, escrow, prices and risk parameters.               *)

\* The balance row has no reference to an offer, position or auction.
ProjectVault(db, event) ==
    [db EXCEPT !.vault = Upsert(@, event.args.bucket, event.args.balanceAfter),
               !.ledger = InsertOnce(@, <<event.tx, event.idx>>, event.args)]

AuctionKey(event) == <<event.source, event.args.auction>>

ProjectAuctionStarted(db, event) ==
    LET x == AuctionKey(event)
        r == event.args.reference
        Started(frozen) ==
            [db EXCEPT !.auctions = InsertOnce(@, x, AuctionRow("OPEN", event.args.kind, frozen))]
    IN  IF event.args.kind = 2
        THEN ScheduleJob(Started(db.accounts[r].snapshot.frozen > 0),
                         event, "finalizeFailedMarginAuction", event.args.auction)
        ELSE ScheduleJob(
               EmitWalletAgentEvent(Started(db.positions[r].frozen), event, "AUCTION_STARTED"),
               event, "finalizeFailedAuction", event.args.auction)

CancelFinalize(db, event) ==
    LET x == AuctionKey(event)
        margin == Has(db.auctions, x) /\ db.auctions[x].kind = 2
    IN  CancelJob(db, event,
                  IF margin THEN "finalizeFailedMarginAuction" ELSE "finalizeFailedAuction",
                  event.args.auction)

SetAuctionRow(db, x, status) ==
    [db EXCEPT !.auctions = IF Has(@, x) THEN [@ EXCEPT ![x].status = status] ELSE @]

\* The controller's event of the same transaction, if it is recorded already.
SettlementRecorded(db, event) ==
    \E e \in DOMAIN db.events :
        e[1] = event.tx /\ db.events[e].name \in {"PositionLiquidated", "MarginLiquidated"}

ProjectAuctionSold(db, event) ==
    LET x == AuctionKey(event)
        sold == SetAuctionRow(db, x, "SETTLED")
        settled == IF SettlementRecorded(db, event)
                   THEN [sold EXCEPT !.settlements = InsertOnce(@, x, event.tx)] ELSE sold
    IN  CancelFinalize(settled, event)

ProjectAuction(db, event) ==
    CASE event.name = "AuctionStarted" -> ProjectAuctionStarted(db, event)
      [] event.name = "AuctionSold" -> ProjectAuctionSold(db, event)
      [] event.name = "AuctionFailed" ->
            CancelFinalize(SetAuctionRow(db, AuctionKey(event), "EXPIRED"), event)

ProjectClaim(db, event) ==
    LET c == event.args.claim
    IN  [db EXCEPT !.claims = IF event.name = "ClaimRecorded"
                              THEN InsertOnce(@, c, ClaimRow("PENDING"))
                              ELSE Update(@, c, ClaimRow("CLAIMED"))]

\* Two unique indexes: one by asset and nonce, one by the valuation's number, which is the
\* nonce alone.
ProjectValuation(db, event) ==
    LET key == <<event.args.asset, event.args.nonce>>
        taken == \E k \in DOMAIN db.valuations : k[2] = event.args.nonce
    IN  [db EXCEPT !.valuations =
            IF event.name = "ValuationAccepted"
            THEN IF taken THEN @ ELSE InsertOnce(@, key, ValuationRow)
            ELSE Update(@, key, [invalidated |-> TRUE])]

\* The block number is the version of a configuration.
ProjectRisk(db, event) ==
    [db EXCEPT !.risk = InsertOnce([v \in DOMAIN @ |-> [enabled |-> FALSE]],
                                   event.height, ConfigurationRow)]

-----------------------------------------------------------------------------
(* The margin engine; snapshot is its account at the event's block.         *)

ProjectExposureFunded(db, event) ==
    LET e == event.args.exposure
    IN  ScheduleJob([db EXCEPT !.exposures = InsertOnce(@, e, ExposureRow("ACTIVE"))],
                    event, "declarePaymentDefault", e)

SetExposureRow(db, e, status) ==
    [db EXCEPT !.exposures = Update(@, e, ExposureRow(status))]

ProjectExposureRepaid(db, event, snapshot) ==
    LET repaid == CancelJob(SetExposureRow(db, event.args.exposure, "REPAID"),
                            event, "declarePaymentDefault", event.args.exposure)
    IN  IF snapshot.debt = 0 THEN CancelMarginAccountJobs(repaid, event) ELSE repaid

ProjectPaymentDefaultDeclared(db, event) ==
    LET cancelled == CancelMarginExposureDefaultJobs(
                       CancelJob(db, event, "declarePaymentDefault", event.args.exposure), event)
    IN  ScheduleJob(ScheduleJob(cancelled, event, "startMarginLiquidation", 1),
                    event, "startInKindOracleFallback", 1)

ProjectMarginCallOpened(db, event) ==
    ScheduleJob([db EXCEPT !.calls = InsertOnce(@, <<event.height, event.idx>>, CallRow("OPEN"))],
                event, "startMarginLiquidation", 1)

ProjectMarginCallCured(db, event) ==
    CancelJob([db EXCEPT !.calls = UpdateWhere(@, LAMBDA c : c.status = "OPEN",
                                               LAMBDA c : CallRow("CURED"))],
              event, "startMarginLiquidation", 1)

CloseoutJobsCancelled(db, event) ==
    CancelMarginExposureDefaultJobs(CancelMarginAccountJobs(db, event), event)

ProjectMarginLiquidationStarted(db, event) ==
    LET x == <<"marginHouse", event.args.auction>>
        started == [db EXCEPT
            !.auctions = IF Has(@, x) THEN [@ EXCEPT ![x].frozen = TRUE] ELSE @,
            !.liquidations = InsertOnce(@, event.args.auction, LiquidationRow("OPEN"))]
    IN  CloseoutJobsCancelled(
          ScheduleJob(started, event, "finalizeFailedMarginAuction", event.args.auction), event)

SetLiquidationRow(db, x, status) ==
    [db EXCEPT !.liquidations = Update(@, x, LiquidationRow(status))]

\* One claim job for each exposure still active.
ScheduleClaims(db, event) ==
    [db EXCEPT !.jobs =
        @ @@ [k \in {Job(event, "materializeLiquidationClaim", e) :
                        e \in {e \in DOMAIN db.exposures : db.exposures[e].status = "ACTIVE"}}
                 |-> JobRow("PENDING")]]

ProjectMarginLiquidated(db, event) ==
    LET x == <<"marginHouse", event.args.auction>>
        settled == [SetLiquidationRow(db, event.args.auction, "SETTLED") EXCEPT
            !.settlements = IF Has(db.auctions, x) THEN InsertOnce(@, x, event.tx) ELSE @]
    IN  ScheduleClaims(CancelJob(settled, event, "finalizeFailedMarginAuction",
                                 event.args.auction), event)

ProjectMarginAuctionFailed(db, event) ==
    CancelJob(SetAuctionRow(SetLiquidationRow(db, event.args.auction, "FAILED"),
                            <<"marginHouse", event.args.auction>>, "EXPIRED"),
              event, "finalizeFailedMarginAuction", event.args.auction)

ProjectMarginEvent(db, event, snapshot) ==
    CASE event.name = "ExposureFunded" -> ProjectExposureFunded(db, event)
      [] event.name = "ExposureRepaid" -> ProjectExposureRepaid(db, event, snapshot)
      [] event.name = "PaymentDefaultDeclared" -> ProjectPaymentDefaultDeclared(db, event)
      [] event.name = "MarginCallOpened" -> ProjectMarginCallOpened(db, event)
      [] event.name = "MarginCallCured" -> ProjectMarginCallCured(db, event)
      [] event.name = "MarginLiquidationStarted" -> ProjectMarginLiquidationStarted(db, event)
      [] event.name = "MarginLiquidated" -> ProjectMarginLiquidated(db, event)
      [] event.name = "MarginAuctionFailed" -> ProjectMarginAuctionFailed(db, event)
      [] event.name = "MarginInKindCloseoutStarted" ->
            CloseoutJobsCancelled(
              [db EXCEPT !.liquidations = InsertOnce(@, event.args.auction,
                                                     LiquidationRow("IN_KIND"))], event)
      [] event.name = "LiquidationProceedsMaterialized" ->
            CancelJob(SetExposureRow(db, event.args.exposure, "PROCEEDS_CLAIMED"),
                      event, "materializeLiquidationClaim", event.args.exposure)
      [] event.name = "LiquidationCollateralClaimed" ->
            SetExposureRow(db, event.args.exposure, "COLLATERAL_CLAIMED")
      [] event.name = "MarginAccountClosed" -> CloseoutJobsCancelled(db, event)

\* Every event but the first also replaces the account's row by the snapshot.
ProjectMargin(db, event, snapshot) ==
    LET row == AccountRow(snapshot, snapshot.status = "CLOSED")
    IN  IF event.name = "MarginAccountOpened"
        THEN [db EXCEPT !.accounts = InsertOnce(@, 1, AccountRow(snapshot, FALSE))]
        ELSE [ProjectMarginEvent(db, event, snapshot) EXCEPT !.accounts = Update(@, 1, row)]

-----------------------------------------------------------------------------

\* Rows a handler cannot do without.
Projectable(db, event) ==
    /\ event.name = "OfferFilled" => Has(db.offers, event.args.offer)
    /\ event.name = "AuctionStarted" =>
          IF event.args.kind = 2 THEN Has(db.accounts, event.args.reference)
          ELSE Has(db.positions, event.args.reference)

ProjectV2Event(db, event, snapshot, target) ==
    CASE event.source = "market" -> ProjectMarket(db, event, target)
      [] event.source = "vault" -> ProjectVault(db, event)
      [] event.source \in {"house", "marginHouse"} -> ProjectAuction(db, event)
      [] event.source = "escrow" -> ProjectClaim(db, event)
      [] event.source = "oracle" -> ProjectValuation(db, event)
      [] event.source = "risk" -> ProjectRisk(db, event)
      [] event.source = "engine" -> ProjectMargin(db, event, snapshot)
=============================================================================
