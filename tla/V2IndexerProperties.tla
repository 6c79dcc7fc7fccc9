------------------------- MODULE V2IndexerProperties -------------------------
(***************************************************************************)
(* What the projection promises to those who read the tables.              *)
(***************************************************************************)
EXTENDS V2Indexer

Final == Len(chain) - Confirmations

\* Every source has read every final block of the chain as it is now.
CaughtUp ==
    /\ Final >= 1 /\ Visible
    /\ \A i \in DOMAIN Sources :
          checkpoint[Sources[i]] = [height |-> Final, fork |-> chain[Final].fork]

-----------------------------------------------------------------------------
(* The tables, computed from the state of the contracts.                    *)

OffersAgree(t) ==
    /\ DOMAIN db.offers = DOMAIN t.offers
    /\ \A o \in DOMAIN t.offers :
          db.offers[o] = OfferRow(t.offers[o].status, t.offers[o].left, t.offers[o].collateral)

PositionsAgree(t) ==
    /\ DOMAIN db.positions = DOMAIN t.positions
    /\ \A p \in DOMAIN t.positions :
          /\ db.positions[p].status = t.positions[p].status
          /\ db.positions[p].offer = t.positions[p].offer

Sold == {"LIQUIDATED"}
\* Every auction is there with the debt that was frozen, and settled ones with their sale.
AuctionsAgree(t) ==
    /\ \A p \in DOMAIN t.positions :
          LET x == <<"house", p>>
              status == t.positions[p].status
          IN  /\ status \in {"AUCTION"} \union Sold =>
                    Has(db.auctions, x) /\ db.auctions[x].frozen
              /\ status = "AUCTION" => db.auctions[x].status = "OPEN"
              /\ status \in Sold => db.auctions[x].status = "SETTLED"
              /\ Has(db.settlements, x) <=> status \in Sold
    /\ LET x == <<"marginHouse", 1>>
       IN  /\ Has(db.auctions, x) => db.auctions[x].frozen
           /\ t.account.status = "LIQUIDATING" =>
                 Has(db.auctions, x) /\ db.auctions[x].status = "OPEN"
           /\ t.account.status \in Sold =>
                 /\ Has(db.auctions, x) /\ db.auctions[x].status = "SETTLED"
                 /\ Has(db.settlements, x)

MarginAgrees(t) ==
    /\ Has(db.accounts, 1) <=> t.account.status # "NONE"
    /\ Has(db.accounts, 1) =>
          db.accounts[1] = AccountRow(t.account, t.account.status = "CLOSED")
    /\ DOMAIN db.exposures = DOMAIN t.exposures
    /\ \A e \in DOMAIN t.exposures : db.exposures[e].status = t.exposures[e]
    /\ (t.account.status = "MARGIN_CALL") <=>
          \E c \in DOMAIN db.calls : db.calls[c].status = "OPEN" /\ t.account.status \in Running
    /\ t.account.frozen > 0 => Cardinality(DOMAIN db.liquidations) = 1

\* The logs of a source in the final chain, if this product's indexer follows it.
FinalLogs(source) ==
    IF source \in {Sources[i] : i \in DOMAIN Sources}
    THEN FlattenSeq([h \in 1..Final |-> BlockLogs(h, source)]) ELSE <<>>

\* The second unique index is by nonce alone, though nonces count per asset: of two assets'
\* valuations with one nonce the table keeps the one accepted first.
AcceptsNonce(log, n) == log.name = "ValuationAccepted" /\ log.args.nonce = n
Kept(logs, a, n) ==
    \E i \in DOMAIN logs :
        /\ AcceptsNonce(logs[i], n) /\ logs[i].args.asset = a
        /\ \A j \in 1 .. i - 1 : ~AcceptsNonce(logs[j], n)

ReferenceAgrees(t, logs) ==
    /\ \A a \in ValuedAssets, n \in 1..MaxValuations :
          /\ Has(db.valuations, <<a, n>>) <=> Kept(logs, a, n)
          /\ Has(db.valuations, <<a, n>>) =>
                (db.valuations[<<a, n>>].invalidated <=> n \in t.invalid[a])
    /\ Cardinality({v \in DOMAIN db.risk : db.risk[v].enabled}) = IF t.config > 0 THEN 1 ELSE 0

\* The ledger has every movement.  A balance row stands for its whole bucket and the event
\* carries the balance of one slot, so the row is right for the free collateral and has the
\* slot touched last for the rest.
BucketOf(log) == log.args.bucket
LastOfBucket(logs, i) == \A j \in i + 1 .. Len(logs) : BucketOf(logs[j]) # BucketOf(logs[i])

VaultAgrees(t, logs) ==
    /\ DOMAIN db.ledger = {<<logs[i].tx, logs[i].idx>> : i \in DOMAIN logs}
    /\ DOMAIN db.vault = {BucketOf(logs[i]) : i \in DOMAIN logs}
    /\ \A i \in DOMAIN logs :
          LastOfBucket(logs, i) => db.vault[BucketOf(logs[i])] = logs[i].args.balanceAfter
    /\ Has(db.vault, "AVAILABLE") => db.vault["AVAILABLE"] = Available(t)

ClaimsAgree(t) ==
    /\ DOMAIN db.claims = DOMAIN t.claims
    /\ \A c \in DOMAIN t.claims :
          db.claims[c].status = IF t.claims[c].open THEN "PENDING" ELSE "CLAIMED"

\* docs/THREAT_MODEL.md:17: once the indexer has caught up, the tables
\* say what the contracts say, whatever was reorganised, failed or repeated on the way,
\* and in whichever order the sources were read.  Two tables say less even then, and alike
\* on every path: the valuations of a second asset whose nonce is taken are missing
\* (schema.ts:402), and a bucket split by reference shows one of its slots (schema.ts:354).
ProjectionFaithful ==
    CaughtUp =>
        LET t == TruthAt(Final)
        IN  /\ OffersAgree(t) /\ PositionsAgree(t) /\ AuctionsAgree(t)
            /\ MarginAgrees(t) /\ ClaimsAgree(t)
            /\ ReferenceAgrees(t, FinalLogs("oracle"))
            /\ VaultAgrees(t, FinalLogs("vault"))

-----------------------------------------------------------------------------
(* Jobs.                                                                    *)

Live(contract, action, id) ==
    LET key == <<contract, action, id>>
    IN  Has(db.jobs, key) /\ db.jobs[key].status = "PENDING"

\* A margin account that a keeper should put into liquidation, and one it may close out in
\* kind when the oracle stays stale.
MustLiquidate(t) ==
    /\ t.account.status \in Running /\ t.account.debt > 0
    /\ t.account.status = "MARGIN_CALL" \/ t.account.defaulted
MayGoInKind(t) == t.account.status \in Running /\ t.account.defaulted

\* The need arose in the final chain, and no earlier one had passed.
FirstTime(Needed(_)) ==
    /\ Needed(TruthAt(Final))
    /\ \A h \in 1 .. Final - 1 : Needed(TruthAt(h)) => Needed(TruthAt(h + 1))

\* Jobs wait for offers to expire, positions and exposures to fall due, auctions to end and
\* proceeds to be handed out exactly as long as the contracts are in those states, with two
\* exceptions: a position claimed while the oracle was stale keeps a job, which the keeper
\* drops itself, and an account already in default need not have one for an exposure.
\* The two jobs of a margin account wait for its first call or default and for no later one:
\* the row of a need that has passed stays CANCELLED (v2-projector.ts:124).  That is less
\* than docs/ARCHITECTURE.md:122, "Confirmed events create durable permissionless jobs for
\* ... margin auction start/finalization, payment-default declaration, stale-oracle fallback".
JobsFollowLifecycle ==
    CaughtUp =>
        LET t == TruthAt(Final)
        IN  /\ \A o \in DOMAIN t.offers :
                  Live("market", "finalizeOfferExpiry", o) <=> t.offers[o].status \in Fillable
            /\ \A p \in DOMAIN t.positions :
                  LET status == t.positions[p].status
                  IN  /\ status = "ACTIVE" => Live("market", "startAuction", p)
                      /\ Live("market", "startAuction", p) =>
                            status \in {"ACTIVE", "COLLATERAL_CLAIMED"}
                      /\ Live("market", "finalizeFailedAuction", p) <=> status = "AUCTION"
            /\ \A e \in DOMAIN t.exposures :
                  /\ LET due == t.exposures[e] = "ACTIVE" /\ t.account.status \in Running
                     IN  /\ due /\ ~t.account.defaulted =>
                               Live("engine", "declarePaymentDefault", e)
                         /\ Live("engine", "declarePaymentDefault", e) => due
                  /\ Live("engine", "materializeLiquidationClaim", e) <=>
                        t.exposures[e] = "ACTIVE" /\ t.account.status = "LIQUIDATED"
            /\ Live("engine", "finalizeFailedMarginAuction", 1) <=>
                  t.account.status = "LIQUIDATING"
            /\ Live("engine", "startMarginLiquidation", 1) <=> FirstTime(MustLiquidate)
            /\ Live("engine", "startInKindOracleFallback", 1) <=> FirstTime(MayGoInKind)

Announces(log) ==
    \/ log.name = "PositionDefaulted"
    \/ log.name = "AuctionStarted" /\ log.args.kind = 1
NoticeType(log) ==
    IF log.name = "PositionDefaulted" THEN "POSITION_DEFAULTED" ELSE "AUCTION_STARTED"

\* However often the tables are rebuilt, an agent hears of a log of a transaction once: never
\* twice, and in the end of every default and auction of the final chain.  (Notices of
\* transactions that were reorganised away stay.)
NoticedOnce ==
    /\ \A key \in DOMAIN db.notices : db.notices[key] = 1
    /\ CaughtUp =>
          \A source \in {"market", "house"} :
            LET logs == FinalLogs(source)
            IN  \A i \in {i \in DOMAIN logs : Announces(logs[i])} :
                  Has(db.notices, <<logs[i].tx, logs[i].idx, NoticeType(logs[i])>>)

\* A caught-up indexer is as good as one that saw the final chain only: tables, jobs, notices.
RebuildIsFaithful == ProjectionFaithful /\ JobsFollowLifecycle /\ NoticedOnce

-----------------------------------------------------------------------------

\* When blocks, reorganisations and failures have come to an end, the indexer catches up and
\* stays so.
CatchesUp == <>[](Final >= 1 /\ Visible => CaughtUp)
=============================================================================
