--------------------- MODULE OracleHeartbeatProperties ---------------------
(***************************************************************************)
(* What the oracle and its writers keep.                                   *)
(***************************************************************************)
EXTENDS OracleHeartbeat

Feed == INSTANCE ValuationFeed WITH valuation <- [price |-> latest.price,
                                                  observedAt |-> latest.observedAt,
                                                  validUntil |-> latest.validUntil,
                                                  token |-> latest.token]

FeedNext ==
    \/ \E price \in Prices, observedAt \in 1..now, validity \in Validity, token \in SettlementTokens :
          Feed!Publish(price, observedAt, validity, token)
    \/ Feed!Invalidate

\* Signatures, nonces, rotations and the heartbeat together are the feed the market and the
\* margin engine are verified against: at most one valuation, replaced only by a later
\* observation inside its window, and withdrawn only by the owner.
ImplementsFeed == [][FeedNext]_(Feed!feedVars)

\* However late a heartbeat transaction is mined, or by whom, it never undoes a repricing: the
\* price only moves to what the operator had signed.  The heartbeat takes the nonce after the
\* one it read, so an intervening valuation makes it revert.
LateHeartbeatNeverReprices ==
    [][latest'.price # latest.price =>
          \E p \in proposals : p.a = latest' /\ p.by # {}]_vars

\* A key that has been rotated out counts no more, whatever it signed before: every valuation
\* was signed by two members of the signer set of the block that accepts it.
TwoLiveSigners ==
    [][latest' # latest =>
          \E by \in {HeartbeatSigners} \union {p.by : p \in {q \in proposals : q.a = latest'}} :
              Cardinality(by \intersect signerSet) >= THRESHOLD]_vars

\* What the heartbeat leaves to the operator: a price or token it was not given, a signing key
\* that was rotated out, or an owner who burned the very next nonce.
NeedsOperator ==
    \/ ~Baseline(latest)
    \/ ~(HeartbeatSigners \subseteq signerSet)
    \/ latest.nonce + 1 \in nonceUnavailable

Overdue == ShouldPublish(latest.observedAt, now)

\* Restarts, lost rounds, valuations of the operator and late transactions do not stop the
\* heartbeat: an observation an interval old is replaced, unless it needs the operator.
HeartbeatKeepsUp == Overdue ~> (~Overdue \/ NeedsOperator)
=============================================================================
