--------------------------- MODULE ValuationFeed ---------------------------
(***************************************************************************)
(* What the signed valuation oracle promises to the contracts that read    *)
(* it: at most one current valuation of the CVA asset, replaced only by a  *)
(* later observation, good for one settlement token until it is invalid,   *)
(* expires or is too old for the reader.  Signatures, nonces and the       *)
(* signer set stay inside the oracle.                                      *)
(***************************************************************************)
EXTENDS BlockContext

CONSTANTS
    Prices,             \* the prices the signers may attest
    Validity,           \* how long after its observation an attestation may be valid
    SettlementTokens,   \* the tokens a valuation can be expressed in
    MarketToken         \* the one the reading contract settles in

ASSUME FeedAssumption ==
    /\ Prices \subseteq Nat \ {0}
    /\ Validity \subseteq Nat \ {0}
    /\ MarketToken \in SettlementTokens

VARIABLES
    valuation,      \* _latest[asset]
    invalidated     \* invalidatedLatestDigest[asset] = _latest[asset].digest

feedVars == <<valuation, invalidated>>

Valuation == [price: Nat, observedAt: Nat, validUntil: Nat, token: SettlementTokens]

FeedInit ==
    /\ valuation = [price |-> 0, observedAt |-> 0, validUntil |-> 0, token |-> MarketToken]
    /\ invalidated = FALSE

\* An attestation the threshold of signers signed is accepted if it is newer than the last.
Publish(price, observedAt, validity, token) ==
    /\ valuation.observedAt < observedAt
    /\ observedAt <= now
    /\ now <= observedAt + validity
    /\ valuation' = [price |-> price, observedAt |-> observedAt,
                     validUntil |-> observedAt + validity, token |-> token]
    /\ invalidated' = FALSE

\* Governance withdraws the current valuation.
Invalidate ==
    /\ valuation.price # 0
    /\ ~invalidated
    /\ invalidated' = TRUE
    /\ UNCHANGED valuation

\* freshPrice(asset, settlementToken, maxAge) returns valuation.price, or reverts.
PriceIsFresh(maxAge) ==
    /\ valuation.price # 0
    /\ ~invalidated
    /\ valuation.token = MarketToken
    /\ now <= valuation.validUntil
    /\ now <= valuation.observedAt + maxAge

FeedTypeOK ==
    /\ valuation \in Valuation
    /\ invalidated \in BOOLEAN
=============================================================================
