----------------------- MODULE SignedValuationOracle -----------------------
(***************************************************************************)
(* The price oracle of one CVA asset.  A valuation is accepted when two or *)
(* three distinct members of the signer set signed it, its nonce is above  *)
(* the last one and not withdrawn, and it observes a later time.  The      *)
(* owner may burn nonces, withdraw the current valuation and, after a      *)
(* delay, replace the signer set.  A signed message is its content and the *)
(* set of its signers: the EIP-712 digest and the recovery of signatures   *)
(* are not spelled out.  The evidence hash goes with the price.            *)
(***************************************************************************)
EXTENDS BlockContext, FiniteSets

CONSTANTS
    Prices,             \* the prices signers may attest
    Validity,           \* how long after its observation an attestation may be valid
    SettlementTokens,   \* the tokens a valuation can be expressed in
    MarketToken,        \* V2_SETTLEMENT_TOKEN_ADDRESS
    RotationDelay,      \* SIGNER_ROTATION_DELAY
    FirstSigners        \* the signer set given to the constructor

SIGNER_COUNT == 3
THRESHOLD == 2

\* _validateSignerSet: three distinct addresses, none of them zero.
SignerSets == {s \in SUBSET Account : Cardinality(s) = SIGNER_COUNT}

ASSUME OracleConstants ==
    /\ Prices \subseteq Nat \ {0}
    /\ Validity \subseteq Nat \ {0}
    /\ MarketToken \in SettlementTokens
    /\ RotationDelay \in Nat \ {0}
    /\ FirstSigners \in SignerSets

VARIABLES
    latest,             \* _latest[asset]
    invalidated,        \* invalidatedLatestDigest[asset] is the digest of latest
    nonceUnavailable,   \* nonceUnavailable[asset]
    lastNonce,          \* lastNonce[asset]
    isSigner,           \* isSigner
    signerSet,          \* _signers
    pendingSignerSet    \* _pendingSignerSet: {} or the scheduled one

oracleVars == <<latest, invalidated, nonceUnavailable, lastNonce,
                isSigner, signerSet, pendingSignerSet>>

Attestation ==
    [price: Prices, observedAt: Nat, validUntil: Nat, nonce: Nat, token: SettlementTokens]

NoValuation ==
    [price |-> 0, observedAt |-> 0, validUntil |-> 0, nonce |-> 0, token |-> MarketToken]

OracleInit ==
    /\ latest = NoValuation
    /\ invalidated = FALSE
    /\ nonceUnavailable = {}
    /\ lastNonce = 0
    /\ isSigner = FirstSigners
    /\ signerSet = FirstSigners
    /\ pendingSignerSet = {}

InWindow(a) ==
    /\ a.observedAt <= now
    /\ now <= a.validUntil
    /\ a.observedAt < a.validUntil

\* Deviation: a nonce is only checked to be unspent.
NonceUnspent(nonce) == nonce \notin nonceUnavailable

NonceAvailable(nonce) == nonce \notin nonceUnavailable /\ lastNonce < nonce

\* Deviation: an older observation may replace a newer one.
AcceptableAnyAge(a, by) ==
    /\ InWindow(a)
    /\ NonceAvailable(a.nonce)
    /\ Cardinality(by) \in THRESHOLD..SIGNER_COUNT
    /\ by \subseteq isSigner

\* The checks of submit, in any order: they all revert.
Acceptable(a, by) ==
    /\ InWindow(a)
    /\ NonceAvailable(a.nonce)
    /\ Cardinality(by) \in THRESHOLD..SIGNER_COUNT
    /\ latest.observedAt < a.observedAt
    /\ by \subseteq isSigner

Submit(a, by) ==
    /\ Acceptable(a, by)
    /\ nonceUnavailable' = nonceUnavailable \union {a.nonce}
    /\ lastNonce' = a.nonce
    /\ latest' = a
    /\ invalidated' = FALSE
    /\ UNCHANGED <<isSigner, signerSet, pendingSignerSet>>

InvalidateNonce(nonce) ==
    /\ nonce \notin nonceUnavailable
    /\ nonceUnavailable' = nonceUnavailable \union {nonce}
    /\ UNCHANGED <<latest, invalidated, lastNonce, isSigner, signerSet, pendingSignerSet>>

InvalidateValuation ==
    /\ latest # NoValuation
    /\ invalidated' = TRUE
    /\ UNCHANGED <<latest, nonceUnavailable, lastNonce, isSigner, signerSet, pendingSignerSet>>

ScheduleSignerSet(signers) ==
    /\ signers \in SignerSets
    /\ pendingSignerSet' = {[signers |-> signers, executeAfter |-> now + RotationDelay]}
    /\ UNCHANGED <<latest, invalidated, nonceUnavailable, lastNonce, isSigner, signerSet>>

\* Deviation: the members of the old set stay allowed.
ApplyKeepingOld ==
    \E p \in pendingSignerSet :
        /\ p.executeAfter <= now
        /\ isSigner' = isSigner \union p.signers
        /\ signerSet' = p.signers
        /\ pendingSignerSet' = {}
        /\ UNCHANGED <<latest, invalidated, nonceUnavailable, lastNonce>>

ApplySignerSet ==
    \E p \in pendingSignerSet :
        /\ p.executeAfter <= now
        /\ isSigner' = (isSigner \ signerSet) \union p.signers
        /\ signerSet' = p.signers
        /\ pendingSignerSet' = {}
        /\ UNCHANGED <<latest, invalidated, nonceUnavailable, lastNonce>>

\* freshPrice returns a price, or reverts.
PriceIsFresh(maxAge) ==
    /\ latest.price # 0
    /\ ~invalidated
    /\ latest.token = MarketToken
    /\ now <= latest.validUntil
    /\ now <= latest.observedAt + maxAge

=============================================================================
