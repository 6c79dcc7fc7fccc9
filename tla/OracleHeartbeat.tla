-------------------------- MODULE OracleHeartbeat --------------------------
(***************************************************************************)
(* Who writes to the oracle: the owner; the operator, who has valuations   *)
(* prepared by the internal API, signed by members of the signer set and   *)
(* submitted whenever it likes; and the heartbeat of the indexer worker,   *)
(* which holds two of the signing keys and republishes the approved price  *)
(* when the last observation is an interval old.  A round of the heartbeat *)
(* reads the chain in three calls no block pins together, signs,           *)
(* simulates, broadcasts and waits; its transaction may outlive the wait   *)
(* and the process.  A transaction in the pool is public.                  *)
(***************************************************************************)
EXTENDS SignedValuationOracle, Sequences

CONSTANTS
    HeartbeatSigners,   \* the addresses of V2_ORACLE_SIGNER_1/2_PRIVATE_KEY
    HeartbeatPrice,     \* V2_ORACLE_HEARTBEAT_PRICE_E18 (and its evidence hash)
    HeartbeatInterval,  \* V2_ORACLE_HEARTBEAT_INTERVAL_MS
    HeartbeatValidity,  \* V2_ORACLE_HEARTBEAT_VALIDITY_SECONDS
    Unread,             \* a reading the round has not made yet
    NextSigners,        \* the signer sets the owner may schedule
    Nonces,             \* the nonces the operator and the owner name
    ObservationLags,    \* how old an observation may be when the operator attests it
    MaxTime,            \* bound: the clock
    MaxProposals,       \* bound: valuations the operator prepares
    MaxPending,         \* bound: heartbeat transactions in the pool
    MaxOwnerCalls,      \* bound: invalidations and rotations the owner starts
    MaxRestarts         \* bound: restarts of the worker

\* The constructor's checks and those of the configuration schema.
ASSUME HeartbeatConstants ==
    /\ HeartbeatSigners \subseteq Account
    /\ Cardinality(HeartbeatSigners) = 2
    /\ HeartbeatPrice \in Prices
    /\ HeartbeatInterval \in Nat \ {0}
    /\ HeartbeatValidity \in Validity
    /\ HeartbeatInterval < HeartbeatValidity
    /\ ObservationLags \subseteq Nat
    /\ Nonces \subseteq Nat \ {0}

VARIABLES
    proposals,      \* the operator's attestations: [a, by], by = {} until calldata is built
    ownerCalls,
    round,          \* the heartbeat's round
    pool,           \* its broadcast transactions, in the order of the account's nonces
    restarts

heartbeatVars == <<round, pool, restarts>>
vars == <<now, oracleVars, proposals, ownerCalls, heartbeatVars>>

NoRound == [pc |-> "reading", block |-> Unread, valuation |-> Unread, signers |-> Unread]

\* The first valuation, published by the activation script at the first nonce.
Activated == [price |-> HeartbeatPrice, observedAt |-> 1, validUntil |-> 1 + HeartbeatValidity,
              nonce |-> 1, token |-> MarketToken]

\* Just deployed, or activated by the script.
Init ==
    /\ now = 1
    /\ \/ OracleInit
       \/ /\ latest = Activated /\ lastNonce = 1 /\ nonceUnavailable = {1}
          /\ invalidated = FALSE /\ pendingSignerSet = {}
          /\ isSigner = FirstSigners /\ signerSet = FirstSigners
    /\ proposals = {}
    /\ ownerCalls = 0
    /\ round = NoRound
    /\ pool = <<>>
    /\ restarts = 0
-----------------------------------------------------------------------------
\* prepareV2Valuation: the window and the nonce, as the chain is now.
Preparable(a) ==
    /\ InWindow(a)
    /\ NonceAvailable(a.nonce)
    /\ a.token = MarketToken

Prepare(a) ==
    /\ Cardinality(proposals) < MaxProposals
    /\ Preparable(a)
    /\ proposals' = proposals \union {[a |-> a, by |-> {}]}
    /\ UNCHANGED <<now, oracleVars, ownerCalls, heartbeatVars>>

\* POST /internal/v2/valuations/calldata: prepared again, the signatures against the live set.
BuildCalldata(p, by) ==
    /\ p.by = {}
    /\ Preparable(p.a)
    /\ by \subseteq signerSet
    /\ THRESHOLD <= Cardinality(by)
    /\ proposals' = (proposals \ {p}) \union {[p EXCEPT !.by = by]}
    /\ UNCHANGED <<now, oracleVars, ownerCalls, heartbeatVars>>

\* The operator's transaction, mined at some later block.
SubmitProposal(p) ==
    /\ Submit(p.a, p.by)
    /\ UNCHANGED <<now, proposals, ownerCalls, heartbeatVars>>

\* Anyone may submit the signatures seen in a pending transaction.
SubmitSeen(a) ==
    /\ Submit(a, HeartbeatSigners)
    /\ UNCHANGED <<now, proposals, ownerCalls, heartbeatVars>>

Operator ==
    \/ \E price \in Prices, lag \in {l \in ObservationLags : l < now}, validity \in Validity, nonce \in Nonces :
          Prepare([price |-> price, observedAt |-> now - lag, nonce |-> nonce,
                   validUntil |-> now - lag + validity, token |-> MarketToken])
    \/ \E p \in proposals, by \in SUBSET signerSet : BuildCalldata(p, by)
    \/ \E p \in proposals : SubmitProposal(p)
    \/ \E i \in 1..Len(pool) : SubmitSeen(pool[i])

Owner ==
    /\ \/ /\ ownerCalls < MaxOwnerCalls
          /\ ownerCalls' = ownerCalls + 1
          /\ \/ \E nonce \in Nonces : InvalidateNonce(nonce)
             \/ InvalidateValuation
             \/ \E signers \in NextSigners : ScheduleSignerSet(signers)
       \/ ApplySignerSet /\ UNCHANGED ownerCalls
    /\ UNCHANGED <<now, proposals, heartbeatVars>>
-----------------------------------------------------------------------------
\* The parallel reads of runOnce, answered in any order.
ReadBlock ==
    /\ round.block = Unread
    /\ round' = [round EXCEPT !.block = now]
ReadLatest ==
    /\ round.valuation = Unread
    /\ round' = [round EXCEPT !.valuation = latest]
ReadSignerSet ==
    /\ round.signers = Unread
    /\ round' = [round EXCEPT !.signers = signerSet]

Read ==
    /\ round.pc = "reading"
    /\ ReadBlock \/ ReadLatest \/ ReadSignerSet
    /\ UNCHANGED <<now, oracleVars, proposals, ownerCalls, pool, restarts>>

ReadingsDone == Unread \notin {round.block, round.valuation, round.signers}

\* shouldPublishOracleHeartbeat
ShouldPublish(observedAt, timestamp) ==
    observedAt = 0 \/ observedAt + HeartbeatInterval <= timestamp

\* assertHeartbeatBaseline.  It does not ask whether the valuation was withdrawn.
Baseline(v) ==
    /\ v.observedAt # 0
    /\ v.price = HeartbeatPrice
    /\ v.token = MarketToken

Due ==
    /\ Baseline(round.valuation)
    /\ HeartbeatSigners \subseteq round.signers
    /\ ShouldPublish(round.valuation.observedAt, round.block)
    /\ round.valuation.observedAt < round.block

\* Deviation: the attestation reuses the nonce it read.
SignSameNonce ==
    /\ round.pc = "reading"
    /\ ReadingsDone
    /\ round' = IF Due
                THEN [pc |-> "signed",
                      a |-> [price |-> HeartbeatPrice,
                             observedAt |-> round.block,
                             validUntil |-> round.block + HeartbeatValidity,
                             nonce |-> round.valuation.nonce,
                             token |-> MarketToken]]
                ELSE NoRound
    /\ UNCHANGED <<now, oracleVars, proposals, ownerCalls, pool, restarts>>

Sign ==
    /\ round.pc = "reading"
    /\ ReadingsDone
    /\ round' = IF Due
                THEN [pc |-> "signed",
                      a |-> [price |-> HeartbeatPrice,
                             observedAt |-> round.block,
                             validUntil |-> round.block + HeartbeatValidity,
                             nonce |-> round.valuation.nonce + 1,
                             token |-> MarketToken]]
                ELSE NoRound
    /\ UNCHANGED <<now, oracleVars, proposals, ownerCalls, pool, restarts>>

\* simulateContract, then writeContract: a refused simulation ends the round.
Broadcast ==
    /\ round.pc = "signed"
    /\ IF Acceptable(round.a, HeartbeatSigners)
       THEN /\ Len(pool) < MaxPending
            /\ pool' = Append(pool, round.a)
            /\ round' = [pc |-> "waiting"]
       ELSE /\ round' = NoRound
            /\ UNCHANGED pool
    /\ UNCHANGED <<now, oracleVars, proposals, ownerCalls, restarts>>

\* The receipt, whatever it says, or the timeout of the wait for it.
EndRound ==
    /\ round.pc = "waiting"
    /\ round' = NoRound
    /\ UNCHANGED <<now, oracleVars, proposals, ownerCalls, pool, restarts>>

Heartbeat == Read \/ Sign \/ Broadcast \/ EndRound

\* The worker stops wherever it is; what it broadcast stays.
Restart ==
    /\ restarts < MaxRestarts
    /\ restarts' = restarts + 1
    /\ round' = NoRound
    /\ UNCHANGED <<now, oracleVars, proposals, ownerCalls, pool>>

\* The oldest transaction of the broadcaster's account is mined: accepted, or reverted.
Mine ==
    /\ pool # <<>>
    /\ pool' = Tail(pool)
    /\ \/ Submit(Head(pool), HeartbeatSigners)
       \/ ~Acceptable(Head(pool), HeartbeatSigners) /\ UNCHANGED oracleVars
    /\ UNCHANGED <<now, proposals, ownerCalls, round, restarts>>

Tick ==
    /\ now < MaxTime
    /\ now' = now + 1
    /\ UNCHANGED <<oracleVars, proposals, ownerCalls, heartbeatVars>>

Next == Operator \/ Owner \/ Heartbeat \/ Restart \/ Mine \/ Tick

Spec == Init /\ [][Next]_vars

\* The worker's loop runs, its transactions are mined and time passes; nobody else has to act.
FairSpec == Spec /\ WF_vars(Heartbeat) /\ WF_vars(Mine) /\ WF_vars(Tick)
=============================================================================
