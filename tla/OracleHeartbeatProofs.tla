----------------------- MODULE OracleHeartbeatProofs -----------------------
(***************************************************************************)
(* The oracle under all its writers is the feed the contracts rely on,     *)
(* late heartbeats never reprice, and only live signers count, for any     *)
(* prices, keys, intervals and bounds.                                     *)
(***************************************************************************)
EXTENDS OracleHeartbeatProperties, FiniteSetTheorems, TLAPS

WellFormed(a) ==
    /\ a \in Attestation
    /\ a.validUntil - a.observedAt \in Validity

\* A message the heartbeat signed: its nonce follows the valuation it read, so as long as no
\* other valuation was accepted since, the price in force is still the one it repeats.
FollowsWhatItRead(a) ==
    /\ WellFormed(a)
    /\ a.price = HeartbeatPrice
    /\ a.nonce <= lastNonce + 1
    /\ a.nonce = lastNonce + 1 => latest.price = HeartbeatPrice

\* A reading of the valuation is the current one, or older than it.
ReadingStands(v) ==
    /\ v \in Attestation \union {NoValuation}
    /\ v.nonce <= lastNonce
    /\ v.nonce = lastNonce => v = latest

RoundOK ==
    \/ /\ round.pc = "reading"
       /\ round = [pc |-> "reading", block |-> round.block, valuation |-> round.valuation,
                   signers |-> round.signers]
       /\ round.block \in Nat \union {Unread}
       /\ round.valuation # Unread => ReadingStands(round.valuation)
    \/ round.pc = "signed" /\ FollowsWhatItRead(round.a)
    \/ round.pc = "waiting"

LatestOK ==
    /\ now \in Nat
    /\ latest \in Attestation \union {NoValuation}
    /\ lastNonce = latest.nonce

PoolOK == pool \in Seq(Attestation) /\ \A i \in 1..Len(pool) : FollowsWhatItRead(pool[i])

HInv ==
    /\ LatestOK
    /\ isSigner = signerSet
    /\ \A p \in proposals : WellFormed(p.a)
    /\ RoundOK
    /\ PoolOK
-----------------------------------------------------------------------------
LEMMA ValuationFields ==
    ASSUME NEW v \in Attestation \union {NoValuation}
    PROVE  v.price \in Nat /\ v.observedAt \in Nat /\ v.validUntil \in Nat /\ v.nonce \in Nat
<1>1. CASE v \in Attestation
  <2>1. v.price \in Prices /\ v.observedAt \in Nat /\ v.validUntil \in Nat /\ v.nonce \in Nat
    BY <1>1 DEF Attestation
  <2> QED
    BY <2>1, OracleConstants
<1>2. CASE v = NoValuation
  BY <1>2 DEF NoValuation
<1> QED
  BY <1>1, <1>2

\* Accepting any message moves the last nonce past everything read or signed before.
LEMMA SubmitKeeps ==
    ASSUME NEW a, NEW by, HInv, WellFormed(a), Submit(a, by)
    PROVE  /\ latest' \in Attestation /\ lastNonce' = latest'.nonce
           /\ \A m : FollowsWhatItRead(m) => FollowsWhatItRead(m)'
           /\ \A v : ReadingStands(v) => ReadingStands(v)'
<1>1. latest' = a /\ lastNonce' = a.nonce /\ lastNonce < a.nonce /\ a \in Attestation
  BY DEF Submit, Acceptable, NonceAvailable, WellFormed
<1>2. lastNonce \in Nat /\ a.nonce \in Nat /\ lastNonce + 1 <= a.nonce
  BY <1>1, ValuationFields DEF HInv, LatestOK
<1>3. ASSUME NEW m, FollowsWhatItRead(m)
      PROVE  FollowsWhatItRead(m)'
  <2>1. m.nonce \in Nat
    BY <1>3, ValuationFields DEF FollowsWhatItRead, WellFormed
  <2>2. m.nonce <= lastNonce' /\ lastNonce' \in Nat
    BY <1>1, <1>2, <1>3, <2>1 DEF FollowsWhatItRead
  <2> QED
    BY <1>3, <2>1, <2>2 DEF FollowsWhatItRead, WellFormed, Attestation
<1>4. ASSUME NEW v, ReadingStands(v)
      PROVE  ReadingStands(v)'
  <2>1. v.nonce \in Nat /\ v.nonce < lastNonce'
    BY <1>1, <1>2, <1>4, ValuationFields DEF ReadingStands
  <2> QED
    BY <1>1, <1>2, <1>4, <2>1 DEF ReadingStands, Attestation, NoValuation
<1> QED
  BY <1>1, <1>3, <1>4

\* A step of the oracle that accepts nothing leaves every message and reading as good as it was.
LEMMA QuietKeeps ==
    ASSUME HInv, UNCHANGED <<latest, lastNonce>>
    PROVE  /\ \A m : FollowsWhatItRead(m) => FollowsWhatItRead(m)'
           /\ \A v : ReadingStands(v) => ReadingStands(v)'
BY DEF FollowsWhatItRead, WellFormed, ReadingStands, Attestation, NoValuation

LEMMA PoolMessage ==
    ASSUME HInv, NEW i \in 1..Len(pool)
    PROVE  FollowsWhatItRead(pool[i]) /\ WellFormed(pool[i])
BY DEF HInv, PoolOK, FollowsWhatItRead
-----------------------------------------------------------------------------
LEMMA InitHInv == Init => HInv
<1> SUFFICES ASSUME Init PROVE HInv
  OBVIOUS
<1>1. Activated \in Attestation
  <2>1. HeartbeatPrice \in Prices /\ MarketToken \in SettlementTokens /\ 1 + HeartbeatValidity \in Nat
    BY HeartbeatConstants, OracleConstants
  <2> QED
    BY <2>1 DEF Activated, Attestation
<1>2. LatestOK
  <2>1. CASE OracleInit
    BY <2>1 DEF Init, OracleInit, LatestOK, NoValuation
  <2>2. CASE latest = Activated /\ lastNonce = 1
    BY <1>1, <2>2 DEF Init, LatestOK, Activated
  <2> QED
    BY <2>1, <2>2 DEF Init
<1>3. RoundOK /\ PoolOK
  BY DEF Init, RoundOK, PoolOK, NoRound
<1>4. isSigner = signerSet /\ proposals = {}
  BY DEF Init, OracleInit
<1> QED
  BY <1>2, <1>3, <1>4 DEF HInv

\* What a step leaves alone keeps its part of the invariant once messages and readings do.
LEMMA PartsKept ==
    ASSUME HInv,
           \A m : FollowsWhatItRead(m) => FollowsWhatItRead(m)',
           \A v : ReadingStands(v) => ReadingStands(v)'
    PROVE  /\ round' = round => RoundOK'
           /\ pool' = pool \/ (pool # <<>> /\ pool' = Tail(pool)) => PoolOK'
<1>1. ASSUME round' = round PROVE RoundOK'
  BY <1>1 DEF HInv, RoundOK
<1>2. ASSUME pool' = pool PROVE PoolOK'
  BY <1>2 DEF HInv, PoolOK
<1>3. ASSUME pool # <<>>, pool' = Tail(pool) PROVE PoolOK'
  <2>1. pool \in Seq(Attestation) /\ Len(pool) \in Nat /\ Len(pool) # 0
    BY <1>3 DEF HInv, PoolOK
  <2>2. pool' \in Seq(Attestation) /\ Len(pool') = Len(pool) - 1
    BY <1>3, <2>1
  <2>3. ASSUME NEW i \in 1..Len(pool') PROVE pool'[i] = pool[i + 1] /\ i + 1 \in 1..Len(pool)
    BY <1>3, <2>1, <2>2
  <2>4. ASSUME NEW i \in 1..Len(pool') PROVE FollowsWhatItRead(pool[i])'
    <3>1. PICK m : m = pool[i + 1]
      OBVIOUS
    <3>2. FollowsWhatItRead(m)'
      BY <2>3, <3>1 DEF HInv, PoolOK
    <3> QED
      BY <2>3, <3>1, <3>2 DEF FollowsWhatItRead, WellFormed, Attestation
  <2> QED
    BY <2>2, <2>4 DEF PoolOK
<1> QED
  BY <1>1, <1>2, <1>3

LEMMA SubmitStep ==
    ASSUME HInv, NEW a, NEW by, WellFormed(a), Submit(a, by), UNCHANGED <<now, proposals, round>>,
           pool' = pool \/ (pool # <<>> /\ pool' = Tail(pool))
    PROVE  HInv'
<1>1. RoundOK' /\ PoolOK'
  BY SubmitKeeps, PartsKept
<1>2. LatestOK'
  BY SubmitKeeps DEF HInv, LatestOK
<1>3. isSigner' = signerSet' /\ \A p \in proposals' : WellFormed(p.a)'
  BY DEF HInv, Submit, WellFormed, Attestation
<1> QED
  BY <1>1, <1>2, <1>3 DEF HInv

LEMMA PrepareStep ==
    ASSUME HInv, NEW price \in Prices, NEW lag \in ObservationLags, lag < now,
           NEW validity \in Validity, NEW nonce \in Nonces
    PROVE  WellFormed([price |-> price, observedAt |-> now - lag, nonce |-> nonce,
                       validUntil |-> now - lag + validity, token |-> MarketToken])
<1>1. now - lag \in Nat /\ now - lag + validity \in Nat /\ (now - lag + validity) - (now - lag) = validity
  BY HeartbeatConstants, OracleConstants DEF HInv, LatestOK
<1>2. nonce \in Nat /\ MarketToken \in SettlementTokens
  BY HeartbeatConstants, OracleConstants
<1> QED
  BY <1>1, <1>2 DEF WellFormed, Attestation

LEMMA OperatorStep == ASSUME HInv, Operator PROVE HInv'
<1>1. ASSUME NEW a, WellFormed(a), Prepare(a) PROVE HInv'
  <2>1. RoundOK' /\ PoolOK' /\ LatestOK'
    BY <1>1, QuietKeeps, PartsKept DEF Prepare, oracleVars, heartbeatVars, HInv, LatestOK
  <2>2. \A p \in proposals' : WellFormed(p.a)'
    BY <1>1 DEF HInv, Prepare, WellFormed, Attestation
  <2> QED
    BY <1>1, <2>1, <2>2 DEF HInv, Prepare, oracleVars
<1>2. ASSUME NEW p \in proposals, NEW by \in SUBSET signerSet, BuildCalldata(p, by) PROVE HInv'
  <2>1. RoundOK' /\ PoolOK' /\ LatestOK'
    BY <1>2, QuietKeeps, PartsKept DEF BuildCalldata, oracleVars, heartbeatVars, HInv, LatestOK
  <2>2. [p EXCEPT !.by = by].a = p.a
    OBVIOUS
  <2>3. \A q \in proposals' : WellFormed(q.a)'
    BY <1>2, <2>2 DEF HInv, BuildCalldata, WellFormed, Attestation
  <2> QED
    BY <1>2, <2>1, <2>3 DEF HInv, BuildCalldata, oracleVars
<1>3. ASSUME NEW p \in proposals, SubmitProposal(p) PROVE HInv'
  BY <1>3, SubmitStep DEF SubmitProposal, heartbeatVars, HInv
<1>4. ASSUME NEW i \in 1..Len(pool), SubmitSeen(pool[i]) PROVE HInv'
  BY <1>4, SubmitStep, PoolMessage DEF SubmitSeen, heartbeatVars
<1> QED
  BY <1>1, <1>2, <1>3, <1>4, PrepareStep DEF Operator

LEMMA OwnerStep == ASSUME HInv, Owner PROVE HInv'
<1>1. UNCHANGED <<now, proposals, latest, lastNonce, round, pool>>
  BY DEF Owner, heartbeatVars, InvalidateNonce, InvalidateValuation, ScheduleSignerSet, ApplySignerSet
<1>2. RoundOK' /\ PoolOK' /\ LatestOK'
  BY <1>1, QuietKeeps, PartsKept DEF HInv, LatestOK
<1>3. isSigner' = signerSet'
  BY DEF HInv, Owner, InvalidateNonce, InvalidateValuation, ScheduleSignerSet, ApplySignerSet
<1> QED
  BY <1>1, <1>2, <1>3 DEF HInv, WellFormed, Attestation

LEMMA RoundStep ==
    ASSUME HInv, UNCHANGED <<now, oracleVars, proposals>>, RoundOK', PoolOK'
    PROVE  HInv'
BY DEF HInv, oracleVars, LatestOK, WellFormed, Attestation

LEMMA ReadStep == ASSUME HInv, Read PROVE HInv'
<1> USE DEF Read
<1>1. UNCHANGED <<latest, lastNonce>> /\ pool' = pool /\ UNCHANGED <<now, oracleVars, proposals>>
  BY DEF oracleVars
<1>2. PoolOK'
  BY <1>1, QuietKeeps, PartsKept
<1>3. round = [pc |-> "reading", block |-> round.block, valuation |-> round.valuation,
               signers |-> round.signers]
  BY DEF HInv, RoundOK
<1>5. round.valuation # Unread =>
         /\ round.valuation \in Attestation \union {NoValuation}
         /\ round.valuation.nonce <= lastNonce'
         /\ round.valuation.nonce = lastNonce' => round.valuation = latest'
  BY <1>1 DEF HInv, RoundOK, ReadingStands
<1>6. CASE ReadBlock
  <2>1. round' = [pc |-> "reading", block |-> now, valuation |-> round.valuation,
                  signers |-> round.signers]
    BY <1>3, <1>6 DEF ReadBlock
  <2> QED
    BY <1>1, <1>2, <1>5, <2>1, RoundStep DEF HInv, LatestOK, RoundOK, ReadingStands, Attestation, NoValuation
<1>7. CASE ReadLatest
  <2>1. round' = [pc |-> "reading", block |-> round.block, valuation |-> latest,
                  signers |-> round.signers]
    BY <1>3, <1>7 DEF ReadLatest
  <2>2. latest' \in Attestation \union {NoValuation} /\ latest'.nonce <= lastNonce'
    BY <1>1, ValuationFields DEF HInv, LatestOK
  <2> QED
    BY <1>1, <1>2, <2>1, <2>2, RoundStep DEF HInv, LatestOK, RoundOK, ReadingStands, Attestation, NoValuation
<1>8. CASE ReadSignerSet
  <2>1. round' = [pc |-> "reading", block |-> round.block, valuation |-> round.valuation,
                  signers |-> signerSet]
    BY <1>3, <1>8 DEF ReadSignerSet
  <2> QED
    BY <1>1, <1>2, <1>5, <2>1, RoundStep DEF HInv, LatestOK, RoundOK, ReadingStands, Attestation, NoValuation
<1> QED
  BY <1>6, <1>7, <1>8

LEMMA SignStep == ASSUME HInv, Sign PROVE HInv'
<1>1. UNCHANGED <<latest, lastNonce>> /\ pool' = pool /\ UNCHANGED <<now, oracleVars, proposals>>
  BY DEF Sign, oracleVars
<1>2. PoolOK'
  BY <1>1, QuietKeeps, PartsKept
<1>3. CASE ~Due
  BY <1>1, <1>2, <1>3, RoundStep DEF Sign, NoRound, RoundOK
<1>4. CASE Due
  <2> DEFINE v == round.valuation
             a == [price |-> HeartbeatPrice, observedAt |-> round.block,
                   validUntil |-> round.block + HeartbeatValidity,
                   nonce |-> v.nonce + 1, token |-> MarketToken]
  <2>1. round.block \in Nat /\ ReadingStands(v)
    BY DEF Sign, ReadingsDone, HInv, RoundOK
  <2>2. v.nonce \in Nat /\ lastNonce \in Nat /\ v.nonce <= lastNonce /\ (v.nonce = lastNonce => v = latest)
    BY <2>1, ValuationFields DEF ReadingStands, HInv, LatestOK
  <2>3. HeartbeatPrice \in Prices /\ MarketToken \in SettlementTokens
        /\ HeartbeatValidity \in Validity /\ HeartbeatValidity \in Nat
    BY HeartbeatConstants, OracleConstants
  <2>4. WellFormed(a)
    BY <2>1, <2>2, <2>3 DEF WellFormed, Attestation
  <2>5. v.price = HeartbeatPrice
    BY <1>4 DEF Due, Baseline
  <2>6. /\ WellFormed(a) /\ a.price = HeartbeatPrice /\ a.nonce <= lastNonce + 1
        /\ (a.nonce = lastNonce + 1 => latest.price = HeartbeatPrice)
    BY <2>2, <2>4, <2>5
  <2>7. round' = [pc |-> "signed", a |-> a]
    BY <1>4 DEF Sign
  <2> HIDE DEF a, v
  <2>8. round'.pc = "signed" /\ round'.a = a
    BY <2>7
  <2>9. RoundOK'
    BY <1>1, <2>6, <2>8 DEF RoundOK, FollowsWhatItRead, WellFormed, Attestation
  <2> QED
    BY <1>1, <1>2, <2>9, RoundStep
<1> QED
  BY <1>3, <1>4

LEMMA BroadcastStep == ASSUME HInv, Broadcast PROVE HInv'
<1>1. UNCHANGED <<latest, lastNonce>> /\ UNCHANGED <<now, oracleVars, proposals>>
  BY DEF Broadcast, oracleVars
<1>2. RoundOK'
  BY DEF Broadcast, NoRound, RoundOK
<1>3. CASE pool' = pool
  BY <1>1, <1>2, <1>3, QuietKeeps, PartsKept, RoundStep
<1>4. CASE pool' = Append(pool, round.a)
  <2>1. FollowsWhatItRead(round.a) /\ round.a \in Attestation
    BY DEF HInv, RoundOK, Broadcast, FollowsWhatItRead, WellFormed
  <2>2. pool \in Seq(Attestation)
    BY DEF HInv, PoolOK
  <2>3. pool' \in Seq(Attestation) /\ Len(pool') = Len(pool) + 1 /\ Len(pool) \in Nat
    BY <1>4, <2>1, <2>2
  <2>4. ASSUME NEW i \in 1..Len(pool') PROVE FollowsWhatItRead(pool[i])'
    <3>1. PICK m : m = IF i <= Len(pool) THEN pool[i] ELSE round.a
      OBVIOUS
    <3>2. pool'[i] = m
      BY <1>4, <2>1, <2>2, <2>3, <2>4, <3>1
    <3>3. FollowsWhatItRead(m)
      BY <2>1, <2>3, <2>4, <3>1 DEF HInv, PoolOK
    <3>4. FollowsWhatItRead(m)'
      BY <1>1, <3>3, QuietKeeps
    <3> QED
      BY <3>2, <3>4 DEF FollowsWhatItRead, WellFormed, Attestation
  <2>5. PoolOK'
    BY <2>3, <2>4 DEF PoolOK
  <2> QED
    BY <1>1, <1>2, <2>5, RoundStep
<1> QED
  BY <1>3, <1>4 DEF Broadcast

LEMMA WorkerStep == ASSUME HInv, EndRound \/ Restart PROVE HInv'
<1>1. UNCHANGED <<latest, lastNonce>> /\ pool' = pool /\ UNCHANGED <<now, oracleVars, proposals>>
      /\ round' = NoRound
  BY DEF EndRound, Restart, oracleVars
<1>2. RoundOK'
  BY <1>1 DEF NoRound, RoundOK
<1> QED
  BY <1>1, <1>2, QuietKeeps, PartsKept, RoundStep

LEMMA MineStep == ASSUME HInv, Mine PROVE HInv'
<1>1. pool # <<>> /\ pool' = Tail(pool) /\ UNCHANGED <<now, proposals, round>>
  BY DEF Mine
<1>2. Head(pool) = pool[1] /\ 1 \in 1..Len(pool)
  BY <1>1 DEF HInv, PoolOK
<1>3. WellFormed(Head(pool))
  BY <1>2, PoolMessage
<1>4. CASE Submit(Head(pool), HeartbeatSigners)
  BY <1>1, <1>3, <1>4, SubmitStep
<1>5. CASE UNCHANGED oracleVars
  <2>1. UNCHANGED <<latest, lastNonce>>
    BY <1>5 DEF oracleVars
  <2> QED
    BY <1>1, <1>5, <2>1, QuietKeeps, PartsKept, RoundStep
<1> QED
  BY <1>4, <1>5 DEF Mine

LEMMA TickStep == ASSUME HInv, Tick PROVE HInv'
<1>1. UNCHANGED <<latest, lastNonce>> /\ pool' = pool /\ round' = round
      /\ UNCHANGED <<oracleVars, proposals>> /\ now' = now + 1
  BY DEF Tick, oracleVars, heartbeatVars
<1>2. RoundOK' /\ PoolOK'
  BY <1>1, QuietKeeps, PartsKept
<1> QED
  BY <1>1, <1>2 DEF HInv, oracleVars, LatestOK, WellFormed, Attestation
-----------------------------------------------------------------------------
LEMMA StepHInv == HInv /\ [Next]_vars => HInv'
<1>1. ASSUME HInv, Next PROVE HInv'
  BY <1>1, OperatorStep, OwnerStep, ReadStep, SignStep, BroadcastStep, WorkerStep, MineStep, TickStep
     DEF Next, Heartbeat
<1>2. ASSUME HInv, UNCHANGED vars PROVE HInv'
  BY <1>2, QuietKeeps, PartsKept, RoundStep DEF vars, oracleVars, heartbeatVars
<1> QED
  BY <1>1, <1>2

\* Every message and reading in flight repeats the price in force or is past its nonce.
THEOREM HeartbeatInvariance == Spec => []HInv
BY InitHInv, StepHInv, PTL DEF Spec

\* A step that changes the valuation accepts a proposal of the operator or a message of the
\* heartbeat, under the checks of submit.
LEMMA Acceptances ==
    ASSUME HInv, [Next]_vars, latest' # latest
    PROVE  /\ now' = now
           /\ \/ \E p \in proposals : WellFormed(p.a) /\ Submit(p.a, p.by)
              \/ \E a \in Attestation : FollowsWhatItRead(a) /\ Submit(a, HeartbeatSigners)
<1>1. CASE Operator
  <2>1. CASE \E p \in proposals : SubmitProposal(p)
    BY <2>1 DEF SubmitProposal, HInv
  <2>2. CASE \E i \in 1..Len(pool) : SubmitSeen(pool[i])
    BY <2>2, PoolMessage DEF SubmitSeen, WellFormed
  <2>3. CASE \E p \in proposals, by \in SUBSET signerSet : BuildCalldata(p, by)
    BY <2>3 DEF BuildCalldata, oracleVars
  <2>4. ASSUME NEW a, Prepare(a) PROVE FALSE
    BY <2>4 DEF Prepare, oracleVars
  <2> QED
    BY <1>1, <2>1, <2>2, <2>3, <2>4 DEF Operator
<1>2. CASE Mine
  <2>1. Submit(Head(pool), HeartbeatSigners) /\ now' = now
    BY <1>2 DEF Mine, oracleVars
  <2>2. Head(pool) = pool[1] /\ 1 \in 1..Len(pool)
    BY <1>2 DEF Mine, HInv, PoolOK
  <2> QED
    BY <2>1, <2>2, PoolMessage DEF WellFormed
<1>3. CASE Owner
  BY <1>3 DEF Owner, InvalidateNonce, InvalidateValuation, ScheduleSignerSet, ApplySignerSet
<1>4. CASE Heartbeat \/ Restart \/ Tick \/ UNCHANGED vars
  BY <1>4 DEF Heartbeat, Read, Sign, Broadcast, EndRound, Restart, Tick, vars, oracleVars
<1> QED
  BY <1>1, <1>2, <1>3, <1>4 DEF Next

\* The flag of the current valuation is only raised by the owner.
LEMMA Withdrawals ==
    ASSUME HInv, [Next]_vars, latest' = latest, invalidated' # invalidated
    PROVE  latest # NoValuation /\ ~invalidated /\ invalidated' = TRUE
<1>1. ASSUME NEW a, NEW by, WellFormed(a), Submit(a, by) PROVE FALSE
  <2>1. latest'.nonce = a.nonce /\ latest.nonce < a.nonce /\ latest.nonce \in Nat /\ a.nonce \in Nat
    BY <1>1, ValuationFields DEF Submit, Acceptable, NonceAvailable, HInv, LatestOK, WellFormed, Attestation
  <2> QED
    BY <2>1
<1>2. CASE Operator
  BY <1>1, <1>2, PoolMessage
     DEF Operator, Prepare, BuildCalldata, SubmitProposal, SubmitSeen, oracleVars, HInv
<1>3. CASE Mine
  <2>1. Head(pool) = pool[1] /\ 1 \in 1..Len(pool)
    BY <1>3 DEF Mine, HInv, PoolOK
  <2> QED
    BY <1>1, <1>3, <2>1, PoolMessage DEF Mine, oracleVars
<1>4. CASE Owner
  BY <1>4 DEF Owner, InvalidateNonce, InvalidateValuation, ScheduleSignerSet, ApplySignerSet
<1>5. CASE Heartbeat \/ Restart \/ Tick \/ UNCHANGED vars
  BY <1>5 DEF Heartbeat, Read, Sign, Broadcast, EndRound, Restart, Tick, vars, oracleVars
<1> QED
  BY <1>2, <1>3, <1>4, <1>5 DEF Next

LEMMA Quorum == ASSUME NEW S, Cardinality(S) \in THRESHOLD..SIGNER_COUNT PROVE S # {}
BY FS_EmptySet DEF THRESHOLD, SIGNER_COUNT

PriceMoveIsProposed ==
    latest'.price # latest.price => \E p \in proposals : p.a = latest' /\ p.by # {}

\* Transactions of the heartbeat mined however late, by whomever, keep the price in force.
THEOREM LateHeartbeatsKeepThePrice == Spec => LateHeartbeatNeverReprices
<1>1. ASSUME HInv, [Next]_vars PROVE [PriceMoveIsProposed]_vars
  <2> SUFFICES ASSUME latest'.price # latest.price
               PROVE  \E p \in proposals : p.a = latest' /\ p.by # {}
    BY DEF PriceMoveIsProposed
  <2>1. CASE \E p \in proposals : WellFormed(p.a) /\ Submit(p.a, p.by)
    BY <2>1, Quorum DEF Submit, Acceptable
  <2>2. ASSUME NEW a, FollowsWhatItRead(a), Submit(a, HeartbeatSigners) PROVE FALSE
    <3>1. latest' = a /\ lastNonce < a.nonce /\ a.nonce <= lastNonce + 1 /\ a.price = HeartbeatPrice
      BY <2>2 DEF Submit, Acceptable, NonceAvailable, FollowsWhatItRead
    <3>2. lastNonce \in Nat /\ a.nonce \in Nat
      BY <1>1, <2>2, ValuationFields DEF HInv, LatestOK, FollowsWhatItRead, WellFormed, Attestation
    <3>3. a.nonce = lastNonce + 1
      BY <3>1, <3>2
    <3> QED
      BY <2>2, <3>1, <3>3 DEF FollowsWhatItRead
  <2> QED
    BY <1>1, <2>1, <2>2, Acceptances
<1> QED
  BY <1>1, HeartbeatInvariance, PTL DEF Spec, LateHeartbeatNeverReprices, PriceMoveIsProposed

SignedByTwoLive ==
    latest' # latest =>
        \E by \in {HeartbeatSigners} \union {p.by : p \in {q \in proposals : q.a = latest'}} :
            Cardinality(by \intersect signerSet) >= THRESHOLD

\* Signatures of rotated-out keys never count.
THEOREM OnlyLiveSignersCount == Spec => TwoLiveSigners
<1>1. ASSUME HInv, [Next]_vars PROVE [SignedByTwoLive]_vars
  <2>1. ASSUME NEW a, NEW by, Submit(a, by)
        PROVE  latest' = a /\ Cardinality(by \intersect signerSet) >= THRESHOLD
    <3>1. by \intersect signerSet = by
      BY <1>1, <2>1 DEF Submit, Acceptable, HInv
    <3>2. Cardinality(by) \in THRESHOLD..SIGNER_COUNT
      BY <2>1 DEF Submit, Acceptable
    <3>3. Cardinality(by \intersect signerSet) >= THRESHOLD
      BY <3>1, <3>2 DEF THRESHOLD, SIGNER_COUNT
    <3> QED
      BY <2>1, <3>3 DEF Submit
  <2> QED
    BY <1>1, <2>1, Acceptances DEF SignedByTwoLive
<1> QED
  BY <1>1, HeartbeatInvariance, PTL DEF Spec, TwoLiveSigners, SignedByTwoLive

\* The detailed oracle implements the feed that the market's and the margin engine's
\* specifications are written against.
THEOREM OracleImplementsFeed == Spec => ImplementsFeed
<1>1. ASSUME HInv, [Next]_vars PROVE [FeedNext]_(Feed!feedVars)
  <2>1. CASE latest' # latest
    <3>1. ASSUME NEW a, NEW by, WellFormed(a), Submit(a, by), now' = now PROVE FeedNext
      <4> DEFINE validity == a.validUntil - a.observedAt
      <4>1. a.price \in Prices /\ validity \in Validity /\ a.token \in SettlementTokens
        BY <3>1 DEF WellFormed, Attestation
      <4>2. a.observedAt \in Nat /\ a.validUntil \in Nat /\ now \in Nat /\ latest.observedAt \in Nat
        BY <1>1, <3>1, ValuationFields DEF WellFormed, HInv, LatestOK
      <4>3. a.observedAt \in 1..now /\ latest.observedAt < a.observedAt
            /\ now <= a.observedAt + validity /\ a.observedAt + validity = a.validUntil
        BY <3>1, <4>2 DEF Submit, Acceptable, InWindow
      <4>4. latest' = a /\ invalidated' = FALSE
        BY <3>1 DEF Submit
      <4>5. Feed!Publish(a.price, a.observedAt, validity, a.token)
        BY <4>3, <4>4 DEF Feed!Publish
      <4> QED
        BY <4>1, <4>3, <4>5 DEF FeedNext
    <3> QED
      BY <1>1, <2>1, <3>1, Acceptances DEF FollowsWhatItRead
  <2>2. CASE latest' = latest /\ invalidated' # invalidated
    <3>1. latest # NoValuation /\ invalidated' = TRUE
      BY <1>1, <2>2, Withdrawals
    <3>2. latest.price # 0
      BY <1>1, <3>1, OracleConstants DEF HInv, LatestOK, Attestation
    <3> QED
      BY <1>1, <2>2, <3>1, <3>2, Withdrawals DEF FeedNext, Feed!Invalidate
  <2>3. CASE latest' = latest /\ invalidated' = invalidated
    BY <2>3 DEF Feed!feedVars
  <2> QED
    BY <2>1, <2>2, <2>3
<1> QED
  BY <1>1, HeartbeatInvariance, PTL DEF Spec, ImplementsFeed
=============================================================================
