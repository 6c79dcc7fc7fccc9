------------------------- MODULE KeeperOutboxProofs -------------------------
(***************************************************************************)
(* The durable outbox is sound: for any jobs, any confirmation depth and   *)
(* any number of crashes, failing RPC calls, lost transactions and V1      *)
(* transactions.  The reorganisations are counted: what depends on blocks  *)
(* that stay is stated for none.                                           *)
(***************************************************************************)
EXTENDS KeeperOutboxProperties, FiniteSetTheorems, TLAPS

Envelope == Tx \union {NoTx}
Receipt == [tx : Tx, ok : BOOLEAN]

\* A block has moved the targets of the calls that succeeded in it.
SoundBlock ==
    {b \in [sent : SUBSET Receipt, done : SUBSET Target] :
        /\ IsFiniteSet(b.sent)
        /\ \A r \in b.sent : r.ok => r.tx.target \in b.done}

Row == [status : Statuses, wait : Waits, locked : BOOLEAN, stale : BOOLEAN,
        hash : Envelope, bytes : Envelope, aged : BOOLEAN]

\* What a pass does with the row it has claimed.
Preparing == {"prepare", "persist"}
Following == {"broadcast", "receipt", "head", "complete", "rebroadcast", "nonces",
              "replace", "persistReplacement", "broadcastReplacement", "defer"}
Busy == Preparing \union Following \union {"check", "cancel", "fail"}

Resting == {"boot", "sleep", "select"}
WorkerType ==
    [pc : Busy \union Resting, job : Target, hash : Envelope,
     bytes : Envelope, aged : BOOLEAN, depth : Nat]
LegacyType == [pc : {"idle", "send"}, nonce : Nat]

NodeTypes ==
    /\ final \in SoundBlock
    /\ recent \in [1..Confirmations -> SoundBlock]
    /\ pool \subseteq Tx /\ IsFiniteSet(pool)
    /\ reorgs \in Nat /\ drops \in Nat

Types ==
    /\ NodeTypes
    /\ rows \in [Jobs -> Row]
    /\ worker \in WorkerType /\ legacy \in LegacyType
    /\ projected \subseteq Jobs

\* A row that may be followed up holds the bytes its hash names, for its own target.
RowsIntact ==
    \A j \in Jobs :
        /\ rows[j].status \in {"PENDING", "RETRY", "RUNNING", "SUBMITTED"} =>
               rows[j].bytes = rows[j].hash
        /\ rows[j].status = "SUBMITTED" => rows[j].hash # NoTx
        /\ rows[j].hash # NoTx => rows[j].hash.target = j

\* The worker's copy is the row, unless the indexer has cancelled it in the meantime.
CopyStands ==
    worker.pc \in Busy =>
        /\ worker.job \in Jobs
        /\ rows[worker.job].status \in {"RUNNING", "SUBMITTED", "CANCELLED"}
        /\ rows[worker.job].status # "CANCELLED" => rows[worker.job].hash = worker.hash
        /\ worker.hash # NoTx => worker.hash.target = worker.job
        /\ worker.pc \in Preparing => worker.hash = NoTx
        /\ worker.pc \in Following => worker.hash # NoTx
        /\ worker.pc \in {"persist", "persistReplacement"} =>
               worker.bytes \in Tx /\ worker.bytes.target = worker.job
        /\ worker.pc = "persistReplacement" => worker.bytes.nonce = worker.hash.nonce
        /\ worker.pc \notin {"persist", "persistReplacement", "defer", "fail"} =>
               worker.bytes = worker.hash

\* Used nonces are below the latest, those in the pool are not and each belongs to one call.
NoncesInOrder ==
    /\ \A r \in Receipts : r.tx.nonce < LatestNonce
    /\ \A tx \in pool : tx.nonce >= LatestNonce
    /\ \A tx, other \in pool : tx.nonce = other.nonce => tx = other

\* The pool holds no call of a job but the one its row, and the worker's copy, name.
CallsTracked ==
    \A tx \in pool :
        /\ tx.target \in Jobs /\ rows[tx.target].status # "CANCELLED" =>
               rows[tx.target].hash # NoTx /\ rows[tx.target].hash.nonce = tx.nonce
        /\ worker.pc \in Busy /\ tx.target = worker.job =>
               worker.pc # "fail" /\ worker.hash # NoTx /\ worker.hash.nonce = tx.nonce

\* A receipt that was read is at least as deep now.
MovedAtDepth(depth) ==
    \/ worker.job \in final.done
    \/ \E i \in 1..Confirmations :
          worker.job \in recent[i].done /\ depth <= Confirmations - i

CompletionsFinal ==
    /\ \A j \in Jobs : rows[j].status = "SUCCEEDED" => j \in final.done
    /\ worker.pc = "head" => MovedAtDepth(worker.depth)
    /\ worker.pc = "complete" => worker.job \in final.done

OInv ==
    /\ Types
    /\ RowsIntact
    /\ CopyStands
    /\ reorgs = 0 => NoncesInOrder /\ CallsTracked /\ CompletionsFinal
-----------------------------------------------------------------------------
(* Numbers: the smallest element, and the nonce it finds.                   *)

\* The intervals 0..n, ordered by inclusion, have a smallest one among those of S.
LEMMA MinNat ==
    ASSUME NEW S \in SUBSET Nat, S # {}
    PROVE  Min(S) \in S /\ \A x \in S : Min(S) <= x
<1> DEFINE R == StrictSubsetOrdering(Nat)
           U == {0..n : n \in S}
<1>1. U \subseteq FiniteSubsetsOf(Nat)
  <2>1. \A n \in S : 0..n \subseteq Nat /\ IsFiniteSet(0..n)
    BY FS_Interval
  <2> QED
    BY <2>1 DEF FiniteSubsetsOf
<1>2. IsWellFoundedOn(R, FiniteSubsetsOf(Nat))
    BY FS_StrictSubsetOrderingWellFounded
<1>3. \E I \in U : \A J \in U : <<J, I>> \notin R
  <2>1. U # {}
    OBVIOUS
  <2> HIDE DEF R, U
  <2> QED BY <1>1, <1>2, <2>1, WFMin
<1>4. PICK m \in S : \A n \in S : <<0..n, 0..m>> \notin R
    BY <1>3
<1>5. ASSUME NEW n \in S PROVE m <= n
  <2>1. SUFFICES ASSUME n < m PROVE FALSE
    BY <1>5
  <2>2. 0..n \subseteq 0..m /\ 0..n # 0..m
    BY <2>1
  <2>3. <<0..n, 0..m>> \in (SUBSET Nat) \X (SUBSET Nat)
    OBVIOUS
  <2>4. <<0..n, 0..m>> \in R
    BY <2>2, <2>3 DEF StrictSubsetOrdering
  <2> QED
    BY <1>4, <2>4
<1> QED
    BY <1>5 DEF Min

LEMMA MinOfTwo ==
    ASSUME NEW a \in Int, NEW b \in Int
    PROVE  Min({a, b}) = IF a <= b THEN a ELSE b
BY DEF Min

\* Envelopes have the fields of a call.
LEMMA EnvelopeFields ==
    ASSUME NEW e \in Envelope
    PROVE  /\ e = [target |-> e.target, nonce |-> e.nonce, fee |-> e.fee]
           /\ e.nonce \in Nat /\ e.fee \in 0..MaxFee
           /\ e \in Tx <=> e # NoTx
<1>1. NoTx \notin Tx
    BY KeeperConstants DEF NoTx, Tx
<1>2. CASE e \in Tx
    BY <1>1, <1>2 DEF Tx
<1>3. CASE e = NoTx
    BY <1>1, <1>3, NodeConstants DEF NoTx
<1> QED
    BY <1>2, <1>3 DEF Envelope

LEMMA ReplacementType ==
    ASSUME NEW tx \in Tx
    PROVE  /\ Replacement(tx) \in Tx
           /\ Replacement(tx).target = tx.target /\ Replacement(tx).nonce = tx.nonce
<1>1. tx.fee \in 0..MaxFee /\ MaxFee \in Nat
    BY NodeConstants DEF Tx
<1>2. Min({tx.fee + 1, MaxFee}) \in 0..MaxFee
    BY <1>1, MinOfTwo
<1> QED
    BY <1>2 DEF Replacement, Tx

-----------------------------------------------------------------------------
(* The node.                                                                *)

LEMMA ReceiptsFinite ==
    ASSUME NodeTypes
    PROVE  /\ IsFiniteSet(Receipts) /\ LatestNonce \in Nat
           /\ Receipts \subseteq Receipt /\ Done \subseteq Target
           /\ \A r \in Receipts : r.ok => r.tx.target \in Done
<1>1. \A i \in 1..Confirmations : recent[i] \in SoundBlock
    BY DEF NodeTypes
<1>2. IsFiniteSet({recent[i].sent : i \in 1..Confirmations})
  <2> DEFINE f == [i \in 1..Confirmations |-> recent[i].sent]
             B == {recent[i].sent : i \in 1..Confirmations}
  <2>1. f \in Surjection(1..Confirmations, B)
    BY DEF Surjection
  <2>2. IsFiniteSet(1..Confirmations)
    BY FS_Interval, NodeConstants
  <2> QED
    BY <2>1, <2>2, FS_Surjection
<1>3. IsFiniteSet(UNION {recent[i].sent : i \in 1..Confirmations})
  <2>1. \A b \in {recent[i].sent : i \in 1..Confirmations} : IsFiniteSet(b)
    BY <1>1 DEF SoundBlock
  <2> QED
    BY <1>2, <2>1, FS_UNION
<1>4. IsFiniteSet(Receipts)
    BY <1>3, FS_Union DEF NodeTypes, SoundBlock, Receipts
<1>5. Receipts \subseteq Receipt /\ Done \subseteq Target
    BY <1>1 DEF NodeTypes, SoundBlock, Receipts, Done
<1>6. \A r \in Receipts : r.ok => r.tx.target \in Done
    BY <1>1 DEF NodeTypes, SoundBlock, Receipts, Done
<1> QED
    BY <1>4, <1>5, <1>6, FS_CardinalityType DEF LatestNonce

\* More nonces are looked at than the pool can occupy.
LEMMA PendingNonceType ==
    ASSUME NodeTypes
    PROVE  PendingNonce \in Nat /\ PendingNonce >= LatestNonce
<1> DEFINE window == LatestNonce..(LatestNonce + Cardinality(pool))
           free == {n \in window : \A tx \in pool : tx.nonce # n}
<1>1. LatestNonce \in Nat /\ Cardinality(pool) \in Nat /\ IsFiniteSet(pool)
    BY ReceiptsFinite, FS_CardinalityType DEF NodeTypes
<1>2. free # {}
  <2>1. SUFFICES ASSUME \A n \in window : \E tx \in pool : tx.nonce = n
                 PROVE  FALSE
    BY <1>1
  <2> DEFINE f == [n \in window |-> CHOOSE tx \in pool : tx.nonce = n]
  <2>2. f \in [window -> pool] /\ \A n \in window : f[n].nonce = n
    BY <2>1
  <2>3. IsFiniteSet(window) /\ Cardinality(window) = Cardinality(pool) + 1
    BY <1>1, FS_Interval
  <2>4. \E m, n \in window : m # n /\ f[m] = f[n]
    <3>1. Cardinality(pool) < Cardinality(window)
        BY <1>1, <2>3
    <3> HIDE DEF f, window
    <3> QED
        BY <1>1, <2>2, <2>3, <3>1, FS_PigeonHole
  <2> QED
    BY <2>2, <2>4
<1>3. free \in SUBSET Nat /\ \A n \in free : n >= LatestNonce
    BY <1>1
<1> QED
    BY <1>2, <1>3, MinNat DEF PendingNonce
\* A new block: the oldest recent one becomes final, the others move down.
LEMMA ExtendStep ==
    ASSUME NodeTypes, NEW b \in SoundBlock, Extend(b)
    PROVE  /\ final' \in SoundBlock /\ recent' \in [1..Confirmations -> SoundBlock]
           /\ Receipts' = Receipts \union b.sent
           /\ final.done \subseteq final'.done
           /\ \A i \in 1..Confirmations : \A t \in recent[i].done :
                 \/ t \in final'.done
                 \/ i - 1 \in 1..Confirmations /\ t \in recent'[i - 1].done
<1> DEFINE C == Confirmations
<1>1. C \in Nat \ {0} /\ recent \in [1..C -> SoundBlock] /\ final \in SoundBlock
    BY NodeConstants DEF NodeTypes
<1>2. recent \in Seq(SoundBlock) /\ Len(recent) = C
    BY <1>1
<1>3. /\ recent' \in [1..C -> SoundBlock]
      /\ \A i \in 1..C : recent'[i] = IF i < C THEN recent[i + 1] ELSE b
  <2> DEFINE older == Tail(recent)
  <2>1. /\ older \in Seq(SoundBlock) /\ Len(older) = C - 1
        /\ \A i \in 1..(C - 1) : older[i] = recent[i + 1]
    BY <1>1, <1>2
  <2>2. recent' = Append(older, b)
    BY DEF Extend
  <2> HIDE DEF older
  <2>3. /\ recent' \in Seq(SoundBlock) /\ Len(recent') = C
        /\ \A i \in 1..C : recent'[i] = IF i < C THEN older[i] ELSE b
    BY <1>1, <2>1, <2>2
  <2>4. recent' \in [1..C -> SoundBlock]
    BY <2>3
  <2> QED
    BY <1>1, <2>1, <2>3, <2>4
<1>4. /\ final'.sent = final.sent \union recent[1].sent
      /\ final'.done = final.done \union recent[1].done
      /\ final' = [sent |-> final'.sent, done |-> final'.done]
    BY DEF Extend, Block
<1>5. recent[1] \in SoundBlock
    BY <1>1
<1>6. final' \in SoundBlock
  <2>1. IsFiniteSet(final'.sent)
    <3>1. IsFiniteSet(final.sent) /\ IsFiniteSet(recent[1].sent)
        BY <1>1, <1>5 DEF SoundBlock
    <3> QED
        BY <1>4, <3>1, FS_Union
  <2>2. final' \in [sent : SUBSET Receipt, done : SUBSET Target]
    BY <1>1, <1>4, <1>5 DEF SoundBlock
  <2>3. \A r \in final'.sent : r.ok => r.tx.target \in final'.done
    BY <1>1, <1>4, <1>5 DEF SoundBlock
  <2> QED
    BY <2>1, <2>2, <2>3 DEF SoundBlock
<1>7. Receipts' = Receipts \union b.sent
  <2>1. ASSUME NEW r \in Receipts PROVE r \in Receipts'
    <3>1. CASE r \in final.sent
        BY <1>4, <3>1 DEF Receipts
    <3>2. CASE \E i \in 1..C : r \in recent[i].sent
      <4>1. PICK i \in 1..C : r \in recent[i].sent
        BY <3>2
      <4>2. CASE i = 1
        BY <1>4, <4>1, <4>2 DEF Receipts
      <4>3. CASE i # 1
        <5>1. i - 1 \in 1..C /\ recent'[i - 1] = recent[i]
            BY <1>1, <1>3, <4>1, <4>3
        <5> QED
            BY <4>1, <5>1 DEF Receipts
      <4> QED
        BY <4>2, <4>3
    <3> QED
        BY <2>1, <3>1, <3>2 DEF Receipts
  <2>2. b.sent \subseteq Receipts'
    <3>1. C \in 1..C /\ recent'[C] = b
        BY <1>1, <1>3
    <3> QED
        BY <3>1 DEF Receipts
  <2>3. ASSUME NEW r \in Receipts' PROVE r \in Receipts \union b.sent
    <3>1. CASE r \in final'.sent
        BY <1>1, <1>4, <3>1 DEF Receipts
    <3>2. CASE \E i \in 1..C : r \in recent'[i].sent
      <4>1. PICK i \in 1..C : r \in recent'[i].sent
        BY <3>2
      <4>2. recent'[i] = b \/ (i + 1 \in 1..C /\ recent'[i] = recent[i + 1])
        BY <1>1, <1>3
      <4> QED
        BY <4>1, <4>2 DEF Receipts
    <3> QED
        BY <2>3, <3>1, <3>2 DEF Receipts
  <2> QED
    BY <2>1, <2>2, <2>3
<1>8. ASSUME NEW i \in 1..C, NEW t \in recent[i].done
      PROVE  t \in final'.done \/ (i - 1 \in 1..C /\ t \in recent'[i - 1].done)
  <2>1. CASE i = 1
    BY <1>4, <1>8, <2>1
  <2>2. CASE i # 1
    <3>1. i - 1 \in 1..C /\ recent'[i - 1] = recent[i]
        BY <1>1, <1>3, <2>2
    <3> QED
        BY <1>8, <3>1
  <2> QED
    BY <2>1, <2>2
<1> QED
    BY <1>3, <1>4, <1>6, <1>7, <1>8

\* Whatever the node makes of a call sent to it.
LEMMA SendStep ==
    ASSUME NodeTypes, NEW tx \in Tx, Send(tx)
    PROVE  /\ pool' \subseteq Tx /\ IsFiniteSet(pool')
           /\ \/ pool' = pool
              \/ /\ tx.nonce >= LatestNonce
                 /\ \A other \in pool' :
                       other = tx \/ (other \in pool /\ other.nonce # tx.nonce)
<1>1. CASE Accepts(tx)
  <2> DEFINE kept == {other \in pool : other.nonce # tx.nonce}
  <2>1. pool' = kept \union {tx}
    BY <1>1 DEF Send
  <2>2. IsFiniteSet(kept) /\ kept \subseteq pool
    BY FS_Subset DEF NodeTypes
  <2>3. IsFiniteSet(pool')
    BY <2>1, <2>2, FS_AddElement
  <2> QED
    BY <1>1, <2>1, <2>2, <2>3 DEF NodeTypes, Accepts
<1>2. CASE ~Accepts(tx)
    BY <1>2 DEF Send, NodeTypes
<1> QED
    BY <1>1, <1>2
-----------------------------------------------------------------------------
(* Steps that only read: the worker moves on, and where it goes is earned.  *)

LEMMA WorkerTypes ==
    /\ \A pc \in Resting : Idle(pc) \in WorkerType /\ Idle(pc).pc = pc
    /\ LegacyIdle \in LegacyType
    /\ Resting \intersect Busy = {}
<1>1. LegacyTarget \in Target
    BY KeeperConstants
<1> QED
    BY <1>1 DEF Idle, WorkerType, LegacyIdle, LegacyType, Envelope, Resting, Busy, Preparing,
                Following

LEMMA GoToFields ==
    ASSUME NEW p \in Busy \union Resting, worker \in WorkerType, GoTo(p)
    PROVE  /\ worker' \in WorkerType /\ worker'.pc = p /\ worker'.job = worker.job
           /\ worker'.hash = worker.hash /\ worker'.bytes = worker.bytes
           /\ worker'.depth = worker.depth
BY DEF GoTo, WorkerType

LEMMA ReadStep ==
    ASSUME OInv, UNCHANGED <<nodeVars, rows, projected>>,
           worker' \in WorkerType, legacy' \in LegacyType, CopyStands',
           worker'.pc \in Busy =>
               worker.pc \in Busy /\ worker'.job = worker.job /\ worker'.hash = worker.hash,
           reorgs = 0 /\ worker'.pc = "fail" => \A tx \in pool : tx.target # worker.job,
           reorgs = 0 /\ worker'.pc = "head" => MovedAtDepth(worker'.depth),
           reorgs = 0 /\ worker'.pc = "complete" => worker.job \in final.done
    PROVE  OInv'
<1>1. Types'
    BY DEF OInv, Types, NodeTypes, nodeVars
<1>2. RowsIntact'
    BY DEF OInv, RowsIntact
<1>3. ASSUME reorgs = 0 PROVE NoncesInOrder' /\ CallsTracked' /\ CompletionsFinal'
  <2>1. NoncesInOrder'
    BY <1>3 DEF OInv, NoncesInOrder, nodeVars, Receipts, LatestNonce
  <2>2. CallsTracked'
    BY <1>3 DEF OInv, CallsTracked, nodeVars
  <2>3. CompletionsFinal'
    <3>1. "head" \in Busy /\ "complete" \in Busy
        BY DEF Busy, Following
    <3> QED
        BY <1>3, <3>1 DEF OInv, CompletionsFinal, MovedAtDepth, nodeVars
  <2> QED
    BY <2>1, <2>2, <2>3
<1> QED
    BY <1>1, <1>2, <1>3 DEF OInv, nodeVars

\* The reads that start a pass or end it without a row.
LEMMA RestStep ==
    ASSUME OInv, Boot \/ NothingDue \/ Crash \/ LegacyPrepare
    PROVE  OInv'
<1> USE DEF ReadOnly
<1>1. CASE Boot \/ NothingDue \/ Crash
  <2>1. UNCHANGED <<nodeVars, rows, projected>>
    BY <1>1 DEF Boot, NothingDue, Crash, EndPass, GoTo
  <2>2. worker \in WorkerType /\ legacy \in LegacyType
    BY DEF OInv, Types
  <2>3. legacy' \in LegacyType
    BY <1>1, <2>2, WorkerTypes DEF Boot, NothingDue, Crash, EndPass, GoTo
  <2>4. \E pc \in Resting : worker' = Idle(pc) \/ worker' = [worker EXCEPT !.pc = pc]
    BY <1>1 DEF Boot, NothingDue, Crash, EndPass, GoTo, Resting
  <2>5. worker' \in WorkerType /\ worker'.pc \notin Busy
    <3>1. PICK p \in Resting : worker' = Idle(p) \/ worker' = [worker EXCEPT !.pc = p]
        BY <2>4
    <3>0. p \in Busy \union Resting /\ p \notin Busy
        BY WorkerTypes
    <3>2. CASE worker' = Idle(p)
        BY <3>0, <3>2, WorkerTypes
    <3>3. CASE worker' = [worker EXCEPT !.pc = p]
        BY <2>2, <3>0, <3>3, GoToFields DEF GoTo
    <3> QED
        BY <3>1, <3>2, <3>3
  <2>6. CopyStands' /\ worker'.pc \notin {"fail", "head", "complete"}
    BY <2>5 DEF CopyStands, Busy, Following
  <2> QED
    BY <2>1, <2>3, <2>5, <2>6, ReadStep
<1>2. CASE LegacyPrepare
  <2>1. /\ UNCHANGED <<nodeVars, rows, projected, worker>>
        /\ legacy' \in LegacyType
    BY <1>2, PendingNonceType DEF LegacyPrepare, LegacyType, OInv, Types
  <2>2. CopyStands' /\ worker' \in WorkerType
    BY <2>1 DEF CopyStands, OInv, Types
  <2>3. reorgs = 0 /\ worker.pc = "fail" => \A tx \in pool : tx.target # worker.job
    BY DEF OInv, CallsTracked, Busy
  <2>4. reorgs = 0 => /\ worker.pc = "head" => MovedAtDepth(worker.depth)
                      /\ worker.pc = "complete" => worker.job \in final.done
    BY DEF OInv, CompletionsFinal
  <2> QED
    BY <2>1, <2>2, <2>3, <2>4, ReadStep
<1> QED
    BY <1>1, <1>2
LEMMA CheckTargetStep ==
    ASSUME OInv, CheckTarget
    PROVE  OInv'
<1>1. /\ worker \in WorkerType /\ CopyStands /\ worker.pc = "check"
      /\ UNCHANGED <<nodeVars, rows, legacy, projected>>
    BY DEF OInv, Types, CheckTarget, ReadOnly, At
<1>2. \/ GoTo("cancel")
      \/ GoTo("receipt") /\ worker.hash # NoTx
      \/ GoTo("prepare") /\ worker.hash = NoTx
    BY DEF CheckTarget
<1>3. /\ worker' \in WorkerType /\ worker'.pc \in {"cancel", "receipt", "prepare"}
      /\ worker'.job = worker.job /\ worker'.hash = worker.hash /\ worker'.bytes = worker.bytes
      /\ worker'.pc = "receipt" => worker.hash # NoTx
      /\ worker'.pc = "prepare" => worker.hash = NoTx
    BY <1>1, <1>2, GoToFields DEF Busy, Preparing, Following
<1>4. CopyStands' /\ worker.pc \in Busy
    BY <1>1, <1>3 DEF CopyStands, Busy, Preparing, Following
<1> QED
    BY <1>1, <1>3, <1>4, ReadStep DEF OInv, Types

\* A call is given up before it is signed only while the pool holds none of its job.
LEMMA PrepareStep ==
    ASSUME OInv, Prepare
    PROVE  OInv'
<1>1. /\ worker \in WorkerType /\ CopyStands /\ worker.pc = "prepare"
      /\ UNCHANGED <<nodeVars, rows, legacy, projected>>
    BY DEF OInv, Types, Prepare, ReadOnly, At
<1>2. worker.hash = NoTx /\ worker.job \in Jobs /\ worker.pc \in Busy
    BY <1>1 DEF CopyStands, Preparing, Busy
<1>3. ASSUME reorgs = 0 PROVE \A tx \in pool : tx.target # worker.job
    BY <1>2, <1>3 DEF OInv, CallsTracked
<1> DEFINE signed == [target |-> worker.job, nonce |-> PendingNonce, fee |-> 0]
<1>4. signed \in Tx /\ signed.target = worker.job
    BY <1>2, PendingNonceType, KeeperConstants, NodeConstants DEF OInv, Types, Tx
<1>5. \/ worker' = [worker EXCEPT !.pc = "fail"]
      \/ worker' = [worker EXCEPT !.pc = "persist", !.bytes = signed]
    BY DEF Prepare
<1> HIDE DEF signed
<1>6. /\ worker' \in WorkerType /\ worker'.pc \in {"fail", "persist"}
      /\ worker'.job = worker.job /\ worker'.hash = worker.hash
      /\ worker'.pc = "persist" => worker'.bytes = signed
    BY <1>1, <1>4, <1>5 DEF WorkerType, Envelope, Busy, Preparing
<1>7. CopyStands'
    BY <1>1, <1>2, <1>4, <1>6 DEF CopyStands, Busy, Preparing, Following
<1> QED
    BY <1>1, <1>2, <1>3, <1>6, <1>7, ReadStep DEF OInv, Types

\* A receipt spends the nonce of its call, so nothing of the job is left in the pool.
LEMMA ReadReceiptStep ==
    ASSUME OInv, ReadReceipt
    PROVE  OInv'
<1>1. /\ worker \in WorkerType /\ CopyStands /\ worker.pc = "receipt"
      /\ UNCHANGED <<nodeVars, rows, legacy, projected>>
    BY DEF OInv, Types, ReadReceipt, ReadOnly, At
<1>2. /\ worker.hash # NoTx /\ worker.hash.target = worker.job /\ worker.bytes = worker.hash
      /\ worker.pc \in Busy
    BY <1>1 DEF CopyStands, Following, Busy
<1>3. CASE worker' = [worker EXCEPT !.pc = "rebroadcast"]
  <2>1. /\ worker' \in WorkerType /\ worker'.pc = "rebroadcast" /\ worker'.job = worker.job
        /\ worker'.hash = worker.hash /\ worker'.bytes = worker.bytes
    BY <1>1, <1>3, GoToFields DEF GoTo, Busy, Following
  <2>2. CopyStands'
    BY <1>1, <1>2, <2>1 DEF CopyStands, Busy, Preparing, Following
  <2> QED
    BY <1>1, <1>2, <2>1, <2>2, ReadStep DEF OInv, Types
<1>4. CASE worker' # [worker EXCEPT !.pc = "rebroadcast"]
  <2>1. PICK r \in Receipts :
          /\ r.tx = worker.hash
          /\ worker' = IF r.ok THEN [worker EXCEPT !.pc = "head", !.depth = Depth(r)]
                       ELSE [worker EXCEPT !.pc = "fail"]
    BY <1>4 DEF ReadReceipt
  <2>2. /\ r \in Receipt /\ Depth(r) \in Nat
        /\ r.ok => MovedAtDepth(Depth(r))
    <3>1. r \in Receipt
        BY ReceiptsFinite DEF OInv, Types
    <3>2. CASE r \in final.sent
        BY <1>2, <2>1, <3>2, NodeConstants
           DEF Depth, MovedAtDepth, OInv, Types, NodeTypes, SoundBlock
    <3>3. CASE r \notin final.sent
      <4> DEFINE i == CHOOSE i \in 1..Confirmations : r \in recent[i].sent
      <4>1. i \in 1..Confirmations /\ r \in recent[i].sent
        BY <3>3 DEF Receipts
      <4>2. Depth(r) = Confirmations - i
        BY <3>3 DEF Depth
      <4> HIDE DEF i
      <4>3. recent[i] \in SoundBlock
        BY <4>1 DEF OInv, Types, NodeTypes
      <4>4. r.ok => worker.job \in recent[i].done
        BY <1>2, <2>1, <4>1, <4>3 DEF SoundBlock
      <4> QED
        BY <3>1, <4>1, <4>2, <4>4, NodeConstants DEF MovedAtDepth
    <3> QED
        BY <3>1, <3>2, <3>3
  <2>3. /\ worker' \in WorkerType /\ worker'.pc \in {"head", "fail"} /\ worker'.job = worker.job
        /\ worker'.hash = worker.hash /\ worker'.bytes = worker.bytes
        /\ worker'.pc = "head" => r.ok /\ worker'.depth = Depth(r)
    BY <1>1, <2>1, <2>2 DEF WorkerType, Busy, Following
  <2>4. CopyStands'
    BY <1>1, <1>2, <2>3 DEF CopyStands, Busy, Preparing, Following
  <2>5. ASSUME reorgs = 0, NEW tx \in pool, tx.target = worker.job PROVE FALSE
    <3>1. tx.nonce = worker.hash.nonce /\ NoncesInOrder
        BY <1>2, <2>5 DEF OInv, CallsTracked
    <3>2. tx.nonce >= LatestNonce /\ r.tx.nonce < LatestNonce /\ LatestNonce \in Nat
        BY <3>1, ReceiptsFinite DEF NoncesInOrder, OInv, Types
    <3>3. tx.nonce \in Nat
        BY DEF OInv, Types, NodeTypes, Tx
    <3> QED
        BY <2>1, <3>1, <3>2, <3>3
  <2> QED
    BY <1>1, <1>2, <2>2, <2>3, <2>4, <2>5, ReadStep DEF OInv, Types
<1> QED
    BY <1>3, <1>4
LEMMA ReadHeadStep ==
    ASSUME OInv, ReadHead
    PROVE  OInv'
<1>1. /\ worker \in WorkerType /\ CopyStands /\ worker.pc = "head"
      /\ UNCHANGED <<nodeVars, rows, legacy, projected>>
    BY DEF OInv, Types, ReadHead, ReadOnly, At
<1>2. \/ GoTo("complete") /\ worker.depth >= Confirmations
      \/ GoTo("defer")
    BY DEF ReadHead
<1>3. /\ worker' \in WorkerType /\ worker'.pc \in {"complete", "defer"}
      /\ worker'.job = worker.job /\ worker'.hash = worker.hash /\ worker'.bytes = worker.bytes
      /\ worker'.pc = "complete" => worker.depth >= Confirmations
    BY <1>1, <1>2, GoToFields DEF Busy, Following
<1>4. CopyStands' /\ worker.pc \in Busy
    BY <1>1, <1>3 DEF CopyStands, Busy, Preparing, Following
<1>5. ASSUME reorgs = 0, worker'.pc = "complete" PROVE worker.job \in final.done
  <2>1. worker.depth \in Nat /\ worker.depth >= Confirmations /\ MovedAtDepth(worker.depth)
    BY <1>1, <1>3, <1>5 DEF WorkerType, OInv, CompletionsFinal
  <2> QED
    BY <2>1, NodeConstants DEF MovedAtDepth
<1> QED
    BY <1>1, <1>3, <1>4, <1>5, ReadStep DEF OInv, Types

\* So does a nonce that another call of the account has taken.
LEMMA ReadNoncesStep ==
    ASSUME OInv, ReadNonces
    PROVE  OInv'
<1>1. /\ worker \in WorkerType /\ CopyStands /\ worker.pc = "nonces"
      /\ UNCHANGED <<nodeVars, rows, legacy, projected>>
    BY DEF OInv, Types, ReadNonces, ReadOnly, At
<1>2. \/ GoTo("fail") /\ LatestNonce > worker.hash.nonce
      \/ GoTo("replace") \/ GoTo("defer")
    BY DEF ReadNonces, StaleReason
<1>3. /\ worker' \in WorkerType /\ worker'.pc \in {"fail", "replace", "defer"}
      /\ worker'.job = worker.job /\ worker'.hash = worker.hash /\ worker'.bytes = worker.bytes
      /\ worker'.pc = "fail" => LatestNonce > worker.hash.nonce
    BY <1>1, <1>2, GoToFields DEF Busy, Following
<1>4. CopyStands' /\ worker.pc \in Busy
    BY <1>1, <1>3 DEF CopyStands, Busy, Preparing, Following
<1>5. ASSUME reorgs = 0, worker'.pc = "fail", NEW tx \in pool, tx.target = worker.job
      PROVE  FALSE
  <2>1. tx.nonce = worker.hash.nonce /\ tx.nonce >= LatestNonce
    BY <1>4, <1>5 DEF OInv, CallsTracked, NoncesInOrder
  <2>2. tx.nonce \in Nat /\ LatestNonce \in Nat
    BY ReceiptsFinite DEF OInv, Types, NodeTypes, Tx
  <2> QED
    BY <1>3, <1>5, <2>1, <2>2
<1> QED
    BY <1>1, <1>3, <1>4, <1>5, ReadStep DEF OInv, Types

\* The worker holds the bytes of what it follows, so that only the fee can change.
LEMMA ReplaceStep ==
    ASSUME OInv, Replace
    PROVE  OInv'
<1>1. /\ worker \in WorkerType /\ CopyStands /\ worker.pc = "replace"
      /\ UNCHANGED <<nodeVars, rows, legacy, projected>>
    BY DEF OInv, Types, Replace, ReadOnly, At
<1>2. /\ worker.hash # NoTx /\ worker.hash.target = worker.job /\ worker.bytes = worker.hash
      /\ worker.pc \in Busy
    BY <1>1 DEF CopyStands, Following, Busy
<1>3. worker.bytes \in Tx
    BY <1>1, <1>2, EnvelopeFields DEF WorkerType
<1> DEFINE better == Replacement(worker.bytes)
<1>4. /\ better \in Tx /\ better.target = worker.job /\ better.nonce = worker.hash.nonce
    BY <1>2, <1>3, ReplacementType
<1>5. \/ worker' = [worker EXCEPT !.pc = "defer"]
      \/ worker' = [worker EXCEPT !.pc = "persistReplacement", !.bytes = better]
    BY <1>2 DEF Replace
<1> HIDE DEF better
<1>6. /\ worker' \in WorkerType /\ worker'.pc \in {"defer", "persistReplacement"}
      /\ worker'.job = worker.job /\ worker'.hash = worker.hash
      /\ worker'.pc = "persistReplacement" => worker'.bytes = better
    BY <1>1, <1>4, <1>5 DEF WorkerType, Envelope, Busy, Following
<1>7. CopyStands'
    BY <1>1, <1>2, <1>4, <1>6 DEF CopyStands, Busy, Preparing, Following
<1> QED
    BY <1>1, <1>2, <1>6, <1>7, ReadStep DEF OInv, Types

-----------------------------------------------------------------------------
(* Steps that send: the pool changes by a call of the job in hand, or of    *)
(* the V1 keeper.                                                           *)

LEMMA PoolStep ==
    ASSUME OInv, NEW tx \in Tx, Send(tx) \/ pool' = pool,
           UNCHANGED <<final, recent, reorgs, drops, rows, projected>>,
           worker' \in WorkerType, legacy' \in LegacyType, CopyStands',
           worker'.pc \in Busy =>
               worker.pc \in Busy /\ worker'.job = worker.job /\ worker'.hash = worker.hash,
           worker'.pc \notin {"head", "complete"} \/ UNCHANGED worker,
           worker'.pc # "fail" \/ tx.target \notin Jobs,
           worker'.pc = "fail" => worker.pc = "fail",
           \/ tx.target \notin Jobs
           \/ /\ worker.pc \in Busy /\ tx.target = worker.job
              /\ worker.hash # NoTx /\ worker.hash.nonce = tx.nonce
    PROVE  OInv'
<1>1. /\ pool' \subseteq Tx /\ IsFiniteSet(pool')
      /\ \/ pool' = pool
         \/ /\ tx.nonce >= LatestNonce
            /\ \A other \in pool' : other = tx \/ (other \in pool /\ other.nonce # tx.nonce)
    BY SendStep DEF OInv, Types, NodeTypes
<1>2. Types'
    BY <1>1 DEF OInv, Types, NodeTypes
<1>3. RowsIntact'
    BY DEF OInv, RowsIntact
<1>4. ASSUME reorgs = 0 PROVE NoncesInOrder' /\ CallsTracked' /\ CompletionsFinal'
  <2>1. NoncesInOrder'
    <3>1. Receipts' = Receipts /\ LatestNonce' = LatestNonce
        BY DEF Receipts, LatestNonce
    <3> QED
        BY <1>1, <1>4, <3>1 DEF OInv, NoncesInOrder
  <2>2. \A other \in pool' : other = tx \/ other \in pool
    BY <1>1
  <2>3. CallsTracked'
    <3>1. SUFFICES ASSUME NEW other \in pool'
                   PROVE /\ other.target \in Jobs /\ rows[other.target].status # "CANCELLED" =>
                               /\ rows[other.target].hash # NoTx
                               /\ rows[other.target].hash.nonce = other.nonce
                         /\ worker'.pc \in Busy /\ other.target = worker'.job =>
                               /\ worker'.pc # "fail" /\ worker'.hash # NoTx
                               /\ worker'.hash.nonce = other.nonce
        BY DEF CallsTracked
    <3>2. CASE other \in pool
        BY <1>4, <3>2 DEF OInv, CallsTracked
    <3>3. CASE other = tx
        BY <3>3 DEF OInv, CopyStands
    <3> QED
        BY <2>2, <3>2, <3>3
  <2>4. CompletionsFinal'
    BY <1>4 DEF OInv, CompletionsFinal, MovedAtDepth
  <2> QED
    BY <2>1, <2>3, <2>4
<1> QED
    BY <1>2, <1>3, <1>4 DEF OInv
\* The first broadcast, a broadcast again and a replacement send what the worker follows.
LEMMA WorkerSends ==
    ASSUME OInv, Broadcast \/ Rebroadcast \/ BroadcastReplacement
    PROVE  OInv'
<1>1. /\ worker \in WorkerType /\ CopyStands
      /\ worker.pc \in {"broadcast", "rebroadcast", "broadcastReplacement"}
      /\ UNCHANGED <<final, recent, reorgs, drops, rows, legacy, projected>>
    BY DEF OInv, Types, Broadcast, Rebroadcast, BroadcastReplacement, At
<1>2. /\ worker.pc \in Busy /\ worker.job \in Jobs /\ worker.hash # NoTx
      /\ worker.hash.target = worker.job /\ worker.bytes = worker.hash
    BY <1>1 DEF CopyStands, Following, Busy
<1>3. worker.bytes \in Tx
    BY <1>1, <1>2, EnvelopeFields DEF WorkerType
<1>4. \E p \in {"receipt", "defer", "nonces"} : GoTo(p)
    BY DEF Broadcast, Rebroadcast, BroadcastReplacement
<1>5. /\ worker' \in WorkerType /\ worker'.pc \in {"receipt", "defer", "nonces"}
      /\ worker'.job = worker.job /\ worker'.hash = worker.hash /\ worker'.bytes = worker.bytes
    BY <1>1, <1>4, GoToFields DEF Busy, Following
<1>6. CopyStands'
    BY <1>1, <1>2, <1>5 DEF CopyStands, Busy, Preparing, Following
<1>7. Send(worker.bytes) \/ pool' = pool
    BY DEF Broadcast, Rebroadcast, BroadcastReplacement
<1>8. legacy' \in LegacyType
    BY <1>1 DEF OInv, Types
<1> QED
    BY <1>1, <1>2, <1>3, <1>5, <1>6, <1>7, <1>8, PoolStep

LEMMA LegacySendStep ==
    ASSUME OInv, LegacySend
    PROVE  OInv'
<1> DEFINE call == [target |-> LegacyTarget, nonce |-> legacy.nonce, fee |-> 0]
<1>1. /\ call \in Tx /\ call.target \notin Jobs
    BY KeeperConstants, NodeConstants DEF OInv, Types, LegacyType, Tx
<1>2. /\ Send(call) /\ UNCHANGED <<final, recent, reorgs, drops, rows, projected, worker>>
      /\ legacy' \in LegacyType
    BY WorkerTypes DEF LegacySend
<1>3. CopyStands' /\ worker' \in WorkerType
    BY <1>2 DEF OInv, Types, CopyStands
<1> HIDE DEF call
<1> QED
    BY <1>1, <1>2, <1>3, PoolStep

\* A failing call sends the worker to a place from which it recovers.
LEMMA RpcFaultStep ==
    ASSUME OInv, RpcFault
    PROVE  OInv'
<1>1. /\ worker \in WorkerType /\ CopyStands /\ legacy \in LegacyType
      /\ UNCHANGED <<final, recent, reorgs, drops, rows, legacy, projected>>
    BY DEF OInv, Types, RpcFault
<1>2. CASE At("broadcast")
  <2>1. GoTo("defer") /\ (pool' = pool \/ Send(worker.bytes))
    BY <1>2 DEF RpcFault, At
  <2>2. /\ worker.pc \in Busy /\ worker.job \in Jobs /\ worker.hash # NoTx
        /\ worker.hash.target = worker.job /\ worker.bytes = worker.hash
    BY <1>1, <1>2 DEF CopyStands, Following, Busy, At
  <2>3. worker.bytes \in Tx
    BY <1>1, <2>2, EnvelopeFields DEF WorkerType
  <2>4. /\ worker' \in WorkerType /\ worker'.pc = "defer"
        /\ worker'.job = worker.job /\ worker'.hash = worker.hash
    BY <1>1, <2>1, GoToFields DEF Busy, Following
  <2>5. CopyStands'
    BY <1>1, <2>2, <2>4 DEF CopyStands, Busy, Preparing, Following
  <2> QED
    BY <1>1, <2>1, <2>2, <2>3, <2>4, <2>5, PoolStep
<1>3. CASE ~At("broadcast")
  <2>1. /\ pool' = pool
        /\ \/ worker.pc \in {"check", "prepare"} /\ worker.hash = NoTx /\ GoTo("fail")
           \/ worker.pc \in {"check", "prepare"} /\ worker.hash # NoTx /\ GoTo("defer")
           \/ worker.pc \in {"receipt", "head"} /\ GoTo("rebroadcast")
           \/ worker.pc \in {"nonces", "replace"} /\ GoTo("defer")
    BY <1>3 DEF RpcFault
  <2>2. worker.pc \in Busy /\ UNCHANGED nodeVars
    BY <1>1, <2>1 DEF Busy, Preparing, Following, nodeVars
  <2>3. /\ worker' \in WorkerType /\ worker'.pc \in {"fail", "defer", "rebroadcast"}
        /\ worker'.job = worker.job /\ worker'.hash = worker.hash /\ worker'.bytes = worker.bytes
        /\ worker'.pc = "fail" => worker.hash = NoTx
        /\ worker'.pc \in {"defer", "rebroadcast"} => worker.hash # NoTx
    BY <1>1, <2>1, <2>2, GoToFields DEF CopyStands, Busy, Following
  <2>4. worker'.pc = "rebroadcast" => worker.bytes = worker.hash
    BY <1>1, <2>1, <2>2, GoToFields DEF CopyStands, Busy, Following
  <2>5. CopyStands'
    BY <1>1, <2>2, <2>3, <2>4 DEF CopyStands, Busy, Preparing, Following
  <2>6. reorgs = 0 /\ worker'.pc = "fail" => \A tx \in pool : tx.target # worker.job
    BY <2>2, <2>3 DEF OInv, CallsTracked
  <2> QED
    BY <1>1, <2>2, <2>3, <2>5, <2>6, ReadStep
<1> QED
    BY <1>2, <1>3

-----------------------------------------------------------------------------
(* Steps that write one row: which rows and statuses may change, and how.   *)

LEMMA RowTypes ==
    /\ NewRow \in Row /\ NoTx \in Envelope
    /\ \A j \in Jobs : Types => rows[j] \in Row
BY DEF NewRow, Row, Statuses, Waits, Envelope, Types

\* The worker leaves the row it has written, of which the pool holds what the row says.
LEMMA WriteStep ==
    ASSUME OInv, UNCHANGED <<nodeVars, projected>>, legacy' \in LegacyType,
           worker' \in WorkerType, CopyStands', NEW j \in Jobs, NEW row \in Row,
           rows' = [rows EXCEPT ![j] = row],
           row.status \in {"PENDING", "RETRY", "RUNNING", "SUBMITTED"} => row.bytes = row.hash,
           row.status = "SUBMITTED" => row.hash # NoTx,
           row.hash # NoTx => row.hash.target = j,
           reorgs = 0 =>
               /\ \A tx \in pool : tx.target = j =>
                     /\ row.status = "CANCELLED"
                        \/ (row.hash # NoTx /\ row.hash.nonce = tx.nonce)
                     /\ worker'.pc \in Busy /\ worker'.job = j =>
                           /\ worker'.pc # "fail" /\ worker'.hash # NoTx
                           /\ worker'.hash.nonce = tx.nonce
               /\ row.status = "SUCCEEDED" => j \in final.done,
           worker'.pc \in Busy => worker'.job = j \/ UNCHANGED worker,
           worker'.pc \in {"head", "complete"} => UNCHANGED worker
    PROVE  OInv'
<1>1. \A k \in Jobs : rows'[k] = IF k = j THEN row ELSE rows[k]
    BY DEF OInv, Types
<1>2. Types'
    BY DEF OInv, Types, NodeTypes, nodeVars
<1>3. RowsIntact'
    BY <1>1 DEF OInv, RowsIntact
<1>4. ASSUME reorgs = 0 PROVE NoncesInOrder' /\ CallsTracked' /\ CompletionsFinal'
  <2>1. NoncesInOrder'
    BY <1>4 DEF OInv, NoncesInOrder, nodeVars, Receipts, LatestNonce
  <2>2. CallsTracked'
    <3>1. SUFFICES ASSUME NEW tx \in pool
                   PROVE /\ tx.target \in Jobs /\ rows'[tx.target].status # "CANCELLED" =>
                               /\ rows'[tx.target].hash # NoTx
                               /\ rows'[tx.target].hash.nonce = tx.nonce
                         /\ worker'.pc \in Busy /\ tx.target = worker'.job =>
                               /\ worker'.pc # "fail" /\ worker'.hash # NoTx
                               /\ worker'.hash.nonce = tx.nonce
        BY DEF CallsTracked, nodeVars
    <3>2. CASE tx.target = j
        BY <1>1, <1>4, <3>2
    <3>3. CASE tx.target # j
        BY <1>1, <1>4, <3>3 DEF OInv, CallsTracked
    <3> QED
        BY <3>2, <3>3
  <2>3. CompletionsFinal'
    BY <1>1, <1>4 DEF OInv, CompletionsFinal, MovedAtDepth, nodeVars
  <2> QED
    BY <2>1, <2>2, <2>3
<1> QED
    BY <1>2, <1>3, <1>4 DEF OInv, nodeVars
\* The worker takes a row whose call, if it has one, is the one in the pool.
LEMMA ClaimStep ==
    ASSUME OInv, NEW j \in Jobs, Claim(j)
    PROVE  OInv'
<1> DEFINE row == [rows[j] EXCEPT !.status = "RUNNING", !.locked = TRUE, !.stale = FALSE]
<1>1. /\ worker \in WorkerType /\ rows[j] \in Row /\ j \in Target
      /\ UNCHANGED <<nodeVars, legacy, projected>> /\ legacy \in LegacyType
    BY KeeperConstants DEF OInv, Types, Claim, Rest
<1>2. rows[j].status \in {"PENDING", "RETRY", "RUNNING", "SUBMITTED"}
    BY DEF Claim, Candidates, Claimable
<1>3. rows[j].bytes = rows[j].hash /\ (rows[j].hash # NoTx => rows[j].hash.target = j)
    BY <1>2 DEF OInv, RowsIntact
<1>4. /\ row \in Row /\ row.status = "RUNNING"
      /\ row.hash = rows[j].hash /\ row.bytes = rows[j].bytes
    BY <1>1 DEF Row, Statuses
<1>5. rows' = [rows EXCEPT ![j] = row]
    BY <1>1 DEF Claim, OInv, Types, Row
<1>6. /\ worker' \in WorkerType /\ worker'.pc = "check" /\ worker'.job = j
      /\ worker'.hash = rows[j].hash /\ worker'.bytes = rows[j].bytes
    BY <1>1 DEF Claim, WorkerType, Busy, Row
<1> HIDE DEF row
<1>7. rows'[j] = row
    BY <1>5 DEF OInv, Types
<1>8. CopyStands'
    BY <1>3, <1>4, <1>6, <1>7 DEF CopyStands, Preparing, Following
<1>9. ASSUME reorgs = 0, NEW tx \in pool, tx.target = j
      PROVE  rows[j].hash # NoTx /\ rows[j].hash.nonce = tx.nonce
    BY <1>2, <1>9 DEF OInv, CallsTracked
<1>10. reorgs = 0 =>
          /\ \A tx \in pool : tx.target = j =>
                /\ row.status = "CANCELLED" \/ (row.hash # NoTx /\ row.hash.nonce = tx.nonce)
                /\ worker'.pc \in Busy /\ worker'.job = j =>
                      /\ worker'.pc # "fail" /\ worker'.hash # NoTx
                      /\ worker'.hash.nonce = tx.nonce
          /\ row.status = "SUCCEEDED" => j \in final.done
    BY <1>4, <1>6, <1>9
<1>11. legacy' \in LegacyType /\ worker'.pc \notin {"head", "complete"}
    BY <1>1, <1>6
<1> QED
    BY <1>1, <1>3, <1>4, <1>5, <1>6, <1>8, <1>10, <1>11, WriteStep

\* What a pass that ends leaves behind.
LEMMA EndStep ==
    ASSUME OInv, Cancel \/ Complete \/ Defer \/ Fail
    PROVE  OInv'
<1> DEFINE j == worker.job
           old == rows[worker.job]
<1>1. /\ worker \in WorkerType /\ CopyStands /\ worker.pc \in {"cancel", "complete", "defer", "fail"}
      /\ UNCHANGED <<nodeVars, legacy, projected>> /\ legacy \in LegacyType
      /\ worker' = Idle("sleep")
    BY DEF OInv, Types, Cancel, Complete, Defer, Fail, At, Rest, EndPass
<1>2. /\ worker.pc \in Busy /\ j \in Jobs /\ old \in Row /\ rows \in [Jobs -> Row]
      /\ old.status \in {"RUNNING", "SUBMITTED", "CANCELLED"}
      /\ old.status # "CANCELLED" => old.hash = worker.hash /\ old.bytes = old.hash
      /\ old.hash # NoTx => old.hash.target = j
      /\ worker.hash # NoTx => worker.hash.target = j
      /\ worker.pc \in {"complete", "defer"} => worker.hash # NoTx
    BY <1>1 DEF OInv, Types, RowsIntact, CopyStands, Busy, Following
<1>3. worker' \in WorkerType /\ worker'.pc = "sleep" /\ worker'.pc \notin Busy
    BY <1>1, WorkerTypes DEF Resting, Busy, Preparing, Following
<1>4. CopyStands'
    BY <1>3 DEF CopyStands
<1>5. PICK row \in {old, CancelObsolete(old), CompleteRow(old, worker.hash),
                   DeferSubmitted(old, worker.hash), FailRow(old, worker.hash)} :
          /\ rows' = [rows EXCEPT ![j] = row]
          /\ \/ worker.pc = "cancel" /\ row = CancelObsolete(old)
             \/ worker.pc = "complete" /\ row = CompleteRow(old, worker.hash)
             \/ worker.pc = "defer" /\ row = DeferSubmitted(old, worker.hash)
             \/ worker.pc = "fail" /\ row = FailRow(old, worker.hash)
    BY DEF Cancel, Complete, Defer, Fail, Write, At
<1>6. /\ row \in Row
      /\ \/ row = old
         \/ row.status = "CANCELLED" /\ row.hash = old.hash
         \/ worker.pc = "complete" /\ row.status = "SUCCEEDED" /\ row.hash = worker.hash
         \/ /\ worker.pc = "defer" /\ row.status = "SUBMITTED" /\ row.hash = worker.hash
            /\ row.bytes = old.bytes /\ old.status # "CANCELLED"
         \/ worker.pc = "fail" /\ row = [NewRow EXCEPT !.status = "RETRY"]
  <2>1. CASE worker.pc = "cancel"
    BY <1>2, <1>5, <2>1 DEF CancelObsolete, Unlocked, Row, Statuses, Envelope
  <2>2. CASE worker.pc = "complete"
    BY <1>1, <1>2, <1>5, <2>2 DEF CompleteRow, Unlocked, Row, Statuses, Envelope, WorkerType
  <2>3. CASE worker.pc = "defer"
    BY <1>1, <1>2, <1>5, <2>3 DEF DeferSubmitted, Unlocked, Row, Statuses, Waits, WorkerType
  <2>4. CASE worker.pc = "fail"
    BY <1>2, <1>5, <2>4, RowTypes DEF FailRow, NewRow, Row, Statuses
  <2> QED
    BY <1>1, <2>1, <2>2, <2>3, <2>4
<1>7. /\ row.status \in {"PENDING", "RETRY", "RUNNING", "SUBMITTED"} => row.bytes = row.hash
      /\ row.status = "SUBMITTED" => row.hash # NoTx
      /\ row.hash # NoTx => row.hash.target = j
    BY <1>2, <1>6 DEF NewRow, OInv, RowsIntact
<1>8. ASSUME reorgs = 0
      PROVE  /\ \A tx \in pool : tx.target = j =>
                   row.status = "CANCELLED" \/ (row.hash # NoTx /\ row.hash.nonce = tx.nonce)
             /\ row.status = "SUCCEEDED" => j \in final.done
  <2>1. \A tx \in pool : tx.target = j =>
            /\ worker.pc # "fail" /\ worker.hash # NoTx /\ worker.hash.nonce = tx.nonce
            /\ old.status # "CANCELLED" => old.hash # NoTx /\ old.hash.nonce = tx.nonce
    BY <1>2, <1>8 DEF OInv, CallsTracked
  <2>2. worker.pc = "complete" => j \in final.done
    BY <1>8 DEF OInv, CompletionsFinal
  <2> QED
    BY <1>2, <1>6, <2>1, <2>2 DEF NewRow
<1> HIDE DEF j, old
<1> QED
    BY <1>1, <1>2, <1>3, <1>4, <1>5, <1>6, <1>7, <1>8, WriteStep
\* The bytes are durable before they are sent, and of the call the row had, if any.
LEMMA PersistStep ==
    ASSUME OInv, Persist \/ PersistReplacement
    PROVE  OInv'
<1> DEFINE j == worker.job
           old == rows[worker.job]
           row == MarkPrepared(old, worker.bytes)
<1>1. /\ worker \in WorkerType /\ CopyStands /\ worker.pc \in {"persist", "persistReplacement"}
      /\ UNCHANGED <<nodeVars, legacy, projected>> /\ legacy \in LegacyType
    BY DEF OInv, Types, Persist, PersistReplacement, At, Rest
<1>2. /\ worker.pc \in Busy /\ j \in Jobs /\ old \in Row /\ rows \in [Jobs -> Row]
      /\ worker.bytes \in Tx /\ worker.bytes.target = j
      /\ worker.hash # NoTx => worker.hash.target = j
      /\ worker.pc = "persist" => worker.hash = NoTx
      /\ worker.pc = "persistReplacement" =>
             worker.hash # NoTx /\ worker.bytes.nonce = worker.hash.nonce
    BY <1>1 DEF OInv, Types, CopyStands, Busy, Preparing, Following
<1>3. reorgs = 0 => \A tx \in pool : tx.target = j =>
          /\ worker.pc = "persistReplacement" /\ worker.hash.nonce = tx.nonce
          /\ worker.bytes.nonce = tx.nonce
    BY <1>1, <1>2 DEF OInv, CallsTracked
<1>4. worker.bytes # NoTx /\ worker.bytes \in Envelope
    BY <1>2, EnvelopeFields DEF Envelope
<1>5. CASE old.locked
  <2>1. /\ rows' = [rows EXCEPT ![j] = row]
        /\ \E p \in {"broadcast", "broadcastReplacement"} :
              \/ worker' = [worker EXCEPT !.pc = p, !.hash = worker.bytes, !.aged = FALSE]
              \/ worker' = [worker EXCEPT !.pc = p, !.hash = worker.bytes]
    BY <1>5 DEF Persist, PersistReplacement, Write
  <2>2. /\ row \in Row /\ row.status = "SUBMITTED"
        /\ row.hash = worker.bytes /\ row.bytes = worker.bytes
    BY <1>2, <1>4 DEF MarkPrepared, Unlocked, Row, Statuses, Waits
  <2>3. /\ worker' \in WorkerType /\ worker'.pc \in {"broadcast", "broadcastReplacement"}
        /\ worker'.job = j /\ worker'.hash = worker.bytes /\ worker'.bytes = worker.bytes
    BY <1>1, <1>4, <2>1 DEF WorkerType, Busy, Following
  <2> HIDE DEF row
  <2>4. rows'[j] = row
    BY <1>2, <2>1
  <2>5. CopyStands'
    BY <1>2, <1>4, <2>2, <2>3, <2>4 DEF CopyStands, Preparing, Following
  <2>6. reorgs = 0 =>
          /\ \A tx \in pool : tx.target = j =>
                /\ row.status = "CANCELLED" \/ (row.hash # NoTx /\ row.hash.nonce = tx.nonce)
                /\ worker'.pc \in Busy /\ worker'.job = j =>
                      /\ worker'.pc # "fail" /\ worker'.hash # NoTx
                      /\ worker'.hash.nonce = tx.nonce
          /\ row.status = "SUCCEEDED" => j \in final.done
    BY <1>3, <1>4, <2>2, <2>3
  <2>7. legacy' \in LegacyType /\ worker'.pc \notin {"head", "complete"}
    BY <1>1, <2>3
  <2> HIDE DEF j, old
  <2> QED
    BY <1>1, <1>2, <1>4, <2>1, <2>2, <2>3, <2>5, <2>6, <2>7, WriteStep
<1>6. CASE ~old.locked
  <2>1. /\ rows' = rows
        /\ \/ worker.pc = "persist" /\ GoTo("fail")
           \/ worker.pc = "persistReplacement" /\ GoTo("defer")
    BY <1>6 DEF Persist, PersistReplacement, At
  <2>2. /\ worker' \in WorkerType /\ worker'.pc \in {"fail", "defer"}
        /\ worker'.job = j /\ worker'.hash = worker.hash
        /\ worker'.pc = "fail" => worker.pc = "persist"
        /\ worker'.pc = "defer" => worker.pc = "persistReplacement"
    BY <1>1, <2>1, GoToFields DEF Busy, Following
  <2>3. CopyStands'
    BY <1>1, <1>2, <2>1, <2>2 DEF CopyStands, Preparing, Following
  <2> QED
    BY <1>1, <1>2, <1>3, <2>1, <2>2, <2>3, ReadStep
<1> QED
    BY <1>5, <1>6

\* Time passes over rows, and the indexer cancels what is final: calls stay where they are.
LEMMA TimeStep ==
    ASSUME OInv,
           Wake \/ (\E j \in Jobs : Due(j) \/ LeaseExpires(j) \/ Ages(j) \/ Project(j))
    PROVE  OInv'
<1>1. /\ UNCHANGED nodeVars /\ legacy' \in LegacyType /\ projected' \subseteq Jobs
      /\ \/ UNCHANGED worker
         \/ GoTo("select") /\ UNCHANGED projected
    BY DEF Wake, Due, LeaseExpires, Ages, Project, Rest, OInv, Types
<1>2. /\ worker' \in WorkerType
      /\ UNCHANGED worker \/ worker'.pc = "select"
    BY <1>1, GoToFields DEF OInv, Types, Resting
<1>3. /\ rows' \in [Jobs -> Row]
      /\ \A j \in Jobs : /\ rows'[j].hash = rows[j].hash /\ rows'[j].bytes = rows[j].bytes
                        /\ rows'[j].status \in {rows[j].status, "CANCELLED"}
  <2>0. rows \in [Jobs -> Row]
    BY DEF OInv, Types
  <2>1. CASE Wake
    <3> DEFINE woken(j) == [rows[j] EXCEPT !.wait = IF @ = "poll" THEN "due" ELSE @]
    <3>1. rows' = [j \in Jobs |-> woken(j)]
        BY <2>1 DEF Wake
    <3>2. ASSUME NEW j \in Jobs
          PROVE  /\ woken(j) \in Row /\ woken(j).hash = rows[j].hash
                 /\ woken(j).bytes = rows[j].bytes /\ woken(j).status = rows[j].status
        <4>1. rows[j] \in Row
            BY <2>0
        <4> QED
            BY <4>1 DEF Row, Waits
    <3> HIDE DEF woken
    <3> QED
        BY <3>1, <3>2
  <2>2. ASSUME NEW j \in Jobs, Due(j) \/ LeaseExpires(j) \/ Ages(j) \/ Project(j)
        PROVE  /\ rows' \in [Jobs -> Row]
               /\ \A k \in Jobs :
                     /\ rows'[k].hash = rows[k].hash /\ rows'[k].bytes = rows[k].bytes
                     /\ rows'[k].status \in {rows[k].status, "CANCELLED"}
    <3>1. PICK row \in {[rows[j] EXCEPT !.wait = "due"], [rows[j] EXCEPT !.stale = TRUE],
                       [rows[j] EXCEPT !.aged = TRUE], [rows[j] EXCEPT !.status = "CANCELLED"]} :
             rows' = [rows EXCEPT ![j] = row]
        BY <2>0, <2>2 DEF Due, LeaseExpires, Ages, Project, Row
    <3>2. rows[j] \in Row
        BY <2>0
    <3>3. /\ row \in Row /\ row.hash = rows[j].hash /\ row.bytes = rows[j].bytes
          /\ row.status \in {rows[j].status, "CANCELLED"}
        BY <3>1, <3>2 DEF Row, Waits, Statuses
    <3> QED
        BY <2>0, <3>1, <3>3
  <2> QED
    BY <2>1, <2>2
<1>4. Types'
    BY <1>1, <1>2, <1>3 DEF OInv, Types, NodeTypes, nodeVars
<1>5. RowsIntact'
    BY <1>3 DEF OInv, RowsIntact
<1>6. CopyStands'
  <2>1. "select" \notin Busy
    BY DEF Busy, Preparing, Following
  <2> QED
    BY <1>2, <1>3, <2>1 DEF OInv, CopyStands
<1>7. ASSUME reorgs = 0 PROVE NoncesInOrder' /\ CallsTracked' /\ CompletionsFinal'
  <2>1. NoncesInOrder'
    BY <1>1, <1>7 DEF OInv, NoncesInOrder, nodeVars, Receipts, LatestNonce
  <2>2. CallsTracked'
    BY <1>1, <1>2, <1>3, <1>7 DEF OInv, CallsTracked, nodeVars, Busy, Preparing, Following
  <2>3. CompletionsFinal'
    BY <1>1, <1>2, <1>3, <1>7 DEF OInv, CompletionsFinal, MovedAtDepth, nodeVars
  <2> QED
    BY <2>1, <2>2, <2>3
<1> QED
    BY <1>1, <1>4, <1>5, <1>6, <1>7 DEF OInv, nodeVars
-----------------------------------------------------------------------------
(* Steps of the node.                                                       *)

\* A block that spends the latest nonce, or none of this account.
LEMMA BlockStep ==
    ASSUME OInv, NEW b \in SoundBlock, Extend(b), BlockPassed, pool' \subseteq pool,
           IsFiniteSet(pool'),
           reorgs = 0 =>
               \/ b.sent = {}
               \/ \E r \in b.sent : /\ b.sent = {r} /\ r.tx.nonce = LatestNonce
                                   /\ \A tx \in pool' : tx.nonce # LatestNonce
    PROVE  OInv'
<1>1. /\ NodeTypes /\ final' \in SoundBlock /\ recent' \in [1..Confirmations -> SoundBlock]
      /\ Receipts' = Receipts \union b.sent
      /\ final.done \subseteq final'.done
      /\ UNCHANGED <<reorgs, drops, rows, legacy, projected>>
    BY ExtendStep DEF OInv, Types, Extend, BlockPassed
<1>2. /\ worker \in WorkerType /\ worker' \in WorkerType
      /\ worker'.pc = worker.pc /\ worker'.job = worker.job
      /\ worker'.hash = worker.hash /\ worker'.bytes = worker.bytes
      /\ worker'.depth <= worker.depth + 1
  <2>1. worker \in WorkerType /\ worker.depth \in Nat
    BY DEF OInv, Types, WorkerType
  <2> DEFINE deeper == IF At("head") THEN Min({worker.depth + 1, Confirmations})
                       ELSE worker.depth
  <2>2. deeper \in Nat /\ deeper <= worker.depth + 1
    BY <2>1, MinOfTwo, NodeConstants
  <2>3. worker' = [worker EXCEPT !.depth = deeper]
    BY <2>1 DEF BlockPassed, WorkerType
  <2> HIDE DEF deeper
  <2> QED
    BY <2>1, <2>2, <2>3 DEF WorkerType
<1>3. Types'
    BY <1>1, <1>2 DEF OInv, Types, NodeTypes
<1>4. RowsIntact' /\ CopyStands'
    BY <1>1, <1>2 DEF OInv, RowsIntact, CopyStands
<1>5. ASSUME reorgs = 0 PROVE NoncesInOrder' /\ CallsTracked' /\ CompletionsFinal'
  <2>1. NoncesInOrder'
    <3>1. NoncesInOrder /\ LatestNonce \in Nat /\ IsFiniteSet(Receipts)
        BY <1>1, <1>5, ReceiptsFinite DEF OInv
    <3>2. \A tx \in pool : tx.nonce \in Nat
        BY <1>1 DEF NodeTypes, Tx
    <3>3. \A r \in Receipts : r.tx.nonce \in Nat
        BY <1>1, ReceiptsFinite DEF Receipt, Tx
    <3>4. CASE b.sent = {}
      <4>1. Receipts' = Receipts /\ LatestNonce' = LatestNonce
        BY <1>1, <3>4 DEF LatestNonce
      <4> QED
        BY <3>1, <4>1 DEF NoncesInOrder
    <3>5. CASE b.sent # {}
      <4>1. PICK r \in b.sent : /\ b.sent = {r} /\ r.tx.nonce = LatestNonce
                               /\ \A tx \in pool' : tx.nonce # LatestNonce
        BY <1>5, <3>5
      <4>2. r \notin Receipts
        BY <3>1, <4>1 DEF NoncesInOrder
      <4>3. LatestNonce' = LatestNonce + 1
        <5>1. Cardinality(Receipts \union {r}) = Cardinality(Receipts) + 1
            BY <3>1, <4>2, FS_AddElement
        <5>2. Receipts' = Receipts \union {r}
            BY <1>1, <4>1
        <5> QED
            BY <5>1, <5>2 DEF LatestNonce
      <4>4. \A q \in Receipts' : q.tx.nonce < LatestNonce'
        BY <1>1, <3>1, <3>3, <4>1, <4>3 DEF NoncesInOrder
      <4>5. \A tx \in pool' : tx.nonce >= LatestNonce'
        BY <3>1, <3>2, <4>1, <4>3 DEF NoncesInOrder
      <4> QED
        BY <3>1, <4>4, <4>5 DEF NoncesInOrder
    <3> QED
        BY <3>4, <3>5
  <2>2. CallsTracked'
    BY <1>1, <1>2, <1>5 DEF OInv, CallsTracked
  <2>3. CompletionsFinal'
    <3>1. CompletionsFinal
        BY <1>5 DEF OInv
    <3>2. ASSUME worker.pc = "head" PROVE MovedAtDepth(worker.depth)'
      <4>1. CASE worker.job \in final.done
        BY <1>1, <1>2, <4>1 DEF MovedAtDepth
      <4>2. CASE worker.job \notin final.done
        <5>1. PICK i \in 1..Confirmations :
                  worker.job \in recent[i].done /\ worker.depth <= Confirmations - i
            BY <3>1, <3>2, <4>2 DEF CompletionsFinal, MovedAtDepth
        <5>2. \/ worker.job \in final'.done
              \/ i - 1 \in 1..Confirmations /\ worker.job \in recent'[i - 1].done
            BY <1>1, <5>1, ExtendStep
        <5>3. worker'.depth <= Confirmations - (i - 1)
            BY <1>2, <5>1, NodeConstants DEF WorkerType
        <5> QED
            BY <1>2, <5>2, <5>3 DEF MovedAtDepth
      <4> QED
        BY <4>1, <4>2
    <3> QED
        BY <1>1, <1>2, <3>1, <3>2 DEF CompletionsFinal
  <2> QED
    BY <2>1, <2>2, <2>3
<1> QED
    BY <1>1, <1>3, <1>4, <1>5 DEF OInv

\* A transaction of this account, of another one, or none is mined.
LEMMA ChainStep ==
    ASSUME OInv, Mine \/ (\E j \in Jobs : Settle(j)) \/ QuietBlock
    PROVE  OInv'
<1>1. CASE Mine
  <2>1. PICK tx \in pool : MineTransaction(tx) /\ BlockPassed
    BY <1>1 DEF Mine
  <2> DEFINE ok == tx.target \notin Done
             r == [tx |-> tx, ok |-> ok]
             b == Block({r}, IF ok THEN {tx.target} ELSE {})
  <2>2. /\ tx \in Tx /\ tx.target \in Target /\ NodeTypes
    BY DEF OInv, Types, NodeTypes, Tx
  <2>3. b \in SoundBlock /\ r \in b.sent /\ b.sent = {r} /\ r.tx = tx
    <3>1. IsFiniteSet({r})
        BY FS_Singleton
    <3>2. r \in Receipt /\ r.tx = tx /\ r.ok = ok
        BY <2>2 DEF Receipt
    <3>3. b = [sent |-> {r}, done |-> IF ok THEN {tx.target} ELSE {}]
        BY DEF Block
    <3> HIDE DEF b, r
    <3> QED
        BY <2>2, <3>1, <3>2, <3>3 DEF SoundBlock
  <2>4. Extend(b) /\ pool' = pool \ {tx} /\ tx.nonce = LatestNonce
    BY <2>1 DEF MineTransaction
  <2>5. IsFiniteSet(pool')
    BY <2>2, <2>4, FS_RemoveElement DEF NodeTypes
  <2>6. reorgs = 0 => \A other \in pool' : other.nonce # LatestNonce
    BY <2>4 DEF OInv, NoncesInOrder
  <2> HIDE DEF b, r
  <2> QED
    BY <2>1, <2>3, <2>4, <2>5, <2>6, BlockStep
<1>2. CASE \E j \in Jobs : Settle(j)
  <2>1. PICK j \in Jobs : MineOther(j) /\ BlockPassed
    BY <1>2 DEF Settle
  <2> DEFINE b == Block({}, {j})
  <2>2. b \in SoundBlock /\ b.sent = {}
    BY KeeperConstants, FS_EmptySet DEF SoundBlock, Block
  <2>3. Extend(b) /\ pool' = pool /\ IsFiniteSet(pool')
    BY <2>1 DEF MineOther, OInv, Types, NodeTypes
  <2> HIDE DEF b
  <2> QED
    BY <2>1, <2>2, <2>3, BlockStep
<1>3. CASE QuietBlock
  <2>1. EmptyBlock \in SoundBlock /\ EmptyBlock.sent = {}
    BY FS_EmptySet DEF SoundBlock, Block, EmptyBlock
  <2>2. Extend(EmptyBlock) /\ pool' = pool /\ IsFiniteSet(pool') /\ BlockPassed
    BY <1>3 DEF QuietBlock, MineNothing, OInv, Types, NodeTypes
  <2> QED
    BY <2>1, <2>2, BlockStep
<1> QED
    BY <1>1, <1>2, <1>3

\* After a reorganisation only what does not rest on its blocks is claimed.
LEMMA ReorgStep ==
    ASSUME OInv, Reorg
    PROVE  OInv'
<1>1. PICK k \in 1..Confirmations : Reorganise(k) /\ UNCHANGED keeperVars
    BY DEF Reorg
<1> DEFINE undone == UNION {recent[i].sent : i \in (Confirmations - k + 1)..Confirmations}
           back == {r.tx : r \in undone}
<1>2. NodeTypes /\ undone \subseteq Receipts
    BY NodeConstants DEF OInv, Types, Receipts
<1>3. back \subseteq Tx /\ IsFiniteSet(back)
  <2>1. IsFiniteSet(undone) /\ undone \subseteq Receipt
    BY <1>2, ReceiptsFinite, FS_Subset
  <2> DEFINE f == [r \in undone |-> r.tx]
  <2>2. f \in Surjection(undone, back)
    BY DEF Surjection
  <2> QED
    BY <2>1, <2>2, FS_Surjection DEF Receipt
<1>4. /\ pool' = pool \union back /\ reorgs' = reorgs + 1 /\ UNCHANGED <<final, drops>>
      /\ recent' = [i \in 1..Confirmations |->
                       IF i > Confirmations - k THEN EmptyBlock ELSE recent[i]]
    BY <1>1 DEF Reorganise
<1> HIDE DEF back, undone
<1>5. EmptyBlock \in SoundBlock
    BY FS_EmptySet DEF SoundBlock, Block, EmptyBlock
<1>6. NodeTypes'
  <2>1. IsFiniteSet(pool') /\ pool' \subseteq Tx
    BY <1>2, <1>3, <1>4, FS_Union DEF NodeTypes
  <2>2. recent' \in [1..Confirmations -> SoundBlock]
    BY <1>2, <1>4, <1>5 DEF NodeTypes
  <2> QED
    BY <1>2, <1>4, <2>1, <2>2 DEF NodeTypes
<1>7. Types' /\ RowsIntact' /\ CopyStands'
    BY <1>1, <1>6 DEF OInv, Types, RowsIntact, CopyStands, keeperVars
<1>8. reorgs' # 0
    BY <1>2, <1>4 DEF NodeTypes
<1> QED
    BY <1>7, <1>8 DEF OInv

LEMMA DropStep ==
    ASSUME OInv, Drop
    PROVE  OInv'
<1>1. PICK tx \in pool : Evict(tx) /\ UNCHANGED keeperVars
    BY DEF Drop
<1>2. /\ pool' = pool \ {tx} /\ drops' = drops + 1 /\ UNCHANGED <<final, recent, reorgs>>
      /\ UNCHANGED <<rows, worker, legacy, projected>>
    BY <1>1 DEF Evict, keeperVars
<1>3. NodeTypes'
    BY <1>2, FS_RemoveElement DEF OInv, Types, NodeTypes
<1>4. Types' /\ RowsIntact' /\ CopyStands'
    BY <1>2, <1>3 DEF OInv, Types, RowsIntact, CopyStands
<1>5. reorgs = 0 => NoncesInOrder' /\ CallsTracked' /\ CompletionsFinal'
    BY <1>2 DEF OInv, NoncesInOrder, CallsTracked, CompletionsFinal, MovedAtDepth, Receipts,
                LatestNonce
<1> QED
    BY <1>2, <1>4, <1>5 DEF OInv

-----------------------------------------------------------------------------

LEMMA InitSound ==
    ASSUME Init
    PROVE  OInv
<1>1. EmptyBlock \in SoundBlock /\ EmptyBlock.sent = {} /\ EmptyBlock.done = {}
    BY FS_EmptySet DEF SoundBlock, Block, EmptyBlock
<1>2. NodeTypes
    BY <1>1, FS_EmptySet, NodeConstants DEF Init, NodeInit, NodeTypes
<1>3. Types
    BY <1>2, RowTypes, WorkerTypes DEF Init, Types, Resting
<1>4. worker.pc = "boot" /\ worker.pc \notin Busy
    BY DEF Init, Idle, Busy, Preparing, Following
<1>5. RowsIntact /\ CopyStands
    BY <1>4 DEF Init, RowsIntact, CopyStands, NewRow, NoTx
<1>6. NoncesInOrder /\ CallsTracked
    BY <1>1, <1>4 DEF Init, NodeInit, NoncesInOrder, CallsTracked, Receipts
<1>7. CompletionsFinal
    BY <1>4 DEF Init, NewRow, CompletionsFinal
<1> QED
    BY <1>3, <1>5, <1>6, <1>7 DEF OInv

LEMMA StepSound ==
    ASSUME OInv, [Next]_vars
    PROVE  OInv'
<1>1. CASE UNCHANGED vars
    BY <1>1 DEF vars, nodeVars, keeperVars, OInv, Types, NodeTypes, RowsIntact, CopyStands,
                NoncesInOrder, CallsTracked, CompletionsFinal, MovedAtDepth, Receipts, LatestNonce
<1>2. CASE Next
  <2>1. CASE WorkerStep
    BY <2>1, RestStep, CheckTargetStep, PrepareStep, ReadReceiptStep, ReadHeadStep,
       ReadNoncesStep, ReplaceStep, WorkerSends, EndStep, PersistStep, TimeStep
       DEF WorkerStep
  <2>2. CASE \E j \in Jobs : Claim(j)
    BY <2>2, ClaimStep
  <2>3. CASE RpcFault \/ Crash \/ LegacyPrepare \/ LegacySend
    BY <2>3, RpcFaultStep, RestStep, LegacySendStep
  <2>4. CASE \E j \in Jobs : Due(j) \/ LeaseExpires(j) \/ Ages(j) \/ Project(j)
    BY <2>4, TimeStep
  <2>5. CASE (\E j \in Jobs : Settle(j)) \/ Mine \/ QuietBlock
    BY <2>5, ChainStep
  <2>6. CASE Reorg \/ Drop
    BY <2>6, ReorgStep, DropStep
  <2> QED
    BY <1>2, <2>1, <2>2, <2>3, <2>4, <2>5, <2>6 DEF Next
<1> QED
    BY <1>1, <1>2

LEMMA InvariantSuffices ==
    ASSUME OInv
    PROVE  OutboxIsSound
<1>1. KeeperTypeOK
  <2>1. \A j \in Jobs : rows[j] \in Row
    BY DEF OInv, Types
  <2>2. Receipts \subseteq Receipt
    BY ReceiptsFinite DEF OInv, Types
  <2>3. final.done \subseteq Target
    BY DEF OInv, Types, NodeTypes, SoundBlock
  <2> QED
    BY <2>1, <2>2, <2>3 DEF KeeperTypeOK, Row, Envelope, Receipt, OInv, Types, NodeTypes
<1>2. LiveCallsAreTracked
    BY DEF OInv, CallsTracked, LiveCallsAreTracked
<1>3. EnvelopeIntact
    BY DEF OInv, RowsIntact, EnvelopeIntact
<1>4. SucceededIsFinal
    BY DEF OInv, CompletionsFinal, SucceededIsFinal
<1> QED
    BY <1>1, <1>2, <1>3, <1>4 DEF OutboxIsSound

(***************************************************************************)
(* The keeper's outbox is sound at every moment, for any jobs and any      *)
(* confirmation depth, through any number of crashes, failing calls,       *)
(* evictions and V1 transactions of the same account: stored bytes match   *)
(* their hash, and while no block is reorganised away no call escapes its  *)
(* row and no row succeeds too early.                                      *)
(***************************************************************************)
THEOREM OutboxSoundness == Spec => []OutboxIsSound
<1>1. Init => OInv
    BY InitSound
<1>2. OInv /\ [Next]_vars => OInv'
    BY StepSound
<1>3. OInv => OutboxIsSound
    BY InvariantSuffices
<1> QED
    BY <1>1, <1>2, <1>3, PTL DEF Spec
=============================================================================
