---------------------------- MODULE KeeperOutbox ----------------------------
(***************************************************************************)
(* The V2 keeper (apps/indexer/src/v2-keeper.ts): one worker process takes *)
(* due rows of the automation_jobs table, signs one lifecycle call for     *)
(* each, stores the signed bytes before it broadcasts them, and follows    *)
(* the transaction to its confirmation depth, across crashes, failing RPC  *)
(* calls, lost transactions and reorganisations.  Every RPC read and every *)
(* database statement is a step of its own.  The indexer cancels the row   *)
(* of a target that is final on chain, and the V1 keeper of the same       *)
(* process sends its own transactions from the same account.               *)
(***************************************************************************)
EXTENDS MonadNode

CONSTANTS
    Jobs,          \* rows of automation_jobs, one lifecycle call each
    RepoJobs,      \* those of the repo market, whose target is read before a call
    LegacyTarget,  \* stands for the V1 repos the V1 keeper acts upon
    MaxLag,        \* V2_AUTOMATION_MAX_CHECKPOINT_LAG
    MaxFaults,     \* bound: failing RPC calls
    MaxCrashes,    \* bound: restarts of the process
    MaxLegacy,     \* bound: transactions of the V1 keeper
    MaxMishaps     \* bound: all of these together

ASSUME KeeperConstants ==
    /\ RepoJobs \subseteq Jobs
    /\ Target = Jobs \union {LegacyTarget}
    /\ LegacyTarget \notin Jobs /\ "none" \notin Target
    /\ MaxLag \in Nat /\ MaxFaults \in Nat /\ MaxCrashes \in Nat
    /\ MaxLegacy \in Nat /\ MaxMishaps \in Nat

VARIABLES
    rows,        \* automation_jobs
    worker,      \* the pass the worker is in, with its copy of the claimed row
    legacy,      \* the V1 keeper between reading a nonce and sending
    projected,   \* targets whose terminal event the indexer has projected
    faults, crashes, legacySent

keeperVars == <<rows, worker, legacy, projected, faults, crashes, legacySent>>
vars == <<nodeVars, keeperVars>>

MayMishap == reorgs + drops + faults + crashes + legacySent < MaxMishaps

NoTx == [target |-> "none", nonce |-> 0, fee |-> 0]
Statuses == {"PENDING", "RETRY", "RUNNING", "SUBMITTED", "SUCCEEDED", "CANCELLED"}

\* nextAttemptAt against the clock: reached, one poll interval away, or further.
Waits == {"due", "poll", "later"}

NewRow == [status |-> "PENDING", wait |-> "later", locked |-> FALSE, stale |-> FALSE,
           hash |-> NoTx, bytes |-> NoTx, aged |-> FALSE]
Idle(pc) == [pc |-> pc, job |-> LegacyTarget, hash |-> NoTx, bytes |-> NoTx,
             aged |-> FALSE, depth |-> 0]
LegacyIdle == [pc |-> "idle", nonce |-> 0]

Init ==
    /\ NodeInit
    /\ rows = [j \in Jobs |-> NewRow]
    /\ worker = Idle("boot")
    /\ legacy = LegacyIdle
    /\ projected = {}
    /\ faults = 0 /\ crashes = 0 /\ legacySent = 0

-----------------------------------------------------------------------------
(* The pure decisions of the worker. *)

\* Every source checkpoint inside the bounded window below the finalized head, the lag
\* counted in final blocks that hold a terminal event: the others change no row.
CheckpointReady == Cardinality((final.done \intersect Jobs) \ projected) <= MaxLag

\* Deviation: the lease of a stopped worker never runs out.
ClaimableWhileLeased(row) ==
    row.status \in {"PENDING", "RETRY", "SUBMITTED"} /\ row.wait = "due"

\* What the claim selects: due rows, and running rows whose lease has run out.
Claimable(row) ==
    \/ row.status \in {"PENDING", "RETRY", "SUBMITTED"} /\ row.wait = "due"
    \/ row.status = "RUNNING" /\ row.stale

\* order by SUBMITTED first; MAX_BATCH = 1.
Candidates ==
    LET claimable == {j \in Jobs : Claimable(rows[j])}
        submitted == {j \in claimable : rows[j].status = "SUBMITTED"}
    IN  IF submitted # {} THEN submitted ELSE claimable

\* Deviation: the next nonce to be used counts as used.
StaleReasonOffByOne(nonce, latest, pending, aged) ==
    IF latest >= nonce THEN "NONCE_CONSUMED"
    ELSE IF aged /\ pending <= nonce THEN "MISSING_FROM_PENDING_POOL"
    ELSE "NONE"

StaleReason(nonce, latest, pending, aged) ==
    IF latest > nonce THEN "NONCE_CONSUMED"
    ELSE IF aged /\ pending <= nonce THEN "MISSING_FROM_PENDING_POOL"
    ELSE "NONE"

\* The same nonce and call at a higher fee; the levels above MaxFee are not told apart.
Replacement(tx) == [tx EXCEPT !.fee = Min({@ + 1, MaxFee})]

-----------------------------------------------------------------------------
(* The database statements, each an atomic update with its WHERE clause. *)

Unlocked(row) == [row EXCEPT !.locked = FALSE, !.stale = FALSE]

\* WHERE id AND lockedBy: the status is not looked at.
MarkPrepared(row, tx) ==
    [Unlocked(row) EXCEPT !.status = "SUBMITTED", !.hash = tx, !.bytes = tx,
                          !.aged = FALSE, !.wait = "poll"]

DeferSubmitted(row, hash) ==
    IF row.status \in {"RUNNING", "SUBMITTED"}
    THEN [Unlocked(row) EXCEPT !.status = "SUBMITTED", !.hash = hash, !.wait = "poll"]
    ELSE row

\* Lifecycle rows are never exhausted: RETRY with a bounded delay, envelope cleared.
FailRow(row, hash) ==
    IF /\ row.status \in {"RUNNING", "SUBMITTED"}
       /\ row.locked \/ (hash # NoTx /\ row.hash = hash)
    THEN [NewRow EXCEPT !.status = "RETRY"]
    ELSE row

CompleteRow(row, hash) ==
    IF row.status \in {"RUNNING", "SUBMITTED"} /\ (row.locked \/ row.hash = hash)
    THEN [Unlocked(row) EXCEPT !.status = "SUCCEEDED", !.hash = hash, !.bytes = NoTx]
    ELSE row

CancelObsolete(row) ==
    IF row.status = "RUNNING" /\ row.locked
    THEN [Unlocked(row) EXCEPT !.status = "CANCELLED", !.bytes = NoTx]
    ELSE row

-----------------------------------------------------------------------------
(* The worker's pass. *)

At(pc) == worker.pc = pc
GoTo(pc) == worker' = [worker EXCEPT !.pc = pc]
Write(row) == rows' = [rows EXCEPT ![worker.job] = row]
EndPass == worker' = Idle("sleep")
ReadOnly == UNCHANGED <<nodeVars, rows, legacy, projected, faults, crashes, legacySent>>
Rest == UNCHANGED <<nodeVars, legacy, projected, faults, crashes, legacySent>>

\* The loop sleeps KEEPER_POLL_MS, at least as long as a row deferred in the last pass
\* waits; with the gate closed the pass ends at once and the loop sleeps again.
Wake ==
    /\ At("sleep")
    /\ CheckpointReady
    /\ rows' = [j \in Jobs |-> [rows[j] EXCEPT !.wait = IF @ = "poll" THEN "due" ELSE @]]
    /\ GoTo("select")
    /\ Rest

\* A new process scans at once, before any wait set by the last one has passed.
Boot ==
    /\ At("boot")
    /\ GoTo(IF CheckpointReady THEN "select" ELSE "sleep")
    /\ ReadOnly

\* The select and the conditional UPDATE that takes the lease; the worker goes on with
\* the row it returns.
Claim(j) ==
    /\ At("select")
    /\ j \in Candidates
    /\ rows' = [rows EXCEPT ![j].status = "RUNNING", ![j].locked = TRUE, ![j].stale = FALSE]
    /\ worker' = [worker EXCEPT !.pc = "check", !.job = j, !.hash = rows[j].hash,
                                !.bytes = rows[j].bytes, !.aged = rows[j].aged]
    /\ Rest

NothingDue ==
    /\ At("select")
    /\ Candidates = {}
    /\ EndPass
    /\ ReadOnly

\* Only the repo calls read their target first; a stored transaction is followed up.
CheckTarget ==
    /\ At("check")
    /\ GoTo(IF worker.job \in RepoJobs /\ worker.job \in Done THEN "cancel"
            ELSE IF worker.hash # NoTx THEN "receipt" ELSE "prepare")
    /\ ReadOnly

Cancel ==
    /\ At("cancel")
    /\ Write(CancelObsolete(rows[worker.job]))
    /\ EndPass
    /\ Rest

\* Simulate the call, take the pending nonce and sign; a call that would revert fails.
Prepare ==
    /\ At("prepare")
    /\ worker' = IF worker.job \in Done THEN [worker EXCEPT !.pc = "fail"]
                 ELSE [worker EXCEPT !.pc = "persist",
                         !.bytes = [target |-> worker.job, nonce |-> PendingNonce, fee |-> 0]]
    /\ ReadOnly

\* The signed bytes are durable before the first broadcast, or the lost lease is an error.
Persist ==
    /\ At("persist")
    /\ IF rows[worker.job].locked
       THEN /\ Write(MarkPrepared(rows[worker.job], worker.bytes))
            /\ worker' = [worker EXCEPT !.pc = "broadcast", !.hash = worker.bytes, !.aged = FALSE]
       ELSE /\ GoTo("fail")
            /\ rows' = rows
    /\ Rest

Broadcast ==
    /\ At("broadcast")
    /\ Send(worker.bytes)
    /\ GoTo(IF Accepts(worker.bytes) THEN "receipt" ELSE "defer")
    /\ UNCHANGED <<final, recent, reorgs, drops, rows, legacy, projected,
                   faults, crashes, legacySent>>

\* The receipt and, in a later call, the head; depth follows the head in between.
ReadReceipt ==
    LET found == {r \in Receipts : r.tx = worker.hash} IN
    /\ At("receipt")
    /\ worker' =
         IF found = {} THEN [worker EXCEPT !.pc = "rebroadcast"]
         ELSE LET r == CHOOSE r \in found : TRUE IN
              IF r.ok THEN [worker EXCEPT !.pc = "head", !.depth = Depth(r)]
              ELSE [worker EXCEPT !.pc = "fail"]
    /\ ReadOnly

ReadHead ==
    /\ At("head")
    /\ GoTo(IF worker.depth >= Confirmations THEN "complete" ELSE "defer")
    /\ ReadOnly

Complete ==
    /\ At("complete")
    /\ Write(CompleteRow(rows[worker.job], worker.hash))
    /\ EndPass
    /\ Rest

\* The exact bytes again; whatever the node answers, the nonces are read next.
Rebroadcast ==
    /\ At("rebroadcast")
    /\ IF worker.bytes = NoTx THEN GoTo("nonces") /\ pool' = pool
       ELSE IF worker.bytes # worker.hash THEN GoTo("defer") /\ pool' = pool
       ELSE GoTo("nonces") /\ Send(worker.bytes)
    /\ UNCHANGED <<final, recent, reorgs, drops, rows, legacy, projected,
                   faults, crashes, legacySent>>

ReadNonces ==
    LET reason == StaleReason(worker.hash.nonce, LatestNonce, PendingNonce, worker.aged) IN
    /\ At("nonces")
    /\ GoTo(CASE reason = "NONCE_CONSUMED" -> "fail"
              [] reason = "MISSING_FROM_PENDING_POOL" -> "replace"
              [] OTHER -> "defer")
    /\ ReadOnly

\* The stored envelope is checked and the call simulated again before it is replaced.
Replace ==
    /\ At("replace")
    /\ worker' = IF worker.bytes = NoTx THEN [worker EXCEPT !.pc = "fail"]
                 ELSE IF worker.bytes # worker.hash \/ worker.job \in Done
                      THEN [worker EXCEPT !.pc = "defer"]
                 ELSE [worker EXCEPT !.pc = "persistReplacement",
                                     !.bytes = Replacement(worker.bytes)]
    /\ ReadOnly

PersistReplacement ==
    /\ At("persistReplacement")
    /\ IF rows[worker.job].locked
       THEN /\ Write(MarkPrepared(rows[worker.job], worker.bytes))
            /\ worker' = [worker EXCEPT !.pc = "broadcastReplacement", !.hash = worker.bytes]
       ELSE /\ GoTo("defer")
            /\ rows' = rows
    /\ Rest

BroadcastReplacement ==
    /\ At("broadcastReplacement")
    /\ Send(worker.bytes)
    /\ GoTo("defer")
    /\ UNCHANGED <<final, recent, reorgs, drops, rows, legacy, projected,
                   faults, crashes, legacySent>>

Defer ==
    /\ At("defer")
    /\ Write(DeferSubmitted(rows[worker.job], worker.hash))
    /\ EndPass
    /\ Rest

Fail ==
    /\ At("fail")
    /\ Write(FailRow(rows[worker.job], worker.hash))
    /\ EndPass
    /\ Rest

\* An RPC call fails: before the bytes are durable the job is retried, afterwards
\* deferred; a failing receipt or head read counts as no receipt.  A send may have
\* reached the node before its answer was lost.
RpcFault ==
    /\ faults < MaxFaults /\ MayMishap
    /\ faults' = faults + 1
    /\ \/ /\ worker.pc \in {"check", "prepare"}
          /\ GoTo(IF worker.hash = NoTx THEN "fail" ELSE "defer")
          /\ pool' = pool
       \/ /\ At("broadcast")
          /\ GoTo("defer")
          /\ pool' = pool \/ Send(worker.bytes)
       \/ /\ worker.pc \in {"receipt", "head"}
          /\ GoTo("rebroadcast")
          /\ pool' = pool
       \/ /\ worker.pc \in {"nonces", "replace"}
          /\ GoTo("defer")
          /\ pool' = pool
    /\ UNCHANGED <<final, recent, reorgs, drops, rows, legacy, projected,
                   crashes, legacySent>>

Crash ==
    /\ crashes < MaxCrashes /\ MayMishap
    /\ crashes' = crashes + 1
    /\ worker' = Idle("boot")
    /\ legacy' = LegacyIdle
    /\ UNCHANGED <<nodeVars, rows, projected, faults, legacySent>>

-----------------------------------------------------------------------------
(* Time passing over the rows. *)

Due(j) ==
    /\ rows[j].wait = "later"
    /\ rows' = [rows EXCEPT ![j].wait = "due"]
    /\ worker' = worker
    /\ Rest

LeaseExpires(j) ==
    /\ rows[j].status = "RUNNING" /\ rows[j].locked /\ ~rows[j].stale
    /\ worker.job # j
    /\ rows' = [rows EXCEPT ![j].stale = TRUE]
    /\ worker' = worker
    /\ Rest

\* V2_AUTOMATION_STALE_TX_MS has passed since the bytes were prepared.
Ages(j) ==
    /\ rows[j].status = "SUBMITTED" /\ ~rows[j].aged
    /\ rows' = [rows EXCEPT ![j].aged = TRUE]
    /\ worker' = worker
    /\ Rest

-----------------------------------------------------------------------------
(* The rest of the process: the V2 indexer and the V1 keeper. *)

\* The indexer projects a final terminal event: the row is cancelled in any status.
Project(j) ==
    /\ j \in final.done \ projected
    /\ projected' = projected \union {j}
    /\ rows' = [rows EXCEPT ![j].status = "CANCELLED"]
    /\ UNCHANGED <<nodeVars, worker, legacy, faults, crashes, legacySent>>

\* The V1 keeper's writeContract: read the pending nonce, then sign and send.
LegacyPrepare ==
    /\ legacySent < MaxLegacy /\ MayMishap
    /\ legacy.pc = "idle"
    /\ legacy' = [pc |-> "send", nonce |-> PendingNonce]
    /\ legacySent' = legacySent + 1
    /\ UNCHANGED <<nodeVars, rows, worker, projected, faults, crashes>>

LegacySend ==
    /\ legacy.pc = "send"
    /\ legacy' = LegacyIdle
    /\ Send([target |-> LegacyTarget, nonce |-> legacy.nonce, fee |-> 0])
    /\ UNCHANGED <<final, recent, reorgs, drops, rows, worker, projected,
                   faults, crashes, legacySent>>

\* A block passes: the head moves away from a receipt read before.
BlockPassed ==
    /\ worker' = [worker EXCEPT !.depth = IF At("head") THEN Min({@ + 1, Confirmations}) ELSE @]
    /\ UNCHANGED <<rows, legacy, projected, faults, crashes, legacySent>>

Mine == \E tx \in pool : MineTransaction(tx) /\ BlockPassed
Settle(j) == MineOther(j) /\ BlockPassed
QuietBlock == MineNothing /\ BlockPassed
Reorg == MayMishap /\ (\E k \in 1..Confirmations : Reorganise(k)) /\ UNCHANGED keeperVars
Drop == MayMishap /\ (\E tx \in pool : Evict(tx)) /\ UNCHANGED keeperVars

-----------------------------------------------------------------------------
WorkerStep ==
    \/ Wake \/ Boot \/ NothingDue \/ CheckTarget \/ Cancel \/ Prepare \/ Persist
    \/ Broadcast \/ ReadReceipt \/ ReadHead \/ Complete \/ Rebroadcast \/ ReadNonces
    \/ Replace \/ PersistReplacement \/ BroadcastReplacement \/ Defer \/ Fail

Next ==
    \/ WorkerStep
    \/ \E j \in Jobs : Claim(j)
    \/ RpcFault \/ Crash
    \/ \E j \in Jobs : Due(j) \/ LeaseExpires(j) \/ Ages(j) \/ Project(j) \/ Settle(j)
    \/ LegacyPrepare \/ LegacySend
    \/ Mine \/ QuietBlock \/ Reorg \/ Drop

Spec == Init /\ [][Next]_vars

(***************************************************************************)
(* The process keeps running, clocks advance, blocks are produced and      *)
(* include an executable transaction, the indexer catches up.  Selection   *)
(* takes the oldest nextAttemptAt first, so a row that is due again and    *)
(* again is selected.  Nothing obliges another account, a crash, a fault,  *)
(* a reorganisation or an eviction to happen.                              *)
(***************************************************************************)
Fairness ==
    /\ WF_vars(WorkerStep)
    /\ \A j \in Jobs : SF_vars(Claim(j))
    /\ \A j \in Jobs : WF_vars(Due(j)) /\ WF_vars(LeaseExpires(j)) /\ WF_vars(Ages(j))
    /\ \A j \in Jobs : WF_vars(Project(j))
    /\ WF_vars(LegacySend)
    /\ WF_vars(Mine) /\ WF_vars(QuietBlock)

FairSpec == Spec /\ Fairness
=============================================================================
