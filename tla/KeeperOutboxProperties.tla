----------------------- MODULE KeeperOutboxProperties -----------------------
(***************************************************************************)
(* What the durable outbox of the V2 keeper promises.                      *)
(***************************************************************************)
EXTENDS KeeperOutbox

Tx == [target : Target, nonce : Nat, fee : 0..MaxFee]

\* Types of the outbox, the worker's copy and the node.
KeeperTypeOK ==
    /\ \A j \in Jobs :
         /\ rows[j].status \in Statuses /\ rows[j].wait \in Waits
         /\ {rows[j].locked, rows[j].stale, rows[j].aged} \subseteq BOOLEAN
         /\ {rows[j].hash, rows[j].bytes} \subseteq Tx \union {NoTx}
    /\ pool \subseteq Tx
    /\ {r.tx : r \in Receipts} \subseteq Tx
    /\ final.done \subseteq Target /\ projected \subseteq Jobs

\* THREAT_MODEL: recovery can rebroadcast only the stored envelope and cannot author a
\* second call.  While no block is reorganised away, every call of a job that may still
\* execute is the one its row holds, whatever crashed, failed or timed out in between.
LiveCallsAreTracked ==
    reorgs = 0 =>
        \A tx \in pool :
            (tx.target \in Jobs /\ rows[tx.target].status # "CANCELLED") =>
                rows[tx.target].hash.nonce = tx.nonce /\ rows[tx.target].hash # NoTx

\* A submitted row holds the bytes its hash names, so that it can always be sent again
\* and replaced; a mismatch would stop the row for manual intervention.
EnvelopeIntact ==
    \A j \in Jobs : rows[j].status = "SUBMITTED" => rows[j].bytes = rows[j].hash /\ rows[j].hash # NoTx

\* Without reorganisations a row marked SUCCEEDED had its effect in a final block.
SucceededIsFinal ==
    reorgs = 0 => \A j \in Jobs : rows[j].status = "SUCCEEDED" => j \in final.done

\* The outbox can be trusted after any crash, failure or timeout: it tracks every call that may
\* still execute, can send each again, and calls nothing done that is not.
OutboxIsSound == KeeperTypeOK /\ LiveCallsAreTracked /\ EnvelopeIntact /\ SucceededIsFinal

\* Every overdue target is moved in the end, and the rows of the repo market come to rest
\* even when another account was faster: across crashes, failing RPC calls and a racing V1
\* keeper, unless the node loses a transaction or a block.
EveryJobSettles ==
    <>[](\/ /\ Jobs \subseteq final.done
            /\ \A j \in RepoJobs : rows[j].status \in {"SUCCEEDED", "CANCELLED"}
         \/ drops > 0 \/ reorgs > 0)

=============================================================================
