--------------------------- MODULE AgentExecutor ---------------------------
(***************************************************************************)
(* The queue behind AgentIntents: workers (apps/agent-executor) lease an   *)
(* intent, refresh its authorisation, record that they sign, send each     *)
(* step through Privy, report its hash and its receipt, and wait for the   *)
(* index.  Every HTTP call, and each of the two updates inside a report,   *)
(* is a step of its own; workers crash, answers get lost, leases run out.  *)
(* The chain confirms for good: a reorganisation deeper than the one       *)
(* confirmation the executor waits for is left out here.                   *)
(***************************************************************************)
EXTENDS AgentIntents

CONSTANTS
    Workers,       \* executor processes
    SlowWorkers,   \* whether a lease may run out while its worker still works
    MaxMishaps     \* bound: crashes, lost answers, withdrawals of authority and expiries

ASSUME WorkersAssumption ==
    "none" \notin Workers /\ SlowWorkers \in BOOLEAN /\ MaxMishaps \in Nat

VARIABLES
    worker,  \* where each worker is in its intent
    chain,   \* external: what became of the transaction of each step's Privy key
    mishaps

vars == <<authorityVars, intentVars, worker, chain, mishaps>>

Idle == [pc |-> "idle", intent |-> "none", step |-> 0, hash |-> FALSE, half |-> FALSE]

Init ==
    /\ AuthorityInit /\ IntentsInit
    /\ worker = [w \in Workers |-> Idle]
    /\ chain = [i \in Intents |-> [s \in 1..Len(Plan[i]) |-> "none"]]
    /\ mishaps = 0

-----------------------------------------------------------------------------
(* Shorthands. *)

Mishap == mishaps < MaxMishaps /\ mishaps' = mishaps + 1

IntentSteps(i) == DOMAIN steps[i]
Unconfirmed(i) == {s \in IntentSteps(i) : steps[i][s].status # "CONFIRMED"}
NextStep(i) == Min(Unconfirmed(i))

At(w, pc) == worker[w].pc = pc /\ ~worker[w].half
GoTo(w, pc) == worker' = [worker EXCEPT ![w].pc = pc]
Leave(w) == worker' = [worker EXCEPT ![w] = Idle]

\* The worker's row lookup: it holds the lease and the intent is in one of the states.
Owns(w, states) ==
    intents[worker[w].intent].by = w /\ intents[worker[w].intent].state \in states

\* lockedAt = now.
Renewed(intent, state) == [intent EXCEPT !.state = state, !.lease = "fresh"]

-----------------------------------------------------------------------------
(* leaseIntent. *)

\* QUEUED, or leased with a lease that has run out; rows other transactions hold are skipped.
Leasable(i) ==
    /\ \/ intents[i].state = "QUEUED"
       \/ intents[i].state \in Leased /\ intents[i].lease = "stale"
    /\ RowFree(i)

\* order by createdAt limit 1.
Oldest(i) ==
    /\ Leasable(i)
    /\ \A j \in Intents :
         Leasable(j) => SelectInSeq(created, LAMBDA x : x = i) <= SelectInSeq(created, LAMBDA x : x = j)

\* No other intent of the agent is under a lease that has not run out.
WalletFree(i) ==
    \A j \in Intents \ {i} : ~(intents[j].state \in Leased /\ intents[j].lease = "fresh")

\* Every step confirmed, or the next one submitted: nothing more is signed.
ReconciliationOnly(i) ==
    Unconfirmed(i) = {} \/ steps[i][NextStep(i)].status = "SUBMITTED"

\* A step failed, but the intent outlived the report.
StepFailed(i) == Unconfirmed(i) # {} /\ steps[i][NextStep(i)].status = "FAILED"

\* Deviation: a failed step is not looked for.
LeaseRefusedUnlessFailed(i) == (agent.status # "ACTIVE" \/ ~CviActive) /\ ~ReconciliationOnly(i)

\* failLease: a step failed, or authority is gone and something would have to be signed.
LeaseRefused(i) ==
    StepFailed(i) \/ ((agent.status # "ACTIVE" \/ ~CviActive) /\ ~ReconciliationOnly(i))

LeaseCode(i) ==
    IF steps[i][NextStep(i)].status = "SIGNING" THEN "AMBIGUOUS_SIGNING_OUTCOME" ELSE "REFUSED"

LeasedState(i) ==
    IF Unconfirmed(i) # {} THEN "SIGNING"
    ELSE IF intents[i].state = "INDEXING" THEN "INDEXING" ELSE "CONFIRMED"

\* The worker's first stop: the known hash of the next step decides.
Entry(i) ==
    IF Unconfirmed(i) = {} THEN [pc |-> "complete", intent |-> i, step |-> 0, hash |-> TRUE, half |-> FALSE]
    ELSE LET s == NextStep(i)
         IN  [pc |-> IF steps[i][s].hash THEN "receipt" ELSE "refresh",
              intent |-> i, step |-> s, hash |-> steps[i][s].hash, half |-> FALSE]

Lease(w, i) ==
    /\ At(w, "idle")
    /\ Oldest(i) /\ WalletFree(i)
    /\ IF LeaseRefused(i)
       THEN /\ BeginSettle(i, FailedState(i), LeaseCode(i))
            /\ UNCHANGED <<intents, worker>>
       ELSE /\ intents' = [intents EXCEPT ![i] =
                              [Renewed(@, LeasedState(i)) EXCEPT !.by = w]]
            /\ worker' = [worker EXCEPT ![w] = Entry(i)]
            /\ UNCHANGED settling
    /\ UNCHANGED <<steps, approvals, usage, requests, created, notices, authorityVars, chain, mishaps>>

-----------------------------------------------------------------------------
(* refreshIntent: before every step that is not yet submitted. *)

\* Deviation: only the preflight is asked again.
RefreshRefusedByPreflight(i, preflight) == preflight # "match"

\* What speaks against signing: the intent expired, the agent or the exact mandate is not
\* in force, or the fresh preflight, an input, blocks or gives other calldata.
RefreshRefused(i, preflight) ==
    \/ ~intents[i].live
    \/ agent.status # "ACTIVE" \/ ~CviActive
    \/ ~IntentMandateInForce(intents[i].mandate)
    \/ preflight # "match"

Refresh(w, preflight) ==
    LET i == worker[w].intent
        refused == RefreshRefused(i, preflight)
    IN  /\ At(w, "refresh") /\ RowFree(i)
        /\ CASE ~Owns(w, {"SIGNING"}) ->
                  GoTo(w, "fail") /\ UNCHANGED <<intents, settling>>
             [] Owns(w, {"SIGNING"}) /\ refused ->
                  /\ BeginSettle(i, FailedState(i), "REFUSED")
                  /\ GoTo(w, "fail") /\ UNCHANGED intents
             [] Owns(w, {"SIGNING"}) /\ ~refused ->
                  /\ intents' = [intents EXCEPT ![i].lease = "fresh"]
                  /\ GoTo(w, "sign") /\ UNCHANGED settling
        /\ UNCHANGED <<steps, approvals, usage, requests, created, notices, authorityVars, chain, mishaps>>

-----------------------------------------------------------------------------
(* reportStep: the row of the step, then the row of the intent. *)

\* The status each stop of the worker reports.
Reported == [sign |-> "SIGNING", submit |-> "SUBMITTED", confirm |-> "CONFIRMED", fail |-> "FAILED"]

TransitionAllowed(from, to) ==
    CASE to = "SIGNING"   -> from \in {"PENDING", "SIGNING"}
      [] to = "SUBMITTED" -> from \in {"PENDING", "SIGNING", "SUBMITTED"}
      [] to = "CONFIRMED" -> from = "SUBMITTED"
      [] to = "FAILED"    -> from \in {"PENDING", "SIGNING", "SUBMITTED"}

LaterSteps(w) == {s \in IntentSteps(worker[w].intent) : s > worker[w].step}

\* Where the worker goes on when its report was accepted.
Onward(w) ==
    CASE worker[w].pc = "sign"   -> [worker[w] EXCEPT !.pc = "send", !.half = FALSE]
      [] worker[w].pc = "submit" -> [worker[w] EXCEPT !.pc = "receipt", !.half = FALSE]
      [] worker[w].pc = "confirm" /\ LaterSteps(w) # {} ->
            [worker[w] EXCEPT !.pc = "refresh", !.step = Min(LaterSteps(w)), !.hash = FALSE, !.half = FALSE]
      [] worker[w].pc = "confirm" /\ LaterSteps(w) = {} ->
            [worker[w] EXCEPT !.pc = "complete", !.half = FALSE]

\* A confirmation that was recorded before is accepted and changes nothing.  A refused
\* report ends the worker's pass; a refused signing marker is reported as a failure first.
ReportStepRow(w) ==
    LET i == worker[w].intent
        s == worker[w].step
        status == Reported[worker[w].pc]
        before == steps[i][s].status
        owned == Owns(w, {"SIGNING", "SUBMITTED"})
    IN  /\ ~worker[w].half /\ worker[w].pc \in DOMAIN Reported
        /\ RowFree(i)
        /\ CASE owned /\ TransitionAllowed(before, status) ->
                  /\ steps' = [steps EXCEPT ![i][s] =
                         [status |-> status, hash |-> @.hash \/ status \in {"SUBMITTED", "CONFIRMED"}]]
                  /\ worker' = [worker EXCEPT ![w].half = TRUE]
             [] owned /\ before = "CONFIRMED" /\ status = "CONFIRMED" ->
                  worker' = [worker EXCEPT ![w] = Onward(w)] /\ UNCHANGED steps
             [] OTHER ->
                  /\ IF worker[w].pc = "sign" THEN GoTo(w, "fail") ELSE Leave(w)
                  /\ UNCHANGED steps
        /\ UNCHANGED <<intents, approvals, usage, requests, settling, created, notices,
                       authorityVars, chain, mishaps>>

\* The intent is updated by its id alone.
ReportIntentRow(w) ==
    LET i == worker[w].intent
    IN  /\ worker[w].half /\ RowFree(i)
        /\ IF worker[w].pc = "fail"
           THEN /\ IF intents[i].state \in ACTIVE_INTENT_STATES
                   THEN BeginSettle(i, FailedState(i), "REFUSED") ELSE UNCHANGED settling
                /\ Leave(w) /\ UNCHANGED intents
           ELSE /\ intents' = [intents EXCEPT ![i] = Renewed(@,
                       CASE worker[w].pc = "sign" -> "SIGNING"
                         [] worker[w].pc = "submit" -> "SUBMITTED"
                         [] worker[w].pc = "confirm" ->
                               IF Unconfirmed(i) = {} THEN "CONFIRMED" ELSE "SIGNING")]
                /\ worker' = [worker EXCEPT ![w] = Onward(w)]
                /\ UNCHANGED settling
        /\ UNCHANGED <<steps, approvals, usage, requests, created, notices, authorityVars, chain, mishaps>>

-----------------------------------------------------------------------------
(* Privy and the chain. *)

\* sendTransaction under the step's own idempotency key: a key that was used before
\* gives the transaction it gave then.
Send(w) ==
    LET i == worker[w].intent
        s == worker[w].step
    IN  /\ At(w, "send")
        /\ chain' = [chain EXCEPT ![i][s] = IF @ = "none" THEN "pending" ELSE @]
        /\ GoTo(w, "submit")
        /\ UNCHANGED <<authorityVars, intentVars, mishaps>>

\* Privy refuses, or the wallet is not the reviewed one any more.
SendRefused(w) ==
    /\ At(w, "send")
    /\ GoTo(w, "fail")
    /\ UNCHANGED <<authorityVars, intentVars, chain, mishaps>>

Receipt(w) ==
    LET tx == chain[worker[w].intent][worker[w].step]
    IN  /\ At(w, "receipt")
        /\ CASE tx \in {"mined", "final"} -> GoTo(w, "confirm")
             [] tx = "reverted" -> GoTo(w, "fail")
             [] OTHER -> Leave(w)              \* EXECUTOR_RECEIPT_TIMEOUT_MS
        /\ UNCHANGED <<authorityVars, intentVars, chain, mishaps>>

Mine(i, s) ==
    /\ chain[i][s] = "pending"
    /\ \E outcome \in {"mined", "reverted"} : chain' = [chain EXCEPT ![i][s] = outcome]
    /\ UNCHANGED <<authorityVars, intentVars, worker, mishaps>>

\* Every source's checkpoint has passed the block of the intent's own transaction, that of
\* its last step.
IndexFinal(i) ==
    /\ chain[i][Len(Plan[i])] = "mined"
    /\ chain' = [chain EXCEPT ![i][Len(Plan[i])] = "final"]
    /\ UNCHANGED <<authorityVars, intentVars, worker, mishaps>>

-----------------------------------------------------------------------------
(* completeIntent, until the deadline of the worker. *)

Complete(w) ==
    LET i == worker[w].intent
    IN  /\ At(w, "complete") /\ RowFree(i)
        /\ CASE ~Owns(w, {"CONFIRMED", "INDEXING"}) \/ Unconfirmed(i) # {} ->
                  Leave(w) /\ UNCHANGED <<intents, settling>>
             [] Owns(w, {"CONFIRMED", "INDEXING"}) /\ Unconfirmed(i) = {} /\ chain[i][Len(Plan[i])] = "final" ->
                  Leave(w) /\ BeginSettle(i, "COMPLETED", "none") /\ UNCHANGED intents
             [] Owns(w, {"CONFIRMED", "INDEXING"}) /\ Unconfirmed(i) = {} /\ chain[i][Len(Plan[i])] # "final" ->
                  /\ intents' = [intents EXCEPT ![i] = Renewed(@, "INDEXING")]
                  /\ UNCHANGED <<worker, settling>>
        /\ UNCHANGED <<steps, approvals, usage, requests, created, notices, authorityVars, chain, mishaps>>

IndexTimeout(w) ==
    /\ At(w, "complete")
    /\ chain[worker[w].intent][Len(Plan[worker[w].intent])] # "final"
    /\ Leave(w)
    /\ UNCHANGED <<authorityVars, intentVars, chain, mishaps>>

-----------------------------------------------------------------------------
(* Failures. *)

\* The process stops, or an answer of the API or of Privy is lost: the worker leaves the
\* intent to the end of its lease.
Abandon(w) ==
    /\ worker[w].pc # "idle" /\ Mishap
    /\ Leave(w)
    /\ UNCHANGED <<authorityVars, intentVars, chain>>

\* A terminating transaction is rolled back; who asked for it gets an error.
Rollback(i) ==
    /\ ~RowFree(i) /\ Mishap
    /\ settling' = [settling EXCEPT ![i] = NoSettle]
    /\ worker' = [w \in Workers |-> IF worker[w].intent = i /\ worker[w].pc = "fail" THEN Idle ELSE worker[w]]
    /\ UNCHANGED <<authorityVars, intents, steps, approvals, usage, requests, created, notices, chain>>

LeaseExpires(i) ==
    /\ intents[i].state \in Leased /\ intents[i].lease = "fresh"
    /\ ~SlowWorkers => RowFree(i) /\ \A w \in Workers : worker[w].intent # i
    /\ intents' = [intents EXCEPT ![i].lease = "stale"]
    /\ UNCHANGED <<steps, approvals, usage, requests, settling, created, notices,
                   authorityVars, worker, chain, mishaps>>

-----------------------------------------------------------------------------

Preflights == {"match", "blocked"}

Agent(i) ==
    /\ \/ \E admissible \in BOOLEAN : Prepare(i, admissible)
       \/ CommitPrepare(i) \/ Execute(i)
       \/ Approve(i) \/ Reject(i) \/ ExpirePrepared(i) \/ CommitSettle(i)
    /\ UNCHANGED <<worker, chain, mishaps>>

Institution ==
    /\ \/ Onboard
       \/ mandate.version = 0 /\ CreateMandate
       \/ ChangeStatus("ACTIVE")
    /\ UNCHANGED <<worker, chain, mishaps>>

Withdrawals ==
    /\ Mishap
    /\ \/ Withdraw \/ CreateMandate \/ ChangeStatus("PAUSED") \/ ChangeStatus("REVOKED")
       \/ \E i \in Intents : IntentExpires(i) \/ ApprovalLapses(i)
    /\ UNCHANGED <<worker, chain>>

Work(w) ==
    \/ \E i \in Intents : Lease(w, i)
    \/ \E preflight \in Preflights : Refresh(w, preflight)
    \/ ReportStepRow(w) \/ ReportIntentRow(w)
    \/ Send(w) \/ SendRefused(w) \/ Receipt(w)
    \/ Complete(w) \/ IndexTimeout(w)

Next ==
    \/ Institution \/ Withdrawals
    \/ \E i \in Intents : Agent(i) \/ LeaseExpires(i) \/ Rollback(i)
    \/ \E w \in Workers : Work(w) \/ Abandon(w)
    \/ \E i \in Intents : IndexFinal(i) \/ \E s \in IntentSteps(i) : Mine(i, s)

Spec == Init /\ [][Next]_vars

\* Some worker polls, leases run out, the database commits, the chain mines and the indexer
\* catches up.  Nothing is asked of agent, institution or Cleanverse, and one worker may
\* starve another.
FairSpec ==
    /\ Spec
    /\ WF_vars(\E w \in Workers : Work(w))
    /\ WF_vars(\E i \in Intents : LeaseExpires(i))
    /\ WF_vars(\E i \in Intents : CommitSettle(i) /\ UNCHANGED <<worker, chain, mishaps>>)
    /\ WF_vars(\E i \in Intents : IndexFinal(i) \/ \E s \in IntentSteps(i) : Mine(i, s))
=============================================================================
