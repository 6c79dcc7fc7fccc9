---------------------------- MODULE AgentIntents ----------------------------
(***************************************************************************)
(* The intents of one agent up to the queue (apps/api/src/services/        *)
(* agent.ts): preparing under the mandate's daily limit, approval by the   *)
(* administrator, execution, expiry, and what pausing, revoking and a new  *)
(* mandate do to waiting intents.  A transaction under the agent's         *)
(* advisory lock is one step; terminating an intent outside the lock reads *)
(* the usage bucket in one step and commits in another (READ COMMITTED).   *)
(***************************************************************************)
EXTENDS AgentAuthority, FiniteSetsExt, SequencesExt

CONSTANTS
    Intents,     \* idempotency keys
    Action,      \* the semantic action of each intent
    Notional,    \* what each intent counts, in settlement tokens
    Plan,        \* the kinds of its transaction steps, approvals first
    Constraints  \* what each version of the mandate allows; one UTC day

ASSUME IntentsAssumption ==
    /\ Action \in [Intents -> STRING] /\ Notional \in [Intents -> Nat]
    /\ Plan \in [Intents -> Seq({"APPROVAL", "PROTOCOL"}) \ {<<>>}]
    /\ Constraints \in [1..MaxMandates ->
           [executionMode : {"AUTONOMOUS", "SUPERVISED"}, allowedActions : SUBSET STRING,
            maxPerTransaction : Nat, maxDailyNotional : Nat, autoExecuteUpTo : Nat]]

VARIABLES
    intents,   \* agentIntents
    steps,     \* agentIntentSteps: status of each step and whether its hash is known
    approvals, \* agentApprovals: "none", "live" or "lapsed" approval of each intent
    usage,     \* agentUsageBuckets, one per mandate version
    requests,  \* prepare requests between their reads and their transaction
    settling,  \* transactions that terminate an intent, after their bucket read
    created,   \* the order of createdAt
    notices    \* agentEvents that report the end of each intent

intentVars == <<intents, steps, approvals, usage, requests, settling, created, notices>>

-----------------------------------------------------------------------------

Pending == {"PREPARED", "APPROVAL_REQUIRED", "APPROVED", "QUEUED"}
Leased == {"SIGNING", "SUBMITTED", "CONFIRMED", "INDEXING"}
ACTIVE_INTENT_STATES == Pending \union Leased
Terminal == {"COMPLETED", "DENIED", "REJECTED", "EXPIRED", "CANCELLED", "FAILED",
             "FAILED_WITH_ALLOWANCE"}

NoIntent == [state |-> "none", mandate |-> 0, decision |-> "DENIED", live |-> FALSE,
             code |-> "none", by |-> "none", lease |-> "none"]
EmptyBucket == [reserved |-> 0, completed |-> 0]
NoRequest == [mandate |-> 0, decision |-> "DENIED"]
NoSettle == [to |-> "none", code |-> "none", seen |-> EmptyBucket]
NewStep == [status |-> "PENDING", hash |-> FALSE]

IntentsInit ==
    /\ intents = [i \in Intents |-> NoIntent]
    /\ steps = [i \in Intents |-> [s \in 1..Len(Plan[i]) |-> NewStep]]
    /\ approvals = [i \in Intents |-> "none"]
    /\ usage = [m \in 1..MaxMandates |-> EmptyBucket]
    /\ requests = [i \in Intents |-> NoRequest]
    /\ settling = [i \in Intents |-> NoSettle]
    /\ created = <<>>
    /\ notices = [i \in Intents |-> 0]

\* What an intent holds in its bucket; a denied one reserves nothing.
Reserved(i) == IF intents[i].decision = "DENIED" THEN 0 ELSE Notional[i]

\* moveUsageReservation on the bucket it has read.
MoveUsageReservation(bucket, amount, completed) ==
    [reserved  |-> IF bucket.reserved >= amount THEN bucket.reserved - amount ELSE 0,
     completed |-> bucket.completed + IF completed THEN amount ELSE 0]

\* No transaction holds the row of the intent.
RowFree(i) == settling[i] = NoSettle

\* Whether a confirmed approval leaves an allowance behind.
AllowanceConfirmed(i) ==
    \E s \in DOMAIN steps[i] : Plan[i][s] = "APPROVAL" /\ steps[i][s].status = "CONFIRMED"

FailedState(i) == IF AllowanceConfirmed(i) THEN "FAILED_WITH_ALLOWANCE" ELSE "FAILED"

-----------------------------------------------------------------------------
(* The policy of a mandate. *)

SUPERVISED_RISK_ACTIONS ==
    {"VAULT_WITHDRAW", "START_AUCTION", "BUY_AUCTION", "CLAIM_COLLATERAL",
     "CLAIM_ORACLE_FALLBACK", "MARGIN_ACTION"}

\* Whether the administrator has to see the intent before it runs.
NeedsApproval(constraints, i) ==
    /\ constraints.executionMode = "SUPERVISED"
    /\ \/ Action[i] \in SUPERVISED_RISK_ACTIONS
       \/ Notional[i] > constraints.autoExecuteUpTo

resolveMandateApproval(constraints, i) ==
    IF NeedsApproval(constraints, i) THEN "HUMAN_REQUIRED" ELSE "AUTO_APPROVED"

\* `admissible` stands for asset, rate, duration, counterparty and recipient inside the
\* mandate's bounds and a preflight without a blocking reason.
evaluatePolicy(constraints, i, admissible) ==
    IF /\ Action[i] \in constraints.allowedActions
       /\ Notional[i] <= constraints.maxPerTransaction
       /\ admissible
    THEN resolveMandateApproval(constraints, i) ELSE "DENIED"

-----------------------------------------------------------------------------
(* Terminating intents. *)

\* Deviation: an intent is terminated from whatever state it is in.
TerminateInLockAlways(among, from, state) ==
    LET ends == {i \in among : intents[i].state # "none"}
    IN  /\ \A i \in ends : RowFree(i)
        /\ intents' = [i \in Intents |-> IF i \in ends
                          THEN [intents[i] EXCEPT !.state = state] ELSE intents[i]]
        /\ notices' = [i \in Intents |-> notices[i] + IF i \in ends THEN 1 ELSE 0]
        /\ UNCHANGED usage

\* terminateIntentInTransaction for the intents of `among` in one of the given states,
\* inside a transaction that holds the authority lock.
TerminateInLock(among, from, state) ==
    LET ends == {i \in among : intents[i].state \in from}
    IN  /\ \A i \in ends : RowFree(i)
        /\ intents' = [i \in Intents |-> IF i \in ends
                          THEN [intents[i] EXCEPT !.state = state] ELSE intents[i]]
        /\ usage' = [m \in DOMAIN usage |->
                        MoveUsageReservation(usage[m],
                            MapThenSumSet(Reserved, {i \in ends : intents[i].mandate = m}), FALSE)]
        /\ notices' = [i \in Intents |-> notices[i] + IF i \in ends THEN 1 ELSE 0]

\* A transaction that ends an intent outside the lock: its bucket is read ...
BeginSettle(i, to, code) ==
    settling' = [settling EXCEPT ![i] =
                    [to |-> to, code |-> code, seen |-> usage[intents[i].mandate]]]

\* ... and written back with the new state of the intent when it commits.
CommitSettle(i) ==
    /\ ~RowFree(i)
    /\ settling' = [settling EXCEPT ![i] = NoSettle]
    /\ intents' = [intents EXCEPT ![i].state = settling[i].to, ![i].code = settling[i].code]
    /\ usage' = [usage EXCEPT ![intents[i].mandate] =
                    MoveUsageReservation(settling[i].seen, Reserved(i), settling[i].to = "COMPLETED")]
    /\ notices' = [notices EXCEPT ![i] = @ + 1]
    /\ UNCHANGED <<steps, approvals, requests, created, authorityVars>>

Expirable(i) ==
    intents[i].state \in {"PREPARED", "APPROVAL_REQUIRED", "APPROVED"} /\ ~intents[i].live

\* expirePreparedIntents, at every preparation and every look of the administrator.
ExpirePrepared(i) ==
    /\ Expirable(i) /\ RowFree(i)
    /\ BeginSettle(i, "EXPIRED", "none")
    /\ UNCHANGED <<intents, steps, approvals, usage, requests, created, notices, authorityVars>>

-----------------------------------------------------------------------------
(* Preparing. *)

\* The reads of prepareIntent: token, mandate, preflight and policy, expired intents being
\* out of the way.
Prepare(i, admissible) ==
    /\ Authenticated
    /\ intents[i].state = "none" /\ requests[i] = NoRequest
    /\ \A j \in Intents : ~Expirable(j)
    /\ requests' = [requests EXCEPT ![i] =
           [mandate |-> mandate.version,
            decision |-> evaluatePolicy(Constraints[mandate.version], i, admissible)]]
    /\ UNCHANGED <<intents, steps, approvals, usage, settling, created, notices, authorityVars>>

\* The verdict with the daily limit.
FinalDecision(i) ==
    LET version == requests[i].mandate
        counted == usage[version].reserved + usage[version].completed
    IN  IF counted + Notional[i] > Constraints[version].maxDailyNotional THEN "DENIED"
        ELSE requests[i].decision

StateOf(decision) ==
    CASE decision = "DENIED" -> "DENIED"
      [] decision = "HUMAN_REQUIRED" -> "APPROVAL_REQUIRED"
      [] decision = "AUTO_APPROVED" -> "PREPARED"

\* Its transaction, under the lock, looks at agent and mandate again, and commits the
\* intent, its steps, its event and what it reserves.
CommitPrepare(i) ==
    LET decision == FinalDecision(i)
        version  == requests[i].mandate
    IN  /\ requests[i] # NoRequest
        /\ requests' = [requests EXCEPT ![i] = NoRequest]
        /\ IF ~(AgentLive /\ IntentMandateInForce(version))
           THEN UNCHANGED <<intents, usage, created, notices>>
           ELSE /\ created' = Append(created, i)
                /\ intents' = [intents EXCEPT ![i] =
                       [NoIntent EXCEPT !.state = StateOf(decision), !.decision = decision,
                                        !.mandate = version, !.live = TRUE]]
                /\ usage' = [usage EXCEPT ![version].reserved =
                                 @ + IF decision = "DENIED" THEN 0 ELSE Notional[i]]
                /\ notices' = [notices EXCEPT ![i] = @ + IF decision = "DENIED" THEN 1 ELSE 0]
        /\ UNCHANGED <<steps, approvals, settling, authorityVars>>

-----------------------------------------------------------------------------
(* Approval and execution. *)

\* approveIntent: of the exact intent hash, while the intent is live.
Approve(i) ==
    /\ RowFree(i)
    /\ intents[i].state = "APPROVAL_REQUIRED" /\ intents[i].live
    /\ approvals' = [approvals EXCEPT ![i] = "live"]
    /\ intents' = [intents EXCEPT ![i].state = "APPROVED"]
    /\ UNCHANGED <<steps, usage, requests, settling, created, notices, authorityVars>>

Reject(i) ==
    /\ intents[i].live
    /\ intents[i].state = "APPROVAL_REQUIRED"
    /\ TerminateInLock({i}, {"APPROVAL_REQUIRED"}, "REJECTED")
    /\ UNCHANGED <<steps, approvals, requests, settling, created, authorityVars>>

Executable(i) ==
    intents[i].state = IF intents[i].decision = "HUMAN_REQUIRED" THEN "APPROVED" ELSE "PREPARED"

\* executeIntent: the token was checked before the transaction, the agent and the exact
\* mandate are looked at inside it.
Execute(i) ==
    /\ IF ~intents[i].live
       THEN TerminateInLock({i}, {"PREPARED", "APPROVAL_REQUIRED", "APPROVED"}, "EXPIRED")
       ELSE /\ Executable(i)
            /\ IF ~AgentLive
               THEN TerminateInLock({i}, {"PREPARED", "APPROVAL_REQUIRED", "APPROVED"}, "CANCELLED")
               ELSE IF ~IntentMandateInForce(intents[i].mandate)
               THEN TerminateInLock({i}, {"PREPARED", "APPROVAL_REQUIRED", "APPROVED"}, "CANCELLED")
               ELSE /\ intents[i].decision = "HUMAN_REQUIRED" => approvals[i] = "live"
                    /\ RowFree(i)
                    /\ intents' = [intents EXCEPT ![i].state = "QUEUED"]
                    /\ UNCHANGED <<usage, notices>>
    /\ UNCHANGED <<steps, approvals, requests, settling, created, authorityVars>>

-----------------------------------------------------------------------------
(* Administrative transactions with what they do to the intents. *)

\* createMandate cancels what waits under another mandate.
CreateMandate ==
    /\ RecordMandate
    /\ TerminateInLock({i \in Intents : intents[i].mandate # mandate'.version}, Pending,
                       "CANCELLED")
    /\ UNCHANGED <<steps, approvals, requests, settling, created>>

\* setAgentStatus: a pause or a revocation cancels everything that waits.
ChangeStatus(status) ==
    /\ SetAgentStatus(status)
    /\ IF status = "ACTIVE" THEN UNCHANGED <<intents, usage, notices>>
       ELSE TerminateInLock(Intents, Pending, "CANCELLED")
    /\ UNCHANGED <<steps, approvals, requests, settling, created>>

\* The way to an active agent.
Onboard ==
    /\ \/ BindWallet \/ RecordCompliance \/ CreateCredential
       \/ ReadCompliance /\ agent.status # "ACTIVE"
    /\ UNCHANGED intentVars

\* What may speak against an agent that was active; the check is repeated at any time.
Withdraw ==
    /\ RevokeCredential \/ MandateEnds \/ CviLapses \/ ChangeEligibility \/ ReadCompliance
    /\ UNCHANGED intentVars

\* The two clocks are kept where a handler reads them.
IntentExpires(i) ==
    /\ intents[i].live /\ intents[i].state \in ACTIVE_INTENT_STATES
    /\ intents' = [intents EXCEPT ![i].live = FALSE]
    /\ UNCHANGED <<steps, approvals, usage, requests, settling, created, notices, authorityVars>>

ApprovalLapses(i) ==
    /\ approvals[i] = "live" /\ intents[i].state = "APPROVED"
    /\ approvals' = [approvals EXCEPT ![i] = "lapsed"]
    /\ UNCHANGED <<intents, steps, usage, requests, settling, created, notices, authorityVars>>
=============================================================================
