------------------------ MODULE AgentExecutorProofs ------------------------
(***************************************************************************)
(* What the agent platform promises, for any intents, plans, mandates and  *)
(* workers, and any number of crashes, lost answers, rolled back           *)
(* transactions and withdrawals of authority.                              *)
(***************************************************************************)
EXTENDS AgentExecutorProperties, TLAPS

AgentStatus == {"PENDING_WALLET", "PENDING_CVI", "PENDING_MANDATE", "ACTIVE", "PAUSED", "REVOKED"}

AuthorityTypes ==
    /\ agent \in [status : AgentStatus, wallet : BOOLEAN, cvi : {"none", "live", "lapsed"}]
    /\ credential \in {"none", "active", "revoked"}
    /\ mandate \in [version : Nat, inForce : BOOLEAN]
    /\ apass \in BOOLEAN
    /\ check \in [running : BOOLEAN, mandate : Nat, active : BOOLEAN]

\* Revocation takes the credential with it.
RevokedIsOut == agent.status = "REVOKED" => credential # "active"

AuthorityInv == AuthorityTypes /\ RevokedIsOut

-----------------------------------------------------------------------------
(* Authority.                                                               *)

\* Every step leaves authority alone or is one of its transactions.
LEMMA AuthoritySteps ==
    ASSUME [Next]_vars
    PROVE  \/ UNCHANGED authorityVars
           \/ BindWallet \/ RecordMandate
           \/ ReadCompliance \/ RecordCompliance
           \/ CreateCredential \/ RevokeCredential
           \/ \E status \in {"ACTIVE", "PAUSED", "REVOKED"} : SetAgentStatus(status)
           \/ MandateEnds \/ CviLapses \/ ChangeEligibility
<1>1. CASE UNCHANGED vars
    BY <1>1 DEF vars, authorityVars
<1>2. CASE Institution
    BY <1>2 DEF Institution, Onboard, CreateMandate, ChangeStatus
<1>3. CASE Withdrawals
    BY <1>3 DEF Withdrawals, Withdraw, CreateMandate, ChangeStatus, IntentExpires, ApprovalLapses
<1>4. ASSUME NEW i \in Intents, Agent(i) PROVE UNCHANGED authorityVars
    BY <1>4 DEF Agent, Prepare, CommitPrepare, Execute, Approve, Reject, ExpirePrepared, CommitSettle
<1>5. ASSUME NEW i \in Intents, LeaseExpires(i) \/ Rollback(i) PROVE UNCHANGED authorityVars
    BY <1>5 DEF LeaseExpires, Rollback
<1>6. ASSUME NEW w \in Workers, Work(w) \/ Abandon(w) PROVE UNCHANGED authorityVars
    BY <1>6 DEF Work, Abandon, Lease, Refresh, ReportStepRow, ReportIntentRow, Send, SendRefused,
                Receipt, Complete, IndexTimeout
<1>7. ASSUME NEW i \in Intents, IndexFinal(i) \/ \E s \in IntentSteps(i) : Mine(i, s)
      PROVE  UNCHANGED authorityVars
    BY <1>7 DEF IndexFinal, Mine
<1> QED
    BY <1>1, <1>2, <1>3, <1>4, <1>5, <1>6, <1>7 DEF Next

\* What a recorded verdict does to the agent.
LEMMA RecordComplianceStep ==
    ASSUME AuthorityInv, RecordCompliance
    PROVE  /\ AuthorityInv'
           /\ agent.status \in {"PAUSED", "REVOKED"} => agent'.status = agent.status
<1>1. check' = NoCheck /\ UNCHANGED <<credential, mandate, apass>>
    BY DEF RecordCompliance
<1>2. \/ agent' = agent
      \/ \E status \in {"PENDING_MANDATE", "ACTIVE", "PENDING_CVI"}, cvi \in {"none", "live"} :
             agent' = [agent EXCEPT !.status = RecordedStatus(status), !.cvi = cvi]
  <2>1. CASE check.mandate = 0
    BY <2>1 DEF RecordCompliance
  <2>2. CASE check.mandate > 0 /\ ~IntentMandateInForce(check.mandate)
    BY <2>2 DEF RecordCompliance
  <2>3. CASE check.mandate > 0 /\ IntentMandateInForce(check.mandate)
    <3> DEFINE status == IF check.active THEN "ACTIVE" ELSE "PENDING_CVI"
               cvi == IF check.active THEN "live" ELSE "none"
    <3>1. agent' = [agent EXCEPT !.status = RecordedStatus(status), !.cvi = cvi]
        BY <2>3 DEF RecordCompliance
    <3>2. status \in {"ACTIVE", "PENDING_CVI"} /\ cvi \in {"none", "live"}
        OBVIOUS
    <3> HIDE DEF status, cvi
    <3> QED
        BY <3>1, <3>2
  <2> QED
    BY <2>1, <2>2, <2>3 DEF AuthorityInv, AuthorityTypes
<1> QED
    BY <1>1, <1>2 DEF AuthorityInv, AuthorityTypes, RevokedIsOut, RecordedStatus, NoCheck, AgentStatus

LEMMA AuthorityInitial == Init => AuthorityInv
BY DEF Init, AuthorityInit, AuthorityInv, AuthorityTypes, RevokedIsOut, AgentStatus, NoCheck

LEMMA AuthorityStep ==
    ASSUME AuthorityInv, [Next]_vars
    PROVE  /\ AuthorityInv'
           /\ agent.status \in {"PAUSED", "REVOKED"} /\ check' # check => agent'.status = agent.status
           /\ agent.status = "REVOKED" => agent'.status = "REVOKED"
<1> USE DEF AuthorityInv, AuthorityTypes, RevokedIsOut, AgentStatus
<1>1. CASE UNCHANGED authorityVars
    BY <1>1 DEF authorityVars
<1>2. CASE BindWallet
    BY <1>2 DEF BindWallet
<1>8. CASE RecordMandate
    BY <1>8 DEF RecordMandate
<1>3. CASE ReadCompliance
    BY <1>3 DEF ReadCompliance
<1>4. CASE RecordCompliance
    BY <1>4, RecordComplianceStep
<1>5. CASE CreateCredential \/ RevokeCredential
    BY <1>5 DEF CreateCredential, RevokeCredential, AgentLive
<1>6. ASSUME NEW status \in {"ACTIVE", "PAUSED", "REVOKED"}, SetAgentStatus(status)
      PROVE  AuthorityInv' /\ check' = check /\ (agent.status = "REVOKED" => agent'.status = "REVOKED")
    BY <1>6 DEF SetAgentStatus
<1>7. CASE MandateEnds \/ CviLapses \/ ChangeEligibility
    BY <1>7 DEF MandateEnds, CviLapses, ChangeEligibility
<1> QED
    BY <1>1, <1>2, <1>3, <1>4, <1>5, <1>6, <1>7, <1>8, AuthoritySteps

(* A pause or a revocation made while a compliance check was on its way     *)
(* stands when its verdict is written, and a revoked agent has no access,   *)
(* whatever the order of the transactions (refreshCompliance,               *)
(* setAgentStatus).                                                         *)
THEOREM WithdrawalsStand == Spec => WithdrawalStands
<1>1. Init => AuthorityInv
    BY AuthorityInitial
<1>2. AuthorityInv /\ [Next]_vars => AuthorityInv'
    BY AuthorityStep
<1>3. AuthorityInv /\ [Next]_vars =>
        [/\ agent.status \in {"PAUSED", "REVOKED"} /\ check' # check => agent'.status = agent.status
         /\ agent.status = "REVOKED" => agent'.status = "REVOKED" /\ credential' # "active"]_vars
    BY AuthorityStep DEF AuthorityInv, RevokedIsOut
<1> QED
    BY <1>1, <1>2, <1>3, PTL DEF Spec, WithdrawalStands

-----------------------------------------------------------------------------
(* The queue.                                                               *)

Waiting == {"PREPARED", "APPROVAL_REQUIRED", "APPROVED"}
Worked == {"COMPLETED", "FAILED", "FAILED_WITH_ALLOWANCE"}
Codes == {"none", "REFUSED", "AMBIGUOUS_SIGNING_OUTCOME"}

IntentRow ==
    [state : {"none"} \union ACTIVE_INTENT_STATES \union Terminal, mandate : Nat,
     decision : {"DENIED", "HUMAN_REQUIRED", "AUTO_APPROVED"}, live : BOOLEAN, code : Codes,
     by : Workers \union {"none"}, lease : {"none", "fresh", "stale"}]

\* Where a worker holds its intent.
Holding == {"refresh", "sign", "send", "submit", "receipt", "confirm", "complete"}

\* Step and hash need no types; the second half of a report belongs to the first.
WorkerShape(row) ==
    /\ row = [pc |-> row.pc, intent |-> row.intent, step |-> row.step,
              hash |-> row.hash, half |-> row.half]
    /\ row.pc \in Holding \union {"idle", "fail"}
    /\ row.half => row.pc \in {"sign", "submit", "confirm", "fail"}

IntentTypes ==
    /\ intents \in [Intents -> IntentRow]
    /\ approvals \in [Intents -> {"none", "live", "lapsed"}]
    /\ notices \in [Intents -> Nat]
    /\ DOMAIN requests = Intents /\ DOMAIN settling = Intents /\ DOMAIN chain = Intents

WorkerTypes == DOMAIN worker = Workers /\ \A w \in Workers : WorkerShape(worker[w])

\* A request is about an intent that is not yet there, under a mandate that was.
RequestKept(i) ==
    requests[i] # NoRequest =>
        /\ intents[i].state = "none" /\ requests[i].mandate \in Nat
        /\ requests[i].decision \in
               {"DENIED", resolveMandateApproval(Constraints[requests[i].mandate], i)}

\* An intent that was not denied has the decision of its mandate; past the administrator
\* it has the approval that decision asks for.
DecisionKept(i) ==
    /\ intents[i].state \notin {"none", "DENIED"} =>
           intents[i].decision = resolveMandateApproval(Constraints[intents[i].mandate], i)
    /\ /\ intents[i].state \in {"QUEUED"} \union Leased \union Worked
       /\ intents[i].decision = "HUMAN_REQUIRED"
       => approvals[i] # "none"

SendingKept(i) == Sent(i) => intents[i].state \in Leased \union Worked

\* A transaction that ends an intent holds its row: the intent stays where it was read.
SettlingKept(i) ==
    settling[i] # NoSettle =>
        /\ \/ settling[i].to = "EXPIRED" /\ intents[i].state \in Waiting
           \/ settling[i].to \in Worked /\ intents[i].state \in {"QUEUED"} \union Leased
        /\ settling[i].code \in Codes

NoticeKept(i) == notices[i] = IF intents[i].state \in Terminal THEN 1 ELSE 0

IntentKept(i) ==
    RequestKept(i) /\ DecisionKept(i) /\ SendingKept(i) /\ SettlingKept(i) /\ NoticeKept(i)

\* A worker that is not idle has the fresh lease of its intent; only on its way out may
\* the intent be ended.
WorkerHolds(w) ==
    LET i == worker[w].intent
    IN  worker[w].pc # "idle" =>
        /\ i \in Intents
        /\ intents[i].by = w /\ intents[i].lease = "fresh"
        /\ worker[w].pc # "fail" => intents[i].state \in Leased /\ settling[i] = NoSettle
        /\ worker[w].pc = "fail" =>
               /\ intents[i].state \in Leased \union {"FAILED", "FAILED_WITH_ALLOWANCE"}
               /\ settling[i].to # "COMPLETED"

\* One fresh lease for the wallet.
OneLease ==
    \A i, j \in Intents :
        /\ intents[i].state \in Leased /\ intents[i].lease = "fresh"
        /\ intents[j].state \in Leased /\ intents[j].lease = "fresh"
        => i = j

IntentsSound == IntentTypes /\ (\A i \in Intents : IntentKept(i)) /\ OneLease
WorkersSound == WorkerTypes /\ \A w \in Workers : WorkerHolds(w)

QueueInv == IntentsSound /\ WorkersSound

-----------------------------------------------------------------------------
(* What a step leaves alone.                                                *)

LEMMA OtherIntentKept ==
    ASSUME QueueInv, NEW i \in Intents,
           intents'[i] = intents[i], requests'[i] = requests[i], settling'[i] = settling[i],
           approvals'[i] = approvals[i], notices'[i] = notices[i], chain'[i] = chain[i]
    PROVE  IntentKept(i)'
<1>1. IntentKept(i)
    BY DEF QueueInv, IntentsSound
<1>2. Sent(i)' <=> Sent(i)
    BY DEF Sent
<1> QED
    BY <1>1, <1>2 DEF IntentKept, RequestKept, DecisionKept, SendingKept, SettlingKept, NoticeKept

LEMMA OtherWorkerHolds ==
    ASSUME QueueInv, NEW w \in Workers, worker'[w] = worker[w],
           worker[w].pc # "idle" =>
               /\ intents'[worker[w].intent] = intents[worker[w].intent]
               /\ settling'[worker[w].intent] = settling[worker[w].intent]
    PROVE  WorkerHolds(w)'
<1>1. WorkerHolds(w)
    BY DEF QueueInv, WorkersSound
<1> QED
    BY <1>1 DEF WorkerHolds

\* Two workers are never at one intent.
LEMMA WorkersApart ==
    ASSUME QueueInv, NEW v \in Workers, NEW w \in Workers, v # w,
           worker[v].pc # "idle", worker[w].pc # "idle"
    PROVE  worker[v].intent # worker[w].intent
BY DEF QueueInv, WorkersSound, WorkerHolds

\* A worker's intent is not queued, and its lease has not run out.
LEMMA LeasableIsFree ==
    ASSUME QueueInv, NEW w \in Workers, worker[w].pc # "idle",
           NEW i \in Intents, \/ intents[i].state \in Pending \union {"none"}
                              \/ intents[i].lease = "stale"
    PROVE  worker[w].intent # i
BY DEF QueueInv, WorkersSound, WorkerHolds, Pending, Leased

LEMMA QueueTypes ==
    ASSUME QueueInv
    PROVE  IntentTypes /\ WorkerTypes
BY DEF QueueInv, IntentsSound, WorkersSound

LEMMA GoToFields ==
    ASSUME WorkerTypes, NEW w \in Workers, NEW pc \in Holding \union {"idle", "fail"},
           GoTo(w, pc), ~worker[w].half
    PROVE  /\ DOMAIN worker' = Workers /\ \A v \in Workers : WorkerShape(worker'[v])
           /\ worker'[w].pc = pc /\ worker'[w].intent = worker[w].intent
           /\ ~worker'[w].half
           /\ \A v \in Workers \ {w} : worker'[v] = worker[v]
BY DEF GoTo, WorkerTypes, WorkerShape

LEMMA LeaveFields ==
    ASSUME WorkerTypes, NEW w \in Workers, Leave(w)
    PROVE  /\ DOMAIN worker' = Workers /\ \A v \in Workers : WorkerShape(worker'[v])
           /\ worker'[w].pc = "idle"
           /\ \A v \in Workers \ {w} : worker'[v] = worker[v]
BY DEF Leave, Idle, WorkerTypes, WorkerShape

LEMMA EntryFields ==
    ASSUME NEW i \in Intents
    PROVE  /\ WorkerShape(Entry(i)) /\ Entry(i).intent = i /\ Entry(i).half = FALSE
           /\ Entry(i).pc \in {"complete", "receipt", "refresh"}
BY DEF Entry, WorkerShape, Holding

LEMMA OnwardFields ==
    ASSUME WorkerTypes, NEW w \in Workers, worker[w].pc \in {"sign", "submit", "confirm"}
    PROVE  /\ WorkerShape(Onward(w)) /\ Onward(w).intent = worker[w].intent
           /\ Onward(w).half = FALSE /\ Onward(w).pc \in Holding
<1>1. WorkerShape(worker[w])
    BY DEF WorkerTypes
<1> QED
    BY <1>1 DEF Onward, WorkerShape, Holding

-----------------------------------------------------------------------------
(* What the transactions do to the intents.                                 *)

\* The bucket of a terminating transaction is read: its row is held from here.
LEMMA BeginSettleSound ==
    ASSUME QueueInv, NEW i \in Intents, NEW to, NEW code \in Codes,
           BeginSettle(i, to, code), RowFree(i),
           \/ to = "EXPIRED" /\ intents[i].state \in Waiting
           \/ to \in Worked /\ intents[i].state \in {"QUEUED"} \union Leased,
           UNCHANGED <<intents, requests, approvals, notices, chain>>
    PROVE  /\ IntentsSound' /\ settling'[i].to = to
           /\ \A j \in Intents \ {i} : settling'[j] = settling[j]
<1>1. IntentTypes /\ IntentKept(i) /\ OneLease
    BY DEF QueueInv, IntentsSound
<1>2. /\ DOMAIN settling' = Intents
      /\ settling'[i].to = to /\ settling'[i].code = code
      /\ \A j \in Intents \ {i} : settling'[j] = settling[j]
    BY <1>1 DEF BeginSettle, IntentTypes
<1>3. IntentKept(i)'
    BY <1>1, <1>2 DEF IntentKept, RequestKept, DecisionKept, SendingKept, Sent, SettlingKept, NoticeKept
<1>4. \A j \in Intents \ {i} : IntentKept(j)'
    BY <1>2, OtherIntentKept
<1> QED
    BY <1>1, <1>2, <1>3, <1>4 DEF IntentsSound, IntentTypes, OneLease

\* A lease is taken or renewed; the intent moves on through the worker's states.
LEMMA RenewSound ==
    ASSUME QueueInv, NEW i \in Intents, NEW row \in IntentRow,
           intents' = [intents EXCEPT ![i] = row], RowFree(i),
           intents[i].state \in {"QUEUED"} \union Leased, row.state \in Leased,
           row.mandate = intents[i].mandate, row.decision = intents[i].decision,
           WalletFree(i),
           UNCHANGED <<requests, settling, approvals, notices, chain>>
    PROVE  IntentsSound'
<1>1. IntentTypes /\ IntentKept(i) /\ OneLease
    BY DEF QueueInv, IntentsSound
<1>2. /\ intents' \in [Intents -> IntentRow] /\ intents'[i] = row
      /\ \A j \in Intents \ {i} : intents'[j] = intents[j]
    BY <1>1 DEF IntentTypes
<1>3. IntentKept(i)'
    BY <1>1, <1>2 DEF IntentKept, RequestKept, DecisionKept, SendingKept, Sent, SettlingKept, NoticeKept,
                      RowFree, Leased, Terminal
<1>4. \A j \in Intents \ {i} : IntentKept(j)'
    BY <1>2, OtherIntentKept
<1>5. OneLease'
    BY <1>1, <1>2 DEF OneLease, WalletFree
<1> QED
    BY <1>1, <1>2, <1>3, <1>4, <1>5 DEF IntentsSound, IntentTypes

\* The lease of a worker's intent is the only fresh one.
LEMMA HeldIsFree ==
    ASSUME QueueInv, NEW i \in Intents, intents[i].state \in Leased, intents[i].lease = "fresh"
    PROVE  WalletFree(i)
BY DEF QueueInv, IntentsSound, OneLease, WalletFree

LEMMA RowMoved ==
    ASSUME NEW row \in IntentRow, NEW state \in Terminal
    PROVE  LET moved == [row EXCEPT !.state = state]
           IN  /\ moved \in IntentRow /\ moved.state = state
               /\ moved.mandate = row.mandate /\ moved.decision = row.decision
BY DEF IntentRow

\* Waiting intents are ended inside a transaction: none of them is with a worker.
LEMMA TerminateSound ==
    ASSUME QueueInv, NEW among \in SUBSET Intents, NEW from \in SUBSET Pending,
           NEW state \in {"EXPIRED", "CANCELLED", "REJECTED"},
           TerminateInLock(among, from, state),
           UNCHANGED <<requests, settling, approvals, chain, worker>>
    PROVE  QueueInv'
<1> DEFINE ends == {i \in among : intents[i].state \in from}
<1>1. IntentTypes /\ (\A i \in Intents : IntentKept(i)) /\ OneLease
    BY DEF QueueInv, IntentsSound
<1>2. /\ \A i \in ends : settling[i] = NoSettle
      /\ intents' = [i \in Intents |-> IF i \in ends
                        THEN [intents[i] EXCEPT !.state = state] ELSE intents[i]]
      /\ notices' = [i \in Intents |-> notices[i] + IF i \in ends THEN 1 ELSE 0]
    BY DEF TerminateInLock, RowFree
<1>3. /\ ends \in SUBSET Intents /\ \A i \in ends : intents[i].state \in Pending
      /\ state \in Terminal \ (Leased \union Worked \union {"none", "DENIED"})
    BY DEF Terminal, Leased, Worked
<1> HIDE DEF ends
<1>4. \A i \in Intents \ ends : intents'[i] = intents[i] /\ notices'[i] = notices[i]
    BY <1>1, <1>2 DEF IntentTypes
<1>5. \A i \in ends : /\ intents'[i] \in IntentRow /\ intents'[i].state = state
                      /\ intents'[i].mandate = intents[i].mandate
                      /\ intents'[i].decision = intents[i].decision
                      /\ notices'[i] = notices[i] + 1
  <2>1. \A i \in ends : i \in Intents /\ intents[i] \in IntentRow
    BY <1>1, <1>3 DEF IntentTypes
  <2>2. \A i \in ends : /\ intents'[i] = [intents[i] EXCEPT !.state = state]
                        /\ notices'[i] = notices[i] + 1
    BY <1>2, <2>1
  <2>3. state \in Terminal
    BY <1>3
  <2>4. ASSUME NEW i \in ends
        PROVE  LET moved == [intents[i] EXCEPT !.state = state]
               IN  /\ moved \in IntentRow /\ moved.state = state
                   /\ moved.mandate = intents[i].mandate /\ moved.decision = intents[i].decision
    BY <2>1, <2>3, RowMoved
  <2> QED
    BY <2>2, <2>4
<1>6. ASSUME NEW i \in ends PROVE IntentKept(i)'
  <2>1. IntentKept(i) /\ i \in Intents /\ intents[i].state \in Pending /\ notices[i] \in Nat
    BY <1>1, <1>3 DEF IntentTypes
  <2>2. ~Sent(i)
    BY <2>1 DEF IntentKept, SendingKept, Pending, Leased, Worked
  <2>3. notices[i] = 0
    BY <2>1 DEF IntentKept, NoticeKept, Pending, Terminal
  <2>4. RequestKept(i)'
    BY <2>1 DEF IntentKept, RequestKept, Pending
  <2>5. DecisionKept(i)'
    BY <1>3, <1>5, <2>1 DEF IntentKept, DecisionKept, Pending
  <2>6. SendingKept(i)'
    BY <2>2 DEF SendingKept, Sent
  <2>7. SettlingKept(i)'
    BY <1>2 DEF SettlingKept
  <2>8. NoticeKept(i)'
    BY <1>3, <1>5, <2>3 DEF NoticeKept
  <2> QED
    BY <2>4, <2>5, <2>6, <2>7, <2>8 DEF IntentKept
<1>7. \A i \in Intents \ ends : IntentKept(i)'
    BY <1>4, OtherIntentKept
<1>8. intents' \in [Intents -> IntentRow] /\ notices' \in [Intents -> Nat]
  <2>1. \A i \in Intents : intents'[i] \in IntentRow
    BY <1>1, <1>4, <1>5 DEF IntentTypes
  <2>2. DOMAIN intents' = Intents /\ intents' = [i \in Intents |-> intents'[i]]
    BY <1>2
  <2>3. notices' \in [Intents -> Nat]
    BY <1>1, <1>2 DEF IntentTypes
  <2> QED
    BY <2>1, <2>2, <2>3
<1>9. OneLease'
    BY <1>1, <1>3, <1>4, <1>5 DEF OneLease
<1>10. ASSUME NEW w \in Workers PROVE WorkerHolds(w)'
  <2>1. worker[w].pc # "idle" => worker[w].intent \in Intents \ ends
    BY <1>3, LeasableIsFree DEF QueueInv, WorkersSound, WorkerHolds
  <2> QED
    BY <1>4, <2>1, OtherWorkerHolds
<1> QED
    BY <1>1, <1>3, <1>6, <1>7, <1>8, <1>9, <1>10
       DEF QueueInv, IntentsSound, IntentTypes, WorkersSound, WorkerTypes

-----------------------------------------------------------------------------
(* Agent and administrator.                                                 *)

\* A transaction about one intent that takes no lease.
LEMMA OneIntentMoves ==
    ASSUME QueueInv, NEW i \in Intents, IntentTypes', IntentKept(i)',
           \A j \in Intents \ {i} :
               /\ intents'[j] = intents[j] /\ requests'[j] = requests[j]
               /\ settling'[j] = settling[j] /\ approvals'[j] = approvals[j]
               /\ notices'[j] = notices[j] /\ chain'[j] = chain[j],
           intents'[i].state \in Leased /\ intents'[i].lease = "fresh" =>
               intents[i].state \in Leased /\ intents[i].lease = "fresh",
           UNCHANGED worker,
           \A w \in Workers : worker[w].intent = i => WorkerHolds(w)'
    PROVE  QueueInv'
<1>1. OneLease /\ WorkerTypes
    BY DEF QueueInv, IntentsSound, WorkersSound
<1>2. \A j \in Intents : IntentKept(j)'
    BY OtherIntentKept
<1>3. OneLease'
    BY <1>1 DEF OneLease
<1>4. ASSUME NEW w \in Workers PROVE WorkerHolds(w)'
  <2>1. CASE worker[w].intent = i
    BY <2>1
  <2>2. CASE worker[w].intent # i
    <3>1. worker[w].pc # "idle" => worker[w].intent \in Intents
        BY DEF QueueInv, WorkersSound, WorkerHolds
    <3> QED
        BY <2>2, <3>1, OtherWorkerHolds
  <2> QED
    BY <2>1, <2>2
<1> QED
    BY <1>1, <1>2, <1>3, <1>4 DEF QueueInv, IntentsSound, WorkersSound, WorkerTypes

LEMMA PrepareSound ==
    ASSUME QueueInv, AuthorityInv, NEW i \in Intents, NEW admissible \in BOOLEAN,
           Prepare(i, admissible), UNCHANGED <<worker, chain>>
    PROVE  QueueInv'
<1>1. IntentTypes /\ IntentKept(i)
    BY DEF QueueInv, IntentsSound
<1>2. /\ UNCHANGED <<intents, approvals, settling, notices>>
      /\ intents[i].state = "none"
      /\ requests' = [requests EXCEPT ![i] =
             [mandate |-> mandate.version,
              decision |-> evaluatePolicy(Constraints[mandate.version], i, admissible)]]
    BY DEF Prepare
<1>3. evaluatePolicy(Constraints[mandate.version], i, admissible) \in
          {"DENIED", resolveMandateApproval(Constraints[mandate.version], i)}
    BY DEF evaluatePolicy
<1>4. mandate.version \in Nat
    BY DEF AuthorityInv, AuthorityTypes
<1>5. /\ DOMAIN requests' = Intents /\ \A j \in Intents \ {i} : requests'[j] = requests[j]
      /\ requests'[i].mandate = mandate.version
      /\ requests'[i].decision = evaluatePolicy(Constraints[mandate.version], i, admissible)
    BY <1>1, <1>2 DEF IntentTypes
<1> HIDE DEF evaluatePolicy
<1>6. IntentKept(i)'
    BY <1>1, <1>2, <1>3, <1>4, <1>5
       DEF IntentKept, RequestKept, DecisionKept, SendingKept, Sent, SettlingKept, NoticeKept
<1>7. \A w \in Workers : WorkerHolds(w)'
    BY <1>2, OtherWorkerHolds
<1>8. IntentTypes'
    BY <1>1, <1>2, <1>5 DEF IntentTypes
<1> QED
    BY <1>2, <1>5, <1>6, <1>7, <1>8, OneIntentMoves

\* The intent appears with the decision of its request, or is denied by the daily limit.
LEMMA CommitPrepareSound ==
    ASSUME QueueInv, NEW i \in Intents, CommitPrepare(i), UNCHANGED <<worker, chain>>
    PROVE  QueueInv'
<1> DEFINE version == requests[i].mandate
           decision == FinalDecision(i)
           row == [NoIntent EXCEPT !.state = StateOf(decision), !.decision = decision,
                                   !.mandate = version, !.live = TRUE]
<1>1. IntentTypes /\ IntentKept(i)
    BY DEF QueueInv, IntentsSound
<1>2. /\ intents[i].state = "none" /\ version \in Nat
      /\ decision \in {"DENIED", resolveMandateApproval(Constraints[version], i)}
    BY <1>1 DEF CommitPrepare, IntentKept, RequestKept, FinalDecision
<1>3. decision \in {"DENIED", "HUMAN_REQUIRED", "AUTO_APPROVED"}
    BY <1>2 DEF resolveMandateApproval
<1>4. /\ settling[i] = NoSettle /\ ~Sent(i) /\ notices[i] = 0
    BY <1>1, <1>2 DEF IntentKept, SettlingKept, SendingKept, NoticeKept,
                      Waiting, Leased, Worked, Terminal
<1>5. /\ UNCHANGED <<approvals, settling>>
      /\ requests' = [requests EXCEPT ![i] = NoRequest]
      /\ \/ UNCHANGED <<intents, notices>>
         \/ /\ intents' = [intents EXCEPT ![i] = row]
            /\ notices' = [notices EXCEPT ![i] = @ + IF decision = "DENIED" THEN 1 ELSE 0]
    BY DEF CommitPrepare
<1>6. /\ row \in IntentRow
      /\ row.state = StateOf(decision) /\ row.decision = decision /\ row.mandate = version
      /\ row.lease = "none"
      /\ StateOf(decision) \in {"DENIED", "APPROVAL_REQUIRED", "PREPARED"}
      /\ StateOf(decision) = "DENIED" <=> decision = "DENIED"
    BY <1>2, <1>3 DEF NoIntent, IntentRow, StateOf, ACTIVE_INTENT_STATES, Pending, Terminal, Codes
<1> HIDE DEF decision, version, row
<1>7. DOMAIN requests' = Intents /\ requests'[i] = NoRequest
      /\ \A j \in Intents \ {i} : requests'[j] = requests[j]
    BY <1>1, <1>5 DEF IntentTypes
<1>8. ASSUME NEW w \in Workers, worker[w].intent = i PROVE worker[w].pc = "idle"
    BY <1>2, <1>8, LeasableIsFree
<1>9. \A w \in Workers : worker[w].intent = i => WorkerHolds(w)'
    BY <1>8 DEF WorkerHolds
<1>10. CASE UNCHANGED <<intents, notices>>
  <2>1. IntentKept(i)'
    BY <1>1, <1>5, <1>7, <1>10
       DEF IntentKept, RequestKept, DecisionKept, SendingKept, Sent, SettlingKept, NoticeKept
  <2>2. IntentTypes'
    BY <1>1, <1>5, <1>7, <1>10 DEF IntentTypes
  <2> QED
    BY <1>5, <1>7, <1>9, <1>10, <2>1, <2>2, OneIntentMoves
<1>11. CASE /\ intents' = [intents EXCEPT ![i] = row]
            /\ notices' = [notices EXCEPT ![i] = @ + IF decision = "DENIED" THEN 1 ELSE 0]
  <2>1. /\ intents' \in [Intents -> IntentRow] /\ intents'[i] = row
        /\ \A j \in Intents \ {i} : intents'[j] = intents[j]
    BY <1>1, <1>6, <1>11 DEF IntentTypes
  <2>2. /\ notices' \in [Intents -> Nat]
        /\ notices'[i] = IF decision = "DENIED" THEN 1 ELSE 0
        /\ \A j \in Intents \ {i} : notices'[j] = notices[j]
    BY <1>1, <1>4, <1>11 DEF IntentTypes
  <2>3. RequestKept(i)' /\ SettlingKept(i)'
    BY <1>4, <1>5, <1>7 DEF RequestKept, SettlingKept
  <2>4. DecisionKept(i)'
    BY <1>2, <1>6, <2>1 DEF DecisionKept, Leased, Worked
  <2>5. SendingKept(i)' /\ NoticeKept(i)'
    BY <1>4, <1>6, <2>1, <2>2 DEF SendingKept, Sent, NoticeKept, Terminal
  <2>6. IntentTypes'
    BY <1>1, <1>5, <1>7, <2>1, <2>2 DEF IntentTypes
  <2> QED
    BY <1>5, <1>6, <1>7, <1>9, <2>1, <2>2, <2>3, <2>4, <2>5, <2>6, OneIntentMoves
       DEF IntentKept
<1> QED
    BY <1>5, <1>10, <1>11

\* An intent moves on towards the queue.
LEMMA IntentAdvances ==
    ASSUME QueueInv, NEW i \in Intents, NEW row \in IntentRow, RowFree(i),
           intents' = [intents EXCEPT ![i] = row],
           row.mandate = intents[i].mandate, row.decision = intents[i].decision,
           intents[i].state \in Pending, row.state \in {"APPROVED", "QUEUED"},
           row.state = "QUEUED" /\ row.decision = "HUMAN_REQUIRED" => approvals'[i] # "none",
           row.by = intents[i].by, row.lease = intents[i].lease,
           approvals' \in [Intents -> {"none", "live", "lapsed"}],
           \A j \in Intents \ {i} : approvals'[j] = approvals[j],
           approvals[i] # "none" => approvals'[i] # "none",
           UNCHANGED <<requests, settling, notices, chain, worker>>
    PROVE  QueueInv'
<1>1. IntentTypes /\ IntentKept(i)
    BY DEF QueueInv, IntentsSound
<1>2. /\ intents' \in [Intents -> IntentRow] /\ intents'[i] = row
      /\ \A j \in Intents \ {i} : intents'[j] = intents[j]
    BY <1>1 DEF IntentTypes
<1>3. IntentTypes'
    BY <1>1, <1>2 DEF IntentTypes
<1>4. RequestKept(i)' /\ SettlingKept(i)'
    BY <1>1, <1>2 DEF IntentKept, RequestKept, SettlingKept, RowFree, Pending
<1>5. DecisionKept(i)'
    BY <1>1, <1>2 DEF IntentKept, DecisionKept, Pending, Leased, Worked
<1>6. SendingKept(i)' /\ NoticeKept(i)'
    BY <1>1, <1>2 DEF IntentKept, SendingKept, NoticeKept, Sent, Pending, Leased, Worked, Terminal
<1>7. ASSUME NEW w \in Workers, worker[w].intent = i PROVE WorkerHolds(w)'
  <2>1. worker[w].pc = "idle"
    BY <1>7, LeasableIsFree
  <2> QED
    BY <2>1 DEF WorkerHolds
<1> QED
    BY <1>2, <1>3, <1>4, <1>5, <1>6, <1>7, OneIntentMoves DEF IntentKept, Leased

LEMMA ApproveSound ==
    ASSUME QueueInv, NEW i \in Intents, Approve(i), UNCHANGED <<worker, chain>>
    PROVE  QueueInv'
<1> DEFINE row == [intents[i] EXCEPT !.state = "APPROVED"]
<1>1. IntentTypes /\ intents[i] \in IntentRow
    BY DEF QueueInv, IntentsSound, IntentTypes
<1>2. /\ intents' = [intents EXCEPT ![i] = row] /\ RowFree(i)
      /\ approvals' = [approvals EXCEPT ![i] = "live"]
      /\ intents[i].state = "APPROVAL_REQUIRED"
      /\ UNCHANGED <<requests, settling, notices>>
    BY DEF Approve
<1>3. /\ row \in IntentRow /\ row.state = "APPROVED"
      /\ row.mandate = intents[i].mandate /\ row.decision = intents[i].decision
      /\ row.by = intents[i].by /\ row.lease = intents[i].lease
    BY <1>1 DEF IntentRow, ACTIVE_INTENT_STATES, Pending
<1> HIDE DEF row
<1>4. /\ approvals' \in [Intents -> {"none", "live", "lapsed"}] /\ approvals'[i] = "live"
      /\ \A j \in Intents \ {i} : approvals'[j] = approvals[j]
    BY <1>1, <1>2 DEF IntentTypes
<1> QED
    BY <1>2, <1>3, <1>4, IntentAdvances DEF Pending

\* Into the queue goes what is decided, and approved if the decision asks for it.
LEMMA ExecuteSound ==
    ASSUME QueueInv, NEW i \in Intents, Execute(i), UNCHANGED <<worker, chain>>
    PROVE  QueueInv'
<1> DEFINE row == [intents[i] EXCEPT !.state = "QUEUED"]
<1>1. IntentTypes /\ intents[i] \in IntentRow
    BY DEF QueueInv, IntentsSound, IntentTypes
<1>2. UNCHANGED <<approvals, requests, settling>>
    BY DEF Execute
<1>3. \/ \E state \in {"EXPIRED", "CANCELLED"} :
             TerminateInLock({i}, {"PREPARED", "APPROVAL_REQUIRED", "APPROVED"}, state)
      \/ /\ intents' = [intents EXCEPT ![i] = row] /\ RowFree(i) /\ Executable(i)
         /\ intents[i].decision = "HUMAN_REQUIRED" => approvals[i] = "live"
         /\ UNCHANGED notices
    BY DEF Execute
<1>4. ASSUME NEW state \in {"EXPIRED", "CANCELLED"},
             TerminateInLock({i}, {"PREPARED", "APPROVAL_REQUIRED", "APPROVED"}, state)
      PROVE  QueueInv'
  <2>1. {"PREPARED", "APPROVAL_REQUIRED", "APPROVED"} \in SUBSET Pending /\ {i} \in SUBSET Intents
    BY DEF Pending
  <2> QED
    BY <1>2, <1>4, <2>1, TerminateSound
<1>5. /\ row \in IntentRow /\ row.state = "QUEUED"
      /\ row.mandate = intents[i].mandate /\ row.decision = intents[i].decision
      /\ row.by = intents[i].by /\ row.lease = intents[i].lease
    BY <1>1 DEF IntentRow, ACTIVE_INTENT_STATES, Pending
<1> HIDE DEF row
<1>6. CASE /\ intents' = [intents EXCEPT ![i] = row] /\ RowFree(i) /\ Executable(i)
           /\ intents[i].decision = "HUMAN_REQUIRED" => approvals[i] = "live"
           /\ UNCHANGED notices
  <2>1. intents[i].state \in Pending
    BY <1>6 DEF Executable, Pending
  <2>2. /\ approvals' \in [Intents -> {"none", "live", "lapsed"}]
        /\ row.decision = "HUMAN_REQUIRED" => approvals'[i] = "live"
    BY <1>1, <1>2, <1>5, <1>6 DEF IntentTypes
  <2> QED
    BY <1>2, <1>5, <1>6, <2>1, <2>2, IntentAdvances
<1> QED
    BY <1>3, <1>4, <1>6

LEMMA ExpirySound ==
    ASSUME QueueInv, NEW i \in Intents, IntentExpires(i), UNCHANGED <<worker, chain>>
    PROVE  QueueInv'
<1> DEFINE row == [intents[i] EXCEPT !.live = FALSE]
<1>1. IntentTypes /\ IntentKept(i) /\ intents[i] \in IntentRow
    BY DEF QueueInv, IntentsSound, IntentTypes
<1>2. intents' = [intents EXCEPT ![i] = row] /\ UNCHANGED <<approvals, requests, settling, notices>>
    BY DEF IntentExpires
<1>3. /\ row \in IntentRow /\ row.state = intents[i].state
      /\ row.mandate = intents[i].mandate /\ row.decision = intents[i].decision
      /\ row.by = intents[i].by /\ row.lease = intents[i].lease
    BY <1>1 DEF IntentRow
<1> HIDE DEF row
<1>4. /\ intents' \in [Intents -> IntentRow] /\ intents'[i] = row
      /\ \A j \in Intents \ {i} : intents'[j] = intents[j]
    BY <1>1, <1>2, <1>3 DEF IntentTypes
<1>5. IntentKept(i)'
    BY <1>1, <1>2, <1>3, <1>4
       DEF IntentKept, RequestKept, DecisionKept, SendingKept, Sent, SettlingKept, NoticeKept
<1>6. ASSUME NEW w \in Workers, worker[w].intent = i PROVE WorkerHolds(w)'
  <2>1. WorkerHolds(w)
    BY DEF QueueInv, WorkersSound
  <2> QED
    BY <1>2, <1>3, <1>4, <1>6, <2>1 DEF WorkerHolds
<1>7. IntentTypes'
    BY <1>1, <1>2, <1>4 DEF IntentTypes
<1> QED
    BY <1>2, <1>3, <1>4, <1>5, <1>6, <1>7, OneIntentMoves

LEMMA LapseSound ==
    ASSUME QueueInv, NEW i \in Intents, ApprovalLapses(i), UNCHANGED <<worker, chain>>
    PROVE  QueueInv'
<1>1. IntentTypes /\ IntentKept(i)
    BY DEF QueueInv, IntentsSound
<1>2. /\ UNCHANGED <<intents, requests, settling, notices>>
      /\ approvals' = [approvals EXCEPT ![i] = "lapsed"]
    BY DEF ApprovalLapses
<1>3. /\ approvals' \in [Intents -> {"none", "live", "lapsed"}] /\ approvals'[i] = "lapsed"
      /\ \A j \in Intents \ {i} : approvals'[j] = approvals[j]
    BY <1>1, <1>2 DEF IntentTypes
<1>4. IntentKept(i)'
    BY <1>1, <1>2, <1>3
       DEF IntentKept, RequestKept, DecisionKept, SendingKept, Sent, SettlingKept, NoticeKept
<1>5. \A w \in Workers : WorkerHolds(w)'
    BY <1>2, OtherWorkerHolds
<1>6. IntentTypes'
    BY <1>1, <1>2, <1>3 DEF IntentTypes
<1> QED
    BY <1>2, <1>3, <1>4, <1>5, <1>6, OneIntentMoves

LEMMA ExpirePreparedSound ==
    ASSUME QueueInv, NEW i \in Intents, ExpirePrepared(i), UNCHANGED <<worker, chain>>
    PROVE  QueueInv'
<1>1. /\ BeginSettle(i, "EXPIRED", "none") /\ RowFree(i) /\ intents[i].state \in Waiting
      /\ UNCHANGED <<intents, requests, approvals, notices>>
    BY DEF ExpirePrepared, Expirable, Waiting
<1>2. IntentsSound' /\ \A j \in Intents \ {i} : settling'[j] = settling[j]
    BY <1>1, BeginSettleSound DEF Codes
<1>3. ASSUME NEW w \in Workers PROVE WorkerHolds(w)'
  <2>1. worker[w].pc # "idle" => worker[w].intent \in Intents \ {i}
    BY <1>1, LeasableIsFree DEF QueueInv, WorkersSound, WorkerHolds, Waiting, Pending
  <2> QED
    BY <1>1, <1>2, <2>1, OtherWorkerHolds
<1> QED
    BY <1>2, <1>3 DEF QueueInv, WorkersSound, WorkerTypes

\* What was read when the row was taken still stands when the transaction commits.
LEMMA CommitSettleSound ==
    ASSUME QueueInv, NEW i \in Intents, CommitSettle(i), UNCHANGED <<worker, chain>>
    PROVE  QueueInv'
<1> DEFINE to == settling[i].to
           row == [intents[i] EXCEPT !.state = to, !.code = settling[i].code]
<1>1. IntentTypes /\ IntentKept(i) /\ intents[i] \in IntentRow /\ notices[i] \in Nat
    BY DEF QueueInv, IntentsSound, IntentTypes
<1>2. /\ settling[i] # NoSettle
      /\ settling' = [settling EXCEPT ![i] = NoSettle]
      /\ intents' = [intents EXCEPT ![i] = row]
      /\ notices' = [notices EXCEPT ![i] = @ + 1]
      /\ UNCHANGED <<approvals, requests>>
    BY <1>1 DEF CommitSettle, RowFree, IntentTypes
<1>3. /\ \/ to = "EXPIRED" /\ intents[i].state \in Waiting
         \/ to \in Worked /\ intents[i].state \in {"QUEUED"} \union Leased
      /\ settling[i].code \in Codes
    BY <1>1, <1>2 DEF IntentKept, SettlingKept
<1>4. /\ row \in IntentRow /\ row.state = to
      /\ row.mandate = intents[i].mandate /\ row.decision = intents[i].decision
      /\ row.by = intents[i].by /\ row.lease = intents[i].lease
    BY <1>1, <1>3 DEF IntentRow, Terminal, Worked
<1> HIDE DEF row
<1>5. /\ intents' \in [Intents -> IntentRow] /\ intents'[i] = row
      /\ \A j \in Intents \ {i} : intents'[j] = intents[j]
    BY <1>1, <1>2, <1>4 DEF IntentTypes
<1>6. /\ DOMAIN settling' = Intents /\ settling'[i] = NoSettle
      /\ \A j \in Intents \ {i} : settling'[j] = settling[j]
      /\ notices' \in [Intents -> Nat] /\ notices'[i] = notices[i] + 1
      /\ \A j \in Intents \ {i} : notices'[j] = notices[j]
    BY <1>1, <1>2 DEF IntentTypes
<1>7. RequestKept(i)' /\ SettlingKept(i)'
    BY <1>1, <1>2, <1>3, <1>5, <1>6 DEF IntentKept, RequestKept, SettlingKept, Waiting, Leased
<1>8. DecisionKept(i)'
    BY <1>1, <1>2, <1>3, <1>4, <1>5 DEF IntentKept, DecisionKept, Waiting, Leased, Worked
<1>9. SendingKept(i)' /\ NoticeKept(i)'
  <2>1. notices[i] = 0 /\ to \in Terminal
    BY <1>1, <1>3 DEF IntentKept, NoticeKept, Waiting, Leased, Worked, Terminal
  <2>2. Sent(i)' <=> Sent(i)
    BY DEF Sent
  <2> QED
    BY <1>1, <1>3, <1>4, <1>5, <1>6, <2>1, <2>2
       DEF IntentKept, SendingKept, NoticeKept, Waiting, Leased, Worked
<1>10. ASSUME NEW w \in Workers, worker[w].intent = i PROVE WorkerHolds(w)'
  <2>1. WorkerHolds(w)
    BY DEF QueueInv, WorkersSound
  <2>2. worker[w].pc # "idle" => worker[w].pc = "fail" /\ to \in {"FAILED", "FAILED_WITH_ALLOWANCE"}
    BY <1>2, <1>3, <1>10, <2>1 DEF WorkerHolds, Waiting, Leased, Worked
  <2>3. settling'[i].to # "COMPLETED"
    BY <1>6 DEF NoSettle
  <2> QED
    BY <1>4, <1>5, <1>10, <2>1, <2>2, <2>3 DEF WorkerHolds
<1>11. IntentTypes'
    BY <1>1, <1>2, <1>5, <1>6 DEF IntentTypes
<1>12. to \notin Leased
    BY <1>3 DEF Leased, Worked
<1> QED
    BY <1>2, <1>4, <1>5, <1>6, <1>7, <1>8, <1>9, <1>10, <1>11, <1>12, OneIntentMoves DEF IntentKept

LEMMA QueueUntouched ==
    ASSUME QueueInv, UNCHANGED <<intents, approvals, requests, settling, notices, worker, chain>>
    PROVE  QueueInv'
<1>1. \A i \in Intents : IntentKept(i)'
    BY OtherIntentKept
<1>2. \A w \in Workers : WorkerHolds(w)'
    BY OtherWorkerHolds
<1> QED
    BY <1>1, <1>2
       DEF QueueInv, IntentsSound, IntentTypes, OneLease, WorkersSound, WorkerTypes

LEMMA AgentSound ==
    ASSUME QueueInv, AuthorityInv, NEW i \in Intents, Agent(i)
    PROVE  QueueInv'
<1>1. UNCHANGED <<worker, chain>>
    BY DEF Agent
<1>2. CASE \E admissible \in BOOLEAN : Prepare(i, admissible)
    BY <1>1, <1>2, PrepareSound
<1>3. CASE CommitPrepare(i)
    BY <1>1, <1>3, CommitPrepareSound
<1>4. CASE Execute(i)
    BY <1>1, <1>4, ExecuteSound
<1>5. CASE Approve(i)
    BY <1>1, <1>5, ApproveSound
<1>6. CASE Reject(i)
  <2>1. {"APPROVAL_REQUIRED"} \in SUBSET Pending /\ {i} \in SUBSET Intents
    BY DEF Pending
  <2>2. /\ TerminateInLock({i}, {"APPROVAL_REQUIRED"}, "REJECTED")
        /\ UNCHANGED <<approvals, requests, settling>>
    BY <1>6 DEF Reject
  <2> QED
    BY <1>1, <2>1, <2>2, TerminateSound
<1>7. CASE ExpirePrepared(i)
    BY <1>1, <1>7, ExpirePreparedSound
<1>8. CASE CommitSettle(i)
    BY <1>1, <1>8, CommitSettleSound
<1> QED
    BY <1>2, <1>3, <1>4, <1>5, <1>6, <1>7, <1>8 DEF Agent

LEMMA AdministrationSound ==
    ASSUME QueueInv, UNCHANGED <<worker, chain>>,
           \/ CreateMandate
           \/ \E status \in {"ACTIVE", "PAUSED", "REVOKED"} : ChangeStatus(status)
    PROVE  QueueInv'
<1>1. Pending \in SUBSET Pending
    OBVIOUS
<1>2. CASE CreateMandate
  <2> DEFINE among == {i \in Intents : intents[i].mandate # mandate'.version}
  <2>1. /\ TerminateInLock(among, Pending, "CANCELLED") /\ among \in SUBSET Intents
        /\ UNCHANGED <<approvals, requests, settling>>
    BY <1>2 DEF CreateMandate
  <2> HIDE DEF among
  <2> QED
    BY <1>1, <2>1, TerminateSound
<1>3. ASSUME NEW status \in {"ACTIVE", "PAUSED", "REVOKED"}, ChangeStatus(status)
      PROVE  QueueInv'
  <2>1. UNCHANGED <<approvals, requests, settling>>
    BY <1>3 DEF ChangeStatus
  <2>2. CASE UNCHANGED <<intents, notices>>
    BY <2>1, <2>2, QueueUntouched
  <2>3. CASE TerminateInLock(Intents, Pending, "CANCELLED")
    BY <1>1, <2>1, <2>3, TerminateSound
  <2> QED
    BY <1>3, <2>2, <2>3 DEF ChangeStatus
<1> QED
    BY <1>2, <1>3

LEMMA InstitutionSound ==
    ASSUME QueueInv, Institution \/ Withdrawals
    PROVE  QueueInv'
<1>1. UNCHANGED <<worker, chain>>
    BY DEF Institution, Withdrawals
<1>2. CASE CreateMandate \/ \E status \in {"ACTIVE", "PAUSED", "REVOKED"} : ChangeStatus(status)
    BY <1>1, <1>2, AdministrationSound
<1>3. CASE UNCHANGED intentVars
    BY <1>1, <1>3, QueueUntouched DEF intentVars
<1>4. CASE \E i \in Intents : IntentExpires(i)
    BY <1>1, <1>4, ExpirySound
<1>5. CASE \E i \in Intents : ApprovalLapses(i)
    BY <1>1, <1>5, LapseSound
<1> QED
    BY <1>2, <1>3, <1>4, <1>5 DEF Institution, Withdrawals, Onboard, Withdraw

-----------------------------------------------------------------------------
(* The executor.                                                            *)

\* What a worker does to its intent concerns no other worker.
LEMMA WorkerActs ==
    ASSUME QueueInv, NEW w \in Workers, NEW i \in Intents,
           IntentsSound', WorkerTypes', WorkerHolds(w)',
           \A v \in Workers \ {w} : worker'[v] = worker[v],
           \A j \in Intents \ {i} : intents'[j] = intents[j] /\ settling'[j] = settling[j],
           \A v \in Workers \ {w} : worker[v].pc # "idle" => worker[v].intent # i
    PROVE  QueueInv'
<1>1. ASSUME NEW v \in Workers \ {w} PROVE WorkerHolds(v)'
  <2>1. worker[v].pc # "idle" => worker[v].intent \in Intents \ {i}
    BY DEF QueueInv, WorkersSound, WorkerHolds
  <2> QED
    BY <2>1, OtherWorkerHolds
<1> QED
    BY <1>1 DEF QueueInv, WorkersSound

\* Steps of a worker's own.
LEMMA WorkerMoves ==
    ASSUME QueueInv, NEW w \in Workers, worker[w].pc # "idle",
           WorkerTypes', WorkerHolds(w)', \A v \in Workers \ {w} : worker'[v] = worker[v],
           UNCHANGED <<intents, approvals, requests, settling, notices>>, IntentsSound'
    PROVE  QueueInv'
<1>1. worker[w].intent \in Intents
    BY DEF QueueInv, WorkersSound, WorkerHolds
<1> QED
    BY <1>1, WorkersApart, WorkerActs

LEMMA IntentsUntouched ==
    ASSUME QueueInv, UNCHANGED <<intents, approvals, requests, settling, notices, chain>>
    PROVE  IntentsSound'
<1>1. \A i \in Intents : IntentKept(i)'
    BY OtherIntentKept
<1> QED
    BY <1>1 DEF QueueInv, IntentsSound, IntentTypes, OneLease

LEMMA LeaseSound ==
    ASSUME QueueInv, NEW w \in Workers, NEW i \in Intents, Lease(w, i)
    PROVE  QueueInv'
<1> DEFINE row == [Renewed(intents[i], LeasedState(i)) EXCEPT !.by = w]
<1>1. /\ IntentTypes /\ WorkerTypes /\ intents[i] \in IntentRow
      /\ intents[i].state \in {"QUEUED"} \union Leased
      /\ intents[i].state = "QUEUED" \/ intents[i].lease = "stale"
      /\ RowFree(i) /\ WalletFree(i)
      /\ UNCHANGED <<approvals, requests, notices, chain>>
    BY DEF QueueInv, IntentsSound, IntentTypes, WorkersSound, Lease, Oldest, Leasable
<1>2. \A v \in Workers : worker[v].pc # "idle" => worker[v].intent # i
    BY <1>1, LeasableIsFree DEF Pending
<1>3. CASE /\ BeginSettle(i, FailedState(i), LeaseCode(i))
           /\ UNCHANGED <<intents, worker>>
  <2>1. FailedState(i) \in Worked /\ LeaseCode(i) \in Codes
    BY DEF FailedState, LeaseCode, Worked, Codes
  <2>2. IntentsSound' /\ \A j \in Intents \ {i} : settling'[j] = settling[j]
    BY <1>1, <1>3, <2>1, BeginSettleSound
  <2>3. ASSUME NEW v \in Workers PROVE WorkerHolds(v)'
    <3>1. worker[v].pc # "idle" => worker[v].intent \in Intents \ {i}
        BY <1>2 DEF QueueInv, WorkersSound, WorkerHolds
    <3> QED
        BY <1>3, <2>2, <3>1, OtherWorkerHolds
  <2> QED
    BY <1>1, <1>3, <2>2, <2>3 DEF QueueInv, WorkersSound, WorkerTypes
<1>4. CASE /\ intents' = [intents EXCEPT ![i] = row]
           /\ worker' = [worker EXCEPT ![w] = Entry(i)]
           /\ UNCHANGED settling
  <2>1. LeasedState(i) \in Leased
    BY DEF LeasedState, Leased
  <2>2. /\ row \in IntentRow /\ row.state = LeasedState(i) /\ row.by = w /\ row.lease = "fresh"
        /\ row.mandate = intents[i].mandate /\ row.decision = intents[i].decision
    BY <1>1, <2>1 DEF Renewed, IntentRow, ACTIVE_INTENT_STATES
  <2> HIDE DEF row
  <2>3. IntentsSound'
    BY <1>1, <1>4, <2>1, <2>2, RenewSound
  <2>4. intents'[i] = row /\ \A j \in Intents \ {i} : intents'[j] = intents[j]
    BY <1>1, <1>4 DEF IntentTypes
  <2>5. /\ DOMAIN worker' = Workers /\ worker'[w] = Entry(i)
        /\ \A v \in Workers \ {w} : worker'[v] = worker[v]
    BY <1>1, <1>4 DEF WorkerTypes
  <2>6. WorkerTypes'
    BY <1>1, <2>5, EntryFields DEF WorkerTypes
  <2>7. WorkerHolds(w)'
    <3>1. worker'[w].intent = i /\ worker'[w].pc \in {"complete", "receipt", "refresh"}
        BY <2>5, EntryFields
    <3>2. /\ intents'[i].by = w /\ intents'[i].lease = "fresh" /\ intents'[i].state \in Leased
          /\ settling'[i] = NoSettle
        BY <1>1, <1>4, <2>1, <2>2, <2>4 DEF RowFree
    <3> QED
        BY <3>1, <3>2 DEF WorkerHolds
  <2> QED
    BY <1>2, <1>4, <2>3, <2>4, <2>5, <2>6, <2>7, WorkerActs
<1> QED
    BY <1>3, <1>4 DEF Lease

\* What a worker that is not idle may rely on.
LEMMA HeldIntent ==
    ASSUME QueueInv, NEW w \in Workers, worker[w].pc \in Holding
    PROVE  /\ worker[w].intent \in Intents
           /\ intents[worker[w].intent] \in IntentRow
           /\ intents[worker[w].intent].by = w /\ intents[worker[w].intent].lease = "fresh"
           /\ intents[worker[w].intent].state \in Leased
           /\ RowFree(worker[w].intent) /\ WalletFree(worker[w].intent)
<1>1. WorkerHolds(w) /\ worker[w].pc # "idle" /\ worker[w].pc # "fail"
    BY DEF QueueInv, WorkersSound, Holding
<1> QED
    BY <1>1, HeldIsFree DEF WorkerHolds, RowFree, QueueInv, IntentsSound, IntentTypes

\* A worker that renews its lease goes on holding it.
LEMMA RenewedSound ==
    ASSUME QueueInv, NEW w \in Workers, worker[w].pc \in Holding, NEW row \in IntentRow,
           intents' = [intents EXCEPT ![worker[w].intent] = row],
           row.state \in Leased, row.by = w, row.lease = "fresh",
           row.mandate = intents[worker[w].intent].mandate,
           row.decision = intents[worker[w].intent].decision,
           WorkerTypes', worker'[w].intent = worker[w].intent, worker'[w].pc \in Holding,
           \A v \in Workers \ {w} : worker'[v] = worker[v],
           UNCHANGED <<requests, settling, approvals, notices, chain>>
    PROVE  QueueInv'
<1> DEFINE i == worker[w].intent
<1>1. /\ i \in Intents /\ intents[i].state \in Leased /\ RowFree(i) /\ WalletFree(i)
    BY HeldIntent
<1>2. IntentTypes /\ worker[w].pc # "idle"
    BY DEF QueueInv, IntentsSound, Holding
<1>3. \A v \in Workers \ {w} : worker[v].pc # "idle" => worker[v].intent # i
    BY <1>2, WorkersApart
<1> HIDE DEF i
<1>4. intents' = [intents EXCEPT ![i] = row] /\ worker'[w].intent = i
      /\ row.mandate = intents[i].mandate /\ row.decision = intents[i].decision
    BY DEF i
<1>5. IntentsSound'
    BY <1>1, <1>4, RenewSound
<1>6. intents'[i] = row /\ \A j \in Intents \ {i} : intents'[j] = intents[j]
    BY <1>1, <1>2, <1>4 DEF IntentTypes
<1>7. WorkerHolds(w)'
    BY <1>1, <1>4, <1>6 DEF WorkerHolds, RowFree, Holding
<1> QED
    BY <1>1, <1>3, <1>5, <1>6, <1>7, WorkerActs

\* A worker goes to its next stop, or gives up.
LEMMA StopSound ==
    ASSUME QueueInv, NEW w \in Workers, worker[w].pc \in Holding, ~worker[w].half,
           NEW pc \in Holding \union {"fail"}, GoTo(w, pc),
           UNCHANGED <<intents, approvals, requests, settling, notices>>, IntentsSound'
    PROVE  QueueInv'
<1>1. /\ WorkerTypes' /\ worker'[w].pc = pc /\ worker'[w].intent = worker[w].intent
      /\ \A v \in Workers \ {w} : worker'[v] = worker[v]
    BY QueueTypes, GoToFields DEF WorkerTypes
<1>2. WorkerHolds(w)'
    BY <1>1, HeldIntent DEF WorkerHolds, RowFree, NoSettle, Holding
<1> QED
    BY <1>1, <1>2, WorkerMoves DEF Holding

LEMMA LeaveSound ==
    ASSUME QueueInv, NEW w \in Workers, worker[w].pc # "idle", Leave(w),
           UNCHANGED <<intents, approvals, requests, settling, notices, chain>>
    PROVE  QueueInv'
<1>1. /\ WorkerTypes' /\ worker'[w].pc = "idle"
      /\ \A v \in Workers \ {w} : worker'[v] = worker[v]
    BY QueueTypes, LeaveFields DEF WorkerTypes
<1>2. WorkerHolds(w)'
    BY <1>1 DEF WorkerHolds
<1> QED
    BY <1>1, <1>2, IntentsUntouched, WorkerMoves

\* A worker's own intent is ended, by a worker that leaves it.
LEMMA EndSound ==
    ASSUME QueueInv, NEW w \in Workers, worker[w].pc # "idle",
           NEW to \in Worked, NEW code \in Codes,
           BeginSettle(worker[w].intent, to, code), RowFree(worker[w].intent),
           intents[worker[w].intent].state \in Leased,
           WorkerTypes', \A v \in Workers \ {w} : worker'[v] = worker[v],
           \/ worker'[w].pc = "idle"
           \/ /\ worker'[w].pc = "fail" /\ worker'[w].intent = worker[w].intent
              /\ to # "COMPLETED",
           UNCHANGED <<intents, approvals, requests, notices, chain>>
    PROVE  QueueInv'
<1> DEFINE i == worker[w].intent
<1>1. i \in Intents /\ intents[i].by = w /\ intents[i].lease = "fresh"
    BY DEF QueueInv, WorkersSound, WorkerHolds
<1>2. \A v \in Workers \ {w} : worker[v].pc # "idle" => worker[v].intent # i
    BY WorkersApart
<1> HIDE DEF i
<1>3. BeginSettle(i, to, code) /\ RowFree(i) /\ intents[i].state \in Leased
    BY DEF i
<1>4. /\ IntentsSound' /\ settling'[i].to = to
      /\ \A j \in Intents \ {i} : settling'[j] = settling[j]
    BY <1>1, <1>3, BeginSettleSound
<1>5. worker'[w].pc = "fail" => worker'[w].intent = i /\ to # "COMPLETED"
    BY DEF i
<1>6. WorkerHolds(w)'
    BY <1>1, <1>3, <1>4, <1>5 DEF WorkerHolds
<1> QED
    BY <1>1, <1>2, <1>4, <1>6, WorkerActs

LEMMA RefreshSound ==
    ASSUME QueueInv, NEW w \in Workers, NEW preflight, Refresh(w, preflight)
    PROVE  QueueInv'
<1> DEFINE i == worker[w].intent
           row == [intents[i] EXCEPT !.lease = "fresh"]
<1>1. /\ worker[w].pc = "refresh" /\ worker[w].pc \in Holding /\ ~worker[w].half
      /\ UNCHANGED <<approvals, requests, notices, chain>>
    BY DEF Refresh, At, Holding
<1>2. /\ i \in Intents /\ intents[i] \in IntentRow /\ intents[i].by = w
      /\ intents[i].state \in Leased /\ RowFree(i)
    BY <1>1, HeldIntent
<1>3. CASE ~Owns(w, {"SIGNING"})
  <2>1. GoTo(w, "fail") /\ UNCHANGED <<intents, settling>>
    BY <1>3 DEF Refresh
  <2> QED
    BY <1>1, <2>1, IntentsUntouched, StopSound
<1>4. CASE Owns(w, {"SIGNING"}) /\ RefreshRefused(i, preflight)
  <2>1. BeginSettle(i, FailedState(i), "REFUSED") /\ GoTo(w, "fail") /\ UNCHANGED intents
    BY <1>4 DEF Refresh
  <2>2. FailedState(i) \in Worked \ {"COMPLETED"} /\ "REFUSED" \in Codes
    BY DEF FailedState, Worked, Codes
  <2>3. /\ WorkerTypes' /\ worker'[w].pc = "fail" /\ worker'[w].intent = worker[w].intent
        /\ \A v \in Workers \ {w} : worker'[v] = worker[v]
    BY <1>1, <2>1, QueueTypes, GoToFields DEF WorkerTypes
  <2> QED
    BY <1>1, <1>2, <2>1, <2>2, <2>3, EndSound
<1>5. CASE Owns(w, {"SIGNING"}) /\ ~RefreshRefused(i, preflight)
  <2>1. intents' = [intents EXCEPT ![i].lease = "fresh"] /\ GoTo(w, "sign") /\ UNCHANGED settling
    BY <1>5 DEF Refresh
  <2>2. intents' = [intents EXCEPT ![i] = row]
    BY <2>1
  <2>3. /\ row \in IntentRow /\ row.state \in Leased /\ row.by = w /\ row.lease = "fresh"
        /\ row.mandate = intents[i].mandate /\ row.decision = intents[i].decision
    BY <1>2 DEF IntentRow
  <2>4. /\ WorkerTypes' /\ worker'[w].pc \in Holding /\ worker'[w].intent = worker[w].intent
        /\ \A v \in Workers \ {w} : worker'[v] = worker[v]
    BY <1>1, <2>1, QueueTypes, GoToFields DEF WorkerTypes, Holding
  <2> HIDE DEF row
  <2> QED
    BY <1>1, <2>1, <2>2, <2>3, <2>4, RenewedSound
<1> QED
    BY <1>3, <1>4, <1>5 DEF Refresh

\* The row of the step, or the worker's way out.
LEMMA ReportStepSound ==
    ASSUME QueueInv, NEW w \in Workers, ReportStepRow(w)
    PROVE  QueueInv'
<1>1. /\ worker[w].pc \in {"sign", "submit", "confirm", "fail"} /\ ~worker[w].half
      /\ UNCHANGED <<intents, approvals, requests, settling, notices, chain>>
    BY DEF ReportStepRow, Reported
<1>2. IntentsSound' /\ WorkerTypes /\ WorkerHolds(w)
    BY <1>1, IntentsUntouched DEF QueueInv, WorkersSound
<1>3. CASE worker' = [worker EXCEPT ![w].half = TRUE]
  <2>1. /\ DOMAIN worker' = Workers /\ \A v \in Workers \ {w} : worker'[v] = worker[v]
        /\ worker'[w] = [worker[w] EXCEPT !.half = TRUE]
    BY <1>2, <1>3 DEF WorkerTypes
  <2>2. /\ WorkerShape(worker'[w]) /\ worker'[w].pc = worker[w].pc
        /\ worker'[w].intent = worker[w].intent
    BY <1>1, <1>2, <2>1 DEF WorkerTypes, WorkerShape
  <2>3. WorkerTypes'
    BY <1>2, <2>1, <2>2 DEF WorkerTypes
  <2>4. WorkerHolds(w)'
    BY <1>1, <1>2, <2>2 DEF WorkerHolds
  <2> QED
    BY <1>1, <1>2, <2>1, <2>3, <2>4, WorkerMoves
<1>4. CASE worker[w].pc = "sign" /\ GoTo(w, "fail")
    BY <1>1, <1>2, <1>4, StopSound DEF Holding
<1>5. CASE Leave(w)
    BY <1>1, <1>5, LeaveSound
<1>6. CASE worker[w].pc = "confirm" /\ worker' = [worker EXCEPT ![w] = Onward(w)]
  <2>1. /\ DOMAIN worker' = Workers /\ worker'[w] = Onward(w)
        /\ \A v \in Workers \ {w} : worker'[v] = worker[v]
    BY <1>2, <1>6 DEF WorkerTypes
  <2>2. /\ WorkerTypes' /\ worker'[w].pc \in Holding /\ worker'[w].intent = worker[w].intent
    BY <1>2, <1>6, <2>1, OnwardFields DEF WorkerTypes
  <2>3. WorkerHolds(w)'
    BY <1>1, <1>2, <1>6, <2>2 DEF WorkerHolds, Holding
  <2> QED
    BY <1>1, <1>2, <1>6, <2>1, <2>2, <2>3, WorkerMoves
<1> QED
    BY <1>3, <1>4, <1>5, <1>6 DEF ReportStepRow, Reported

LEMMA ReportIntentSound ==
    ASSUME QueueInv, NEW w \in Workers, ReportIntentRow(w)
    PROVE  QueueInv'
<1> DEFINE i == worker[w].intent
           state == CASE worker[w].pc = "sign" -> "SIGNING"
                      [] worker[w].pc = "submit" -> "SUBMITTED"
                      [] worker[w].pc = "confirm" ->
                            IF Unconfirmed(i) = {} THEN "CONFIRMED" ELSE "SIGNING"
           row == Renewed(intents[i], state)
<1>1. /\ worker[w].half /\ RowFree(i)
      /\ UNCHANGED <<approvals, requests, notices, chain>>
    BY DEF ReportIntentRow
<1>2. WorkerTypes /\ WorkerHolds(w) /\ worker[w].pc \in {"sign", "submit", "confirm", "fail"}
    BY <1>1 DEF QueueInv, WorkersSound, WorkerTypes, WorkerShape
<1>3. CASE worker[w].pc = "fail"
  <2>1. Leave(w) /\ UNCHANGED intents
    BY <1>3 DEF ReportIntentRow
  <2>2. /\ WorkerTypes' /\ worker'[w].pc = "idle"
        /\ \A v \in Workers \ {w} : worker'[v] = worker[v]
    BY <2>1, QueueTypes, LeaveFields DEF WorkerTypes
  <2>3. CASE intents[i].state \in ACTIVE_INTENT_STATES
    <3>1. BeginSettle(i, FailedState(i), "REFUSED")
        BY <1>3, <2>3 DEF ReportIntentRow
    <3>2. FailedState(i) \in Worked /\ "REFUSED" \in Codes
        BY DEF FailedState, Worked, Codes
    <3>3. intents[i].state \in Leased
        BY <1>2, <1>3, <2>3 DEF WorkerHolds, ACTIVE_INTENT_STATES, Pending, Leased
    <3> QED
        BY <1>1, <1>3, <2>1, <2>2, <3>1, <3>2, <3>3, EndSound
  <2>4. CASE intents[i].state \notin ACTIVE_INTENT_STATES
    <3>1. UNCHANGED settling
        BY <1>3, <2>4 DEF ReportIntentRow
    <3> QED
        BY <1>1, <1>3, <2>1, <3>1, LeaveSound
  <2> QED
    BY <2>3, <2>4
<1>4. CASE worker[w].pc # "fail"
  <2>1. /\ worker[w].pc \in {"sign", "submit", "confirm"} /\ worker[w].pc \in Holding
    BY <1>2, <1>4 DEF Holding
  <2>2. /\ i \in Intents /\ intents[i] \in IntentRow /\ intents[i].by = w
    BY <2>1, HeldIntent
  <2>3. state \in Leased
    BY <2>1 DEF Leased
  <2>4. /\ intents' = [intents EXCEPT ![i] = Renewed(@, state)]
        /\ worker' = [worker EXCEPT ![w] = Onward(w)]
        /\ UNCHANGED settling
    BY <1>4 DEF ReportIntentRow
  <2> HIDE DEF state
  <2>5. intents' = [intents EXCEPT ![i] = row]
    BY <2>4
  <2>6. /\ row \in IntentRow /\ row.state \in Leased /\ row.by = w /\ row.lease = "fresh"
        /\ row.mandate = intents[i].mandate /\ row.decision = intents[i].decision
    BY <2>2, <2>3 DEF Renewed, IntentRow, ACTIVE_INTENT_STATES
  <2>7. /\ DOMAIN worker' = Workers /\ worker'[w] = Onward(w)
        /\ \A v \in Workers \ {w} : worker'[v] = worker[v]
    BY <1>2, <2>4 DEF WorkerTypes
  <2>8. /\ WorkerTypes' /\ worker'[w].pc \in Holding /\ worker'[w].intent = worker[w].intent
    BY <1>2, <2>1, <2>7, QueueTypes, OnwardFields DEF WorkerTypes
  <2> HIDE DEF row
  <2> QED
    BY <1>1, <2>1, <2>4, <2>5, <2>6, <2>7, <2>8, RenewedSound
<1> QED
    BY <1>3, <1>4

\* What Privy and the chain do to a step changes nothing else, and only what is leased is sent.
LEMMA ChainSound ==
    ASSUME QueueInv, NEW i \in Intents, NEW s, NEW tx,
           chain' = [chain EXCEPT ![i][s] = tx],
           intents[i].state \in Leased \/ (chain[i][s] # "none"),
           UNCHANGED <<intents, approvals, requests, settling, notices>>
    PROVE  IntentsSound'
<1>1. IntentTypes /\ IntentKept(i)
    BY DEF QueueInv, IntentsSound
<1>2. /\ DOMAIN chain' = Intents /\ chain'[i] = [chain[i] EXCEPT ![s] = tx]
      /\ \A j \in Intents \ {i} : chain'[j] = chain[j]
    BY <1>1 DEF IntentTypes
<1>3. Sent(i)' => Sent(i) \/ intents[i].state \in Leased
    BY <1>2 DEF Sent
<1>4. IntentKept(i)'
    BY <1>1, <1>3 DEF IntentKept, RequestKept, DecisionKept, SendingKept, SettlingKept, NoticeKept
<1>5. \A j \in Intents \ {i} : IntentKept(j)'
    BY <1>2, OtherIntentKept
<1> QED
    BY <1>1, <1>2, <1>4, <1>5 DEF QueueInv, IntentsSound, IntentTypes, OneLease

LEMMA SendSound ==
    ASSUME QueueInv, NEW w \in Workers, Send(w)
    PROVE  QueueInv'
<1> DEFINE i == worker[w].intent
           s == worker[w].step
           tx == IF chain[i][s] = "none" THEN "pending" ELSE chain[i][s]
<1>1. /\ worker[w].pc = "send" /\ worker[w].pc \in Holding /\ ~worker[w].half
      /\ chain' = [chain EXCEPT ![i][s] = IF @ = "none" THEN "pending" ELSE @]
      /\ GoTo(w, "submit")
      /\ UNCHANGED <<intents, approvals, requests, settling, notices>>
    BY DEF Send, At, Holding, intentVars
<1>2. i \in Intents /\ intents[i].state \in Leased
    BY <1>1, HeldIntent
<1>3. chain' = [chain EXCEPT ![i][s] = tx]
    BY <1>1
<1> HIDE DEF tx
<1>4. IntentsSound'
    BY <1>1, <1>2, <1>3, ChainSound
<1> QED
    BY <1>1, <1>4, StopSound DEF Holding

LEMMA ReceiptSound ==
    ASSUME QueueInv, NEW w \in Workers, SendRefused(w) \/ Receipt(w)
    PROVE  QueueInv'
<1>1. /\ worker[w].pc \in {"send", "receipt"} /\ worker[w].pc \in Holding /\ worker[w].pc # "idle"
      /\ ~worker[w].half
      /\ UNCHANGED <<intents, approvals, requests, settling, notices, chain>>
    BY DEF SendRefused, Receipt, At, Holding, intentVars
<1>2. CASE \E pc \in {"confirm", "fail"} : GoTo(w, pc)
    BY <1>1, <1>2, IntentsUntouched, StopSound DEF Holding
<1>3. CASE Leave(w)
    BY <1>1, <1>3, LeaveSound
<1> QED
    BY <1>2, <1>3 DEF SendRefused, Receipt

LEMMA CompleteSound ==
    ASSUME QueueInv, NEW w \in Workers, Complete(w)
    PROVE  QueueInv'
<1> DEFINE i == worker[w].intent
           row == Renewed(intents[i], "INDEXING")
           ready == Owns(w, {"CONFIRMED", "INDEXING"}) /\ Unconfirmed(i) = {}
<1>1. /\ worker[w].pc \in Holding /\ worker[w].pc # "idle" /\ ~worker[w].half /\ RowFree(i)
      /\ UNCHANGED <<approvals, requests, notices, chain>>
    BY DEF Complete, At, Holding
<1>2. /\ i \in Intents /\ intents[i] \in IntentRow /\ intents[i].by = w
      /\ intents[i].state \in Leased
    BY <1>1, HeldIntent
<1>3. CASE ~ready
    BY <1>1, <1>3, LeaveSound DEF Complete
<1>4. CASE ready /\ chain[i][Len(Plan[i])] = "final"
  <2>1. Leave(w) /\ BeginSettle(i, "COMPLETED", "none") /\ UNCHANGED intents
    BY <1>4 DEF Complete
  <2>2. /\ WorkerTypes' /\ worker'[w].pc = "idle"
        /\ \A v \in Workers \ {w} : worker'[v] = worker[v]
    BY <2>1, QueueTypes, LeaveFields DEF WorkerTypes
  <2> QED
    BY <1>1, <1>2, <2>1, <2>2, EndSound DEF Worked, Codes
<1>5. CASE ready /\ chain[i][Len(Plan[i])] # "final"
  <2>1. /\ intents' = [intents EXCEPT ![i] = Renewed(@, "INDEXING")]
        /\ UNCHANGED <<worker, settling>>
    BY <1>5 DEF Complete
  <2>2. intents' = [intents EXCEPT ![i] = row]
    BY <2>1
  <2>3. /\ row \in IntentRow /\ row.state \in Leased /\ row.by = w /\ row.lease = "fresh"
        /\ row.mandate = intents[i].mandate /\ row.decision = intents[i].decision
    BY <1>2 DEF Renewed, IntentRow, ACTIVE_INTENT_STATES, Leased
  <2>4. WorkerTypes'
    BY <2>1 DEF QueueInv, WorkersSound, WorkerTypes
  <2> HIDE DEF row
  <2> QED
    BY <1>1, <2>1, <2>2, <2>3, <2>4, RenewedSound
<1> QED
    BY <1>3, <1>4, <1>5

LEMMA WorkSound ==
    ASSUME QueueInv, NEW w \in Workers, Work(w) \/ Abandon(w)
    PROVE  QueueInv'
<1>1. CASE \E i \in Intents : Lease(w, i)
    BY <1>1, LeaseSound
<1>2. CASE \E preflight \in Preflights : Refresh(w, preflight)
    BY <1>2, RefreshSound
<1>3. CASE ReportStepRow(w) \/ ReportIntentRow(w)
    BY <1>3, ReportStepSound, ReportIntentSound
<1>4. CASE Send(w)
    BY <1>4, SendSound
<1>5. CASE SendRefused(w) \/ Receipt(w)
    BY <1>5, ReceiptSound
<1>6. CASE Complete(w)
    BY <1>6, CompleteSound
<1>7. CASE IndexTimeout(w) \/ Abandon(w)
  <2>1. /\ worker[w].pc # "idle" /\ Leave(w)
        /\ UNCHANGED <<intents, approvals, requests, settling, notices, chain>>
    BY <1>7 DEF IndexTimeout, Abandon, At, intentVars
  <2> QED
    BY <2>1, LeaveSound
<1> QED
    BY <1>1, <1>2, <1>3, <1>4, <1>5, <1>6, <1>7 DEF Work

\* A rolled back transaction lets the row go; who asked for it gets an error.
LEMMA RollbackSound ==
    ASSUME QueueInv, NEW i \in Intents, Rollback(i)
    PROVE  QueueInv'
<1>1. IntentTypes /\ IntentKept(i) /\ WorkerTypes
    BY DEF QueueInv, IntentsSound, WorkersSound
<1>2. /\ settling[i] # NoSettle /\ settling' = [settling EXCEPT ![i] = NoSettle]
      /\ worker' = [w \in Workers |->
             IF worker[w].intent = i /\ worker[w].pc = "fail" THEN Idle ELSE worker[w]]
      /\ UNCHANGED <<intents, approvals, requests, notices, chain>>
    BY DEF Rollback, RowFree
<1>3. /\ DOMAIN settling' = Intents /\ settling'[i] = NoSettle
      /\ \A j \in Intents \ {i} : settling'[j] = settling[j]
    BY <1>1, <1>2 DEF IntentTypes
<1>4. IntentKept(i)'
    BY <1>1, <1>2, <1>3
       DEF IntentKept, RequestKept, DecisionKept, SendingKept, Sent, SettlingKept, NoticeKept
<1>5. IntentsSound'
  <2>1. \A j \in Intents \ {i} : IntentKept(j)'
    BY <1>2, <1>3, OtherIntentKept
  <2> QED
    BY <1>2, <1>3, <1>4, <2>1 DEF QueueInv, IntentsSound, IntentTypes, OneLease
<1>6. WorkerTypes'
    BY <1>1, <1>2 DEF WorkerTypes, WorkerShape, Idle
<1>7. ASSUME NEW w \in Workers PROVE WorkerHolds(w)'
  <2>1. CASE worker[w].pc = "idle" \/ worker[w].intent # i
    <3>1. worker'[w] = worker[w]
        BY <1>2, <2>1
    <3>2. worker[w].pc # "idle" => worker[w].intent \in Intents \ {i}
        BY <2>1 DEF QueueInv, WorkersSound, WorkerHolds
    <3> QED
        BY <1>2, <1>3, <3>1, <3>2, OtherWorkerHolds
  <2>2. CASE worker[w].pc # "idle" /\ worker[w].intent = i
    <3>1. worker[w].pc = "fail"
        BY <1>2, <2>2 DEF QueueInv, WorkersSound, WorkerHolds
    <3>2. worker'[w] = Idle
        BY <1>2, <2>2, <3>1
    <3> QED
        BY <3>2 DEF WorkerHolds, Idle
  <2> QED
    BY <2>1, <2>2
<1> QED
    BY <1>5, <1>6, <1>7 DEF QueueInv, WorkersSound

\* Here it matters that no worker outlives its lease.
LEMMA LeaseExpirySound ==
    ASSUME ~SlowWorkers, QueueInv, NEW i \in Intents, LeaseExpires(i)
    PROVE  QueueInv'
<1> DEFINE row == [intents[i] EXCEPT !.lease = "stale"]
<1>1. IntentTypes /\ IntentKept(i) /\ intents[i] \in IntentRow
    BY DEF QueueInv, IntentsSound, IntentTypes
<1>2. /\ intents' = [intents EXCEPT ![i] = row] /\ \A w \in Workers : worker[w].intent # i
      /\ UNCHANGED <<approvals, requests, settling, notices, worker, chain>>
    BY DEF LeaseExpires
<1>3. /\ row \in IntentRow /\ row.state = intents[i].state /\ row.lease = "stale"
      /\ row.mandate = intents[i].mandate /\ row.decision = intents[i].decision
    BY <1>1 DEF IntentRow
<1> HIDE DEF row
<1>4. /\ intents' \in [Intents -> IntentRow] /\ intents'[i] = row
      /\ \A j \in Intents \ {i} : intents'[j] = intents[j]
    BY <1>1, <1>2, <1>3 DEF IntentTypes
<1>5. IntentKept(i)'
    BY <1>1, <1>2, <1>3, <1>4
       DEF IntentKept, RequestKept, DecisionKept, SendingKept, Sent, SettlingKept, NoticeKept
<1>6. IntentTypes'
    BY <1>1, <1>2, <1>4 DEF IntentTypes
<1> QED
    BY <1>2, <1>3, <1>4, <1>5, <1>6, OneIntentMoves

LEMMA MiningSound ==
    ASSUME QueueInv, NEW i \in Intents, IndexFinal(i) \/ \E s \in IntentSteps(i) : Mine(i, s)
    PROVE  QueueInv'
<1>1. UNCHANGED <<intents, approvals, requests, settling, notices, worker>>
    BY DEF IndexFinal, Mine, intentVars
<1>2. \E s, tx : chain[i][s] # "none" /\ chain' = [chain EXCEPT ![i][s] = tx]
  <2>1. CASE IndexFinal(i)
    BY <2>1 DEF IndexFinal
  <2>2. CASE \E s \in IntentSteps(i) : Mine(i, s)
    BY <2>2 DEF Mine
  <2> QED
    BY <2>1, <2>2
<1>3. IntentsSound'
    BY <1>1, <1>2, ChainSound
<1>4. \A w \in Workers : WorkerHolds(w)'
    BY <1>1, OtherWorkerHolds
<1> QED
    BY <1>1, <1>3, <1>4 DEF QueueInv, WorkersSound, WorkerTypes

-----------------------------------------------------------------------------
(* The invariant and what follows from it.                                  *)

LEMMA QueueInitial == Init => QueueInv
<1> SUFFICES ASSUME Init PROVE QueueInv
    OBVIOUS
<1>1. IntentTypes
    BY DEF Init, IntentsInit, IntentTypes, IntentRow, NoIntent, Codes
<1>2. \A i \in Intents : ~Sent(i)
    BY DEF Init, Sent
<1>3. \A i \in Intents : IntentKept(i)
    BY <1>2 DEF Init, IntentsInit, IntentKept, RequestKept, DecisionKept, SendingKept, SettlingKept,
                NoticeKept, NoIntent, Leased, Worked, Terminal
<1>4. OneLease
    BY DEF Init, IntentsInit, OneLease, NoIntent, Leased
<1>5. WorkersSound
    BY DEF Init, WorkersSound, WorkerTypes, WorkerShape, WorkerHolds, Idle
<1> QED
    BY <1>1, <1>3, <1>4, <1>5 DEF QueueInv, IntentsSound

LEMMA QueueStep ==
    ASSUME ~SlowWorkers, QueueInv, AuthorityInv, [Next]_vars
    PROVE  QueueInv'
<1>1. CASE UNCHANGED vars
    BY <1>1, QueueUntouched DEF vars, intentVars
<1>2. CASE Institution \/ Withdrawals
    BY <1>2, InstitutionSound
<1>3. ASSUME NEW i \in Intents, Agent(i) PROVE QueueInv'
    BY <1>3, AgentSound
<1>4. ASSUME NEW i \in Intents, LeaseExpires(i) PROVE QueueInv'
    BY <1>4, LeaseExpirySound
<1>5. ASSUME NEW i \in Intents, Rollback(i) PROVE QueueInv'
    BY <1>5, RollbackSound
<1>6. ASSUME NEW w \in Workers, Work(w) \/ Abandon(w) PROVE QueueInv'
    BY <1>6, WorkSound
<1>7. ASSUME NEW i \in Intents, IndexFinal(i) \/ \E s \in IntentSteps(i) : Mine(i, s)
      PROVE  QueueInv'
    BY <1>7, MiningSound
<1> QED
    BY <1>1, <1>2, <1>3, <1>4, <1>5, <1>6, <1>7 DEF Next

LEMMA QueueSuffices ==
    ASSUME QueueInv
    PROVE  LeaseIsExclusive
<1>1. EndsOnce
    BY DEF QueueInv, IntentsSound, EndsOnce, IntentKept, NoticeKept
<1>2. OneSignerPerWallet
  <2>1. SUFFICES ASSUME NEW v \in Workers, NEW w \in Workers,
                        worker[v].pc \in {"sign", "send", "submit"},
                        worker[w].pc \in {"sign", "send", "submit"}
                 PROVE  v = w
    BY DEF OneSignerPerWallet
  <2>2. /\ worker[v].pc \in Holding /\ worker[w].pc \in Holding
        /\ worker[v].pc # "idle" /\ worker[w].pc # "idle"
    BY <2>1 DEF Holding
  <2>3. worker[v].intent = worker[w].intent
    BY <2>2, HeldIntent DEF QueueInv, IntentsSound, OneLease
  <2> QED
    BY <2>2, <2>3, WorkersApart
<1> QED
    BY <1>1, <1>2 DEF LeaseIsExclusive

LEMMA QueueInvariance ==
    ASSUME ~SlowWorkers
    PROVE  Spec => [](AuthorityInv /\ QueueInv)
<1>1. Init => AuthorityInv /\ QueueInv
    BY AuthorityInitial, QueueInitial
<1>2. AuthorityInv /\ QueueInv /\ [Next]_vars => AuthorityInv' /\ QueueInv'
    BY AuthorityStep, QueueStep
<1> QED
    BY <1>1, <1>2, PTL DEF Spec

(* While no worker outlives its lease, one worker at a time signs for a     *)
(* wallet, and each intent ends once, with one event, whoever tries to end  *)
(* it (leaseIntent, reportStep, terminateIntentInTransaction).              *)
THEOREM LeasesAreExclusive ==
    ASSUME ~SlowWorkers
    PROVE  Spec => []LeaseIsExclusive
<1>1. AuthorityInv /\ QueueInv => LeaseIsExclusive
    BY QueueSuffices
<1> QED
    BY <1>1, QueueInvariance, PTL

-----------------------------------------------------------------------------
(* What reaches Privy, also when workers outlive their leases: two of them  *)
(* may then be at one intent, and a late report may take an ended one back. *)

PermittedKept(i) == RequestKept(i) /\ DecisionKept(i) /\ SendingKept(i) /\ SettlingKept(i)

\* The administrator is done with an intent that a worker is at.
WorkerOn(w) ==
    worker[w].pc # "idle" =>
        /\ worker[w].intent \in Intents
        /\ intents[worker[w].intent].state \in Leased \union Worked

PermitInv ==
    /\ IntentTypes /\ WorkerTypes
    /\ \A i \in Intents : PermittedKept(i)
    /\ \A w \in Workers : WorkerOn(w)

\* An intent stays as it was, or moves and still is what PermittedKept asks for.
IntentPermits(i) ==
    /\ PermittedKept(i)'
    /\ intents[i].state \in Leased \union Worked => intents'[i].state \in Leased \union Worked

LEMMA OtherPermits ==
    ASSUME PermitInv, NEW i \in Intents,
           intents'[i] = intents[i], requests'[i] = requests[i], settling'[i] = settling[i],
           approvals'[i] = approvals[i], chain'[i] = chain[i]
    PROVE  IntentPermits(i)
<1>1. PermittedKept(i)
    BY DEF PermitInv
<1>2. Sent(i)' <=> Sent(i)
    BY DEF Sent
<1> QED
    BY <1>1, <1>2
       DEF IntentPermits, PermittedKept, RequestKept, DecisionKept, SendingKept, SettlingKept

\* A row whose state, mandate and decision stay, or that goes on through the worker's states.
LEMMA RowPermits ==
    ASSUME PermitInv, NEW i \in Intents, NEW row \in IntentRow,
           intents' = [intents EXCEPT ![i] = row],
           \/ row.state = intents[i].state
           \/ /\ RowFree(i) /\ row.state \in Leased
              /\ intents[i].state \in {"QUEUED"} \union Leased \union Worked,
           row.mandate = intents[i].mandate, row.decision = intents[i].decision,
           UNCHANGED <<requests, settling, approvals, notices, chain>>
    PROVE  IntentTypes' /\ \A j \in Intents : IntentPermits(j)
<1>1. IntentTypes /\ PermittedKept(i)
    BY DEF PermitInv
<1>2. /\ intents' \in [Intents -> IntentRow] /\ intents'[i] = row
      /\ \A j \in Intents \ {i} : intents'[j] = intents[j]
    BY <1>1 DEF IntentTypes
<1>3. IntentPermits(i)
    BY <1>1, <1>2 DEF IntentPermits, PermittedKept, RequestKept, DecisionKept, SendingKept, Sent,
                      SettlingKept, RowFree, Leased, Worked
<1>4. \A j \in Intents \ {i} : IntentPermits(j)
    BY <1>2, OtherPermits
<1> QED
    BY <1>1, <1>2, <1>3, <1>4 DEF IntentTypes

\* The same for a step that changes neither row nor mandate of any intent.
LEMMA NothingPermits ==
    ASSUME PermitInv, UNCHANGED <<intents, requests, settling, approvals, notices, chain>>
    PROVE  IntentTypes' /\ \A j \in Intents : IntentPermits(j)
<1>1. \A j \in Intents : IntentPermits(j)
    BY OtherPermits
<1> QED
    BY <1>1 DEF PermitInv, IntentTypes

LEMMA SettlePermits ==
    ASSUME PermitInv, NEW i \in Intents, NEW to, NEW code \in Codes, BeginSettle(i, to, code),
           \/ to = "EXPIRED" /\ intents[i].state \in Waiting
           \/ to \in Worked /\ intents[i].state \in {"QUEUED"} \union Leased,
           UNCHANGED <<intents, requests, approvals, notices, chain>>
    PROVE  IntentTypes' /\ \A j \in Intents : IntentPermits(j)
<1>1. IntentTypes /\ PermittedKept(i)
    BY DEF PermitInv
<1>2. /\ DOMAIN settling' = Intents
      /\ settling'[i].to = to /\ settling'[i].code = code
      /\ \A j \in Intents \ {i} : settling'[j] = settling[j]
    BY <1>1 DEF BeginSettle, IntentTypes
<1>3. IntentPermits(i)
    BY <1>1, <1>2 DEF IntentPermits, PermittedKept, RequestKept, DecisionKept, SendingKept, Sent,
                      SettlingKept
<1>4. \A j \in Intents \ {i} : IntentPermits(j)
    BY <1>2, OtherPermits
<1> QED
    BY <1>1, <1>2, <1>3, <1>4 DEF IntentTypes

\* What the administrator's transactions end was not sent, and no transaction was ending it.
LEMMA TerminatePermits ==
    ASSUME PermitInv, NEW among \in SUBSET Intents, NEW from \in SUBSET Pending,
           NEW state \in {"EXPIRED", "CANCELLED", "REJECTED"},
           TerminateInLock(among, from, state),
           UNCHANGED <<requests, settling, approvals, chain>>
    PROVE  IntentTypes' /\ \A j \in Intents : IntentPermits(j)
<1> DEFINE ends == {i \in among : intents[i].state \in from}
<1>1. IntentTypes /\ (\A i \in Intents : PermittedKept(i))
    BY DEF PermitInv
<1>2. /\ \A i \in ends : settling[i] = NoSettle
      /\ intents' = [i \in Intents |-> IF i \in ends
                        THEN [intents[i] EXCEPT !.state = state] ELSE intents[i]]
      /\ notices' = [i \in Intents |-> notices[i] + IF i \in ends THEN 1 ELSE 0]
    BY DEF TerminateInLock, RowFree
<1>3. /\ ends \in SUBSET Intents /\ \A i \in ends : intents[i].state \in Pending
      /\ state \in Terminal \ (Leased \union Worked \union {"none", "DENIED"})
    BY DEF Terminal, Leased, Worked
<1> HIDE DEF ends
<1>4. ASSUME NEW i \in ends
      PROVE  /\ i \in Intents /\ intents'[i] \in IntentRow /\ intents'[i].state = state
             /\ intents'[i].mandate = intents[i].mandate
             /\ intents'[i].decision = intents[i].decision
  <2>1. i \in Intents /\ intents[i] \in IntentRow /\ state \in Terminal
    BY <1>1, <1>3 DEF IntentTypes
  <2>2. intents'[i] = [intents[i] EXCEPT !.state = state]
    BY <1>2, <2>1
  <2> QED
    BY <2>1, <2>2, RowMoved
<1>5. \A i \in Intents \ ends : intents'[i] = intents[i]
    BY <1>1, <1>2 DEF IntentTypes
<1>6. ASSUME NEW i \in ends PROVE IntentPermits(i)
  <2>1. PermittedKept(i) /\ i \in Intents /\ intents[i].state \in Pending
    BY <1>1, <1>3
  <2>2. ~Sent(i)
    BY <2>1 DEF PermittedKept, SendingKept, Pending, Leased, Worked
  <2>3. RequestKept(i)' /\ SettlingKept(i)'
    BY <1>2, <2>1 DEF PermittedKept, RequestKept, SettlingKept, Pending
  <2>4. DecisionKept(i)' /\ SendingKept(i)'
    BY <1>3, <1>4, <2>1, <2>2 DEF PermittedKept, DecisionKept, SendingKept, Sent, Pending
  <2> QED
    BY <2>1, <2>3, <2>4 DEF IntentPermits, PermittedKept, Pending, Leased, Worked
<1>7. \A i \in Intents \ ends : IntentPermits(i)
    BY <1>5, OtherPermits
<1>8. IntentTypes'
  <2>1. \A i \in Intents : intents'[i] \in IntentRow
    BY <1>1, <1>4, <1>5 DEF IntentTypes
  <2>2. intents' = [i \in Intents |-> intents'[i]]
    BY <1>2
  <2>3. intents' \in [Intents -> IntentRow]
    BY <2>1, <2>2
  <2>4. notices' \in [Intents -> Nat]
    BY <1>1, <1>2 DEF IntentTypes
  <2> QED
    BY <1>1, <2>3, <2>4 DEF IntentTypes
<1> QED
    BY <1>6, <1>7, <1>8

\* Agent: what a request read still stands in its transaction, or it is denied.
LEMMA PreparePermits ==
    ASSUME PermitInv, AuthorityInv, NEW i \in Intents, UNCHANGED chain,
           (\E admissible \in BOOLEAN : Prepare(i, admissible)) \/ CommitPrepare(i)
    PROVE  IntentTypes' /\ \A j \in Intents : IntentPermits(j)
<1>1. IntentTypes /\ PermittedKept(i)
    BY DEF PermitInv
<1>2. ASSUME NEW admissible \in BOOLEAN, Prepare(i, admissible)
      PROVE  IntentTypes' /\ \A j \in Intents : IntentPermits(j)
  <2> DEFINE read == [mandate |-> mandate.version,
                      decision |-> evaluatePolicy(Constraints[mandate.version], i, admissible)]
  <2>1. /\ UNCHANGED <<intents, approvals, settling, notices>> /\ intents[i].state = "none"
        /\ requests' = [requests EXCEPT ![i] = read]
    BY <1>2 DEF Prepare
  <2>2. /\ read.mandate \in Nat
        /\ read.decision \in {"DENIED", resolveMandateApproval(Constraints[read.mandate], i)}
    BY DEF AuthorityInv, AuthorityTypes, evaluatePolicy
  <2> HIDE DEF read
  <2>3. /\ DOMAIN requests' = Intents /\ requests'[i] = read
        /\ \A j \in Intents \ {i} : requests'[j] = requests[j]
    BY <1>1, <2>1 DEF IntentTypes
  <2>4. IntentPermits(i)
    BY <1>1, <2>1, <2>2, <2>3 DEF IntentPermits, PermittedKept, RequestKept, DecisionKept,
                                  SendingKept, Sent, SettlingKept
  <2>5. \A j \in Intents \ {i} : IntentPermits(j)
    BY <2>1, <2>3, OtherPermits
  <2> QED
    BY <1>1, <2>1, <2>3, <2>4, <2>5 DEF IntentTypes
<1>3. CASE CommitPrepare(i)
  <2> DEFINE version == requests[i].mandate
             decision == FinalDecision(i)
             row == [NoIntent EXCEPT !.state = StateOf(decision), !.decision = decision,
                                     !.mandate = version, !.live = TRUE]
  <2>1. /\ intents[i].state = "none" /\ version \in Nat
        /\ decision \in {"DENIED", resolveMandateApproval(Constraints[version], i)}
    BY <1>1, <1>3 DEF CommitPrepare, PermittedKept, RequestKept, FinalDecision
  <2>2. decision \in {"DENIED", "HUMAN_REQUIRED", "AUTO_APPROVED"}
    BY <2>1 DEF resolveMandateApproval
  <2>3. settling[i] = NoSettle /\ ~Sent(i)
    BY <1>1, <2>1 DEF PermittedKept, SettlingKept, SendingKept, Waiting, Leased, Worked
  <2>4. /\ UNCHANGED <<approvals, settling>>
        /\ requests' = [requests EXCEPT ![i] = NoRequest]
        /\ \/ UNCHANGED <<intents, notices>>
           \/ /\ intents' = [intents EXCEPT ![i] = row]
              /\ notices' = [notices EXCEPT ![i] = @ + IF decision = "DENIED" THEN 1 ELSE 0]
    BY <1>3 DEF CommitPrepare
  <2>5. /\ row \in IntentRow
        /\ row.state = StateOf(decision) /\ row.decision = decision /\ row.mandate = version
        /\ StateOf(decision) \in {"DENIED", "APPROVAL_REQUIRED", "PREPARED"}
        /\ StateOf(decision) = "DENIED" <=> decision = "DENIED"
    BY <2>1, <2>2 DEF NoIntent, IntentRow, StateOf, ACTIVE_INTENT_STATES, Pending, Terminal, Codes
  <2> HIDE DEF decision, version, row
  <2>6. /\ DOMAIN requests' = Intents /\ requests'[i] = NoRequest
        /\ \A j \in Intents \ {i} : requests'[j] = requests[j]
    BY <1>1, <2>4 DEF IntentTypes
  <2>7. /\ intents' \in [Intents -> IntentRow] /\ intents'[i] \in {intents[i], row}
        /\ notices' \in [Intents -> Nat]
        /\ \A j \in Intents \ {i} : intents'[j] = intents[j]
    BY <1>1, <2>4, <2>5 DEF IntentTypes
  <2>8. RequestKept(i)' /\ SettlingKept(i)' /\ SendingKept(i)'
    BY <2>3, <2>4, <2>6 DEF RequestKept, SettlingKept, SendingKept, Sent
  <2>9. DecisionKept(i)'
    BY <1>1, <2>1, <2>4, <2>5, <2>7 DEF PermittedKept, DecisionKept, Leased, Worked
  <2>10. IntentPermits(i)
    BY <2>1, <2>8, <2>9 DEF IntentPermits, PermittedKept, Leased, Worked
  <2>11. \A j \in Intents \ {i} : IntentPermits(j)
    BY <2>4, <2>6, <2>7, OtherPermits
  <2> QED
    BY <1>1, <2>4, <2>6, <2>7, <2>10, <2>11 DEF IntentTypes
<1> QED
    BY <1>2, <1>3

\* Administrator: an approval, and the way into the queue that needs it.
LEMMA AdvancePermits ==
    ASSUME PermitInv, NEW i \in Intents, NEW row \in IntentRow, RowFree(i),
           intents' = [intents EXCEPT ![i] = row],
           row.mandate = intents[i].mandate, row.decision = intents[i].decision,
           intents[i].state \in Pending, row.state \in {"APPROVED", "QUEUED"},
           row.state = "QUEUED" /\ row.decision = "HUMAN_REQUIRED" => approvals'[i] # "none",
           approvals' \in [Intents -> {"none", "live", "lapsed"}],
           \A j \in Intents \ {i} : approvals'[j] = approvals[j],
           UNCHANGED <<requests, settling, notices, chain>>
    PROVE  IntentTypes' /\ \A j \in Intents : IntentPermits(j)
<1>1. IntentTypes /\ PermittedKept(i)
    BY DEF PermitInv
<1>2. /\ intents' \in [Intents -> IntentRow] /\ intents'[i] = row
      /\ \A j \in Intents \ {i} : intents'[j] = intents[j]
    BY <1>1 DEF IntentTypes
<1>3. RequestKept(i)' /\ SettlingKept(i)'
    BY <1>1, <1>2 DEF PermittedKept, RequestKept, SettlingKept, RowFree, Pending
<1>4. DecisionKept(i)' /\ SendingKept(i)'
    BY <1>1, <1>2 DEF PermittedKept, DecisionKept, SendingKept, Sent, Pending, Leased, Worked
<1>5. IntentPermits(i)
    BY <1>3, <1>4 DEF IntentPermits, PermittedKept, Pending, Leased, Worked
<1>6. \A j \in Intents \ {i} : IntentPermits(j)
    BY <1>2, OtherPermits
<1> QED
    BY <1>1, <1>2, <1>5, <1>6 DEF IntentTypes

\* What was read when the row was taken still stands when the transaction commits.
LEMMA CommitPermits ==
    ASSUME PermitInv, NEW i \in Intents, CommitSettle(i), UNCHANGED chain
    PROVE  IntentTypes' /\ \A j \in Intents : IntentPermits(j)
<1> DEFINE to == settling[i].to
           row == [intents[i] EXCEPT !.state = to, !.code = settling[i].code]
<1>1. IntentTypes /\ PermittedKept(i) /\ intents[i] \in IntentRow
    BY DEF PermitInv, IntentTypes
<1>2. /\ settling[i] # NoSettle
      /\ settling' = [settling EXCEPT ![i] = NoSettle]
      /\ intents' = [intents EXCEPT ![i] = row]
      /\ notices' = [notices EXCEPT ![i] = @ + 1]
      /\ UNCHANGED <<approvals, requests>>
    BY <1>1 DEF CommitSettle, RowFree, IntentTypes
<1>3. /\ \/ to = "EXPIRED" /\ intents[i].state \in Waiting
         \/ to \in Worked /\ intents[i].state \in {"QUEUED"} \union Leased
      /\ settling[i].code \in Codes
    BY <1>1, <1>2 DEF PermittedKept, SettlingKept
<1>4. /\ row \in IntentRow /\ row.state = to
      /\ row.mandate = intents[i].mandate /\ row.decision = intents[i].decision
    BY <1>1, <1>3 DEF IntentRow, Terminal, Worked
<1> HIDE DEF row
<1>5. /\ intents' \in [Intents -> IntentRow] /\ intents'[i] = row
      /\ \A j \in Intents \ {i} : intents'[j] = intents[j]
    BY <1>1, <1>2, <1>4 DEF IntentTypes
<1>6. /\ DOMAIN settling' = Intents /\ settling'[i] = NoSettle
      /\ \A j \in Intents \ {i} : settling'[j] = settling[j]
      /\ notices' \in [Intents -> Nat]
    BY <1>1, <1>2 DEF IntentTypes
<1>7. RequestKept(i)' /\ SettlingKept(i)'
    BY <1>1, <1>2, <1>3, <1>5, <1>6 DEF PermittedKept, RequestKept, SettlingKept, Waiting, Leased
<1>8. DecisionKept(i)'
    BY <1>1, <1>2, <1>3, <1>4, <1>5 DEF PermittedKept, DecisionKept, Waiting, Leased, Worked
<1>9. SendingKept(i)'
  <2>1. Sent(i)' <=> Sent(i)
    BY DEF Sent
  <2> QED
    BY <1>1, <1>3, <1>4, <1>5, <2>1 DEF PermittedKept, SendingKept, Waiting, Leased, Worked
<1>10. IntentPermits(i)
    BY <1>3, <1>4, <1>5, <1>7, <1>8, <1>9
       DEF IntentPermits, PermittedKept, Waiting, Leased, Worked
<1>11. \A j \in Intents \ {i} : IntentPermits(j)
    BY <1>2, <1>5, <1>6, OtherPermits
<1> QED
    BY <1>1, <1>2, <1>5, <1>6, <1>10, <1>11 DEF IntentTypes

LEMMA RollbackPermits ==
    ASSUME PermitInv, NEW i \in Intents, Rollback(i)
    PROVE  IntentTypes' /\ \A j \in Intents : IntentPermits(j)
<1>1. IntentTypes /\ PermittedKept(i)
    BY DEF PermitInv
<1>2. /\ settling' = [settling EXCEPT ![i] = NoSettle]
      /\ UNCHANGED <<intents, approvals, requests, notices, chain>>
    BY DEF Rollback
<1>3. /\ DOMAIN settling' = Intents /\ settling'[i] = NoSettle
      /\ \A j \in Intents \ {i} : settling'[j] = settling[j]
    BY <1>1, <1>2 DEF IntentTypes
<1>4. IntentPermits(i)
    BY <1>1, <1>2, <1>3 DEF IntentPermits, PermittedKept, RequestKept, DecisionKept, SendingKept,
                            Sent, SettlingKept
<1>5. \A j \in Intents \ {i} : IntentPermits(j)
    BY <1>2, <1>3, OtherPermits
<1> QED
    BY <1>1, <1>2, <1>3, <1>4, <1>5 DEF IntentTypes

LEMMA LapsePermits ==
    ASSUME PermitInv, NEW i \in Intents, ApprovalLapses(i), UNCHANGED chain
    PROVE  IntentTypes' /\ \A j \in Intents : IntentPermits(j)
<1>1. IntentTypes /\ PermittedKept(i)
    BY DEF PermitInv
<1>2. /\ approvals' = [approvals EXCEPT ![i] = "lapsed"]
      /\ UNCHANGED <<intents, requests, settling, notices>>
    BY DEF ApprovalLapses
<1>3. /\ approvals' \in [Intents -> {"none", "live", "lapsed"}] /\ approvals'[i] = "lapsed"
      /\ \A j \in Intents \ {i} : approvals'[j] = approvals[j]
    BY <1>1, <1>2 DEF IntentTypes
<1>4. IntentPermits(i)
    BY <1>1, <1>2, <1>3 DEF IntentPermits, PermittedKept, RequestKept, DecisionKept, SendingKept,
                            Sent, SettlingKept
<1>5. \A j \in Intents \ {i} : IntentPermits(j)
    BY <1>2, <1>3, OtherPermits
<1> QED
    BY <1>1, <1>2, <1>3, <1>4, <1>5 DEF IntentTypes

\* A transaction appears for an intent that was queued, or one that there is goes on.
LEMMA ChainPermits ==
    ASSUME PermitInv, NEW i \in Intents, NEW s, NEW tx,
           chain' = [chain EXCEPT ![i][s] = tx],
           intents[i].state \in Leased \union Worked \/ chain[i][s] # "none",
           UNCHANGED <<intents, approvals, requests, settling, notices>>
    PROVE  IntentTypes' /\ \A j \in Intents : IntentPermits(j)
<1>1. IntentTypes /\ PermittedKept(i)
    BY DEF PermitInv
<1>2. /\ DOMAIN chain' = Intents /\ chain'[i] = [chain[i] EXCEPT ![s] = tx]
      /\ \A j \in Intents \ {i} : chain'[j] = chain[j]
    BY <1>1 DEF IntentTypes
<1>3. Sent(i)' => Sent(i) \/ intents[i].state \in Leased \union Worked
    BY <1>2 DEF Sent
<1>4. IntentPermits(i)
    BY <1>1, <1>3 DEF IntentPermits, PermittedKept, RequestKept, DecisionKept, SendingKept,
                      SettlingKept
<1>5. \A j \in Intents \ {i} : IntentPermits(j)
    BY <1>2, OtherPermits
<1> QED
    BY <1>1, <1>2, <1>4, <1>5 DEF IntentTypes

LEMMA AgentPermits ==
    ASSUME PermitInv, AuthorityInv, NEW i \in Intents, Agent(i)
    PROVE  IntentTypes' /\ \A j \in Intents : IntentPermits(j)
<1>1. /\ UNCHANGED chain /\ {i} \in SUBSET Intents
      /\ IntentTypes /\ intents[i] \in IntentRow
    BY DEF Agent, PermitInv, IntentTypes
<1>2. CASE (\E admissible \in BOOLEAN : Prepare(i, admissible)) \/ CommitPrepare(i)
    BY <1>1, <1>2, PreparePermits
<1>3. ASSUME NEW from \in SUBSET Pending, NEW state \in {"EXPIRED", "CANCELLED", "REJECTED"},
             TerminateInLock({i}, from, state), UNCHANGED <<requests, settling, approvals>>
      PROVE  IntentTypes' /\ \A j \in Intents : IntentPermits(j)
    BY <1>1, <1>3, TerminatePermits
<1>4. CASE Reject(i)
  <2>1. /\ TerminateInLock({i}, {"APPROVAL_REQUIRED"}, "REJECTED")
        /\ {"APPROVAL_REQUIRED"} \in SUBSET Pending
        /\ UNCHANGED <<requests, settling, approvals>>
    BY <1>4 DEF Reject, Pending
  <2> QED
    BY <1>3, <2>1
<1>5. CASE Approve(i)
  <2> DEFINE row == [intents[i] EXCEPT !.state = "APPROVED"]
  <2>1. /\ intents' = [intents EXCEPT ![i] = row] /\ RowFree(i)
        /\ approvals' = [approvals EXCEPT ![i] = "live"]
        /\ intents[i].state \in Pending
        /\ UNCHANGED <<requests, settling, notices>>
    BY <1>5 DEF Approve, Pending
  <2>2. /\ row \in IntentRow /\ row.state = "APPROVED"
        /\ row.mandate = intents[i].mandate /\ row.decision = intents[i].decision
    BY <1>1 DEF IntentRow, ACTIVE_INTENT_STATES, Pending
  <2> HIDE DEF row
  <2>3. /\ approvals' \in [Intents -> {"none", "live", "lapsed"}]
        /\ \A j \in Intents \ {i} : approvals'[j] = approvals[j]
    BY <1>1, <2>1 DEF IntentTypes
  <2> QED
    BY <1>1, <2>1, <2>2, <2>3, AdvancePermits
<1>6. CASE Execute(i)
  <2> DEFINE row == [intents[i] EXCEPT !.state = "QUEUED"]
             waiting == {"PREPARED", "APPROVAL_REQUIRED", "APPROVED"}
  <2>1. /\ UNCHANGED <<approvals, requests, settling>>
        /\ \/ \E state \in {"EXPIRED", "CANCELLED"} : TerminateInLock({i}, waiting, state)
           \/ /\ intents' = [intents EXCEPT ![i] = row] /\ RowFree(i) /\ Executable(i)
              /\ intents[i].decision = "HUMAN_REQUIRED" => approvals[i] = "live"
              /\ UNCHANGED notices
    BY <1>6 DEF Execute
  <2>2. /\ row \in IntentRow /\ row.state = "QUEUED"
        /\ row.mandate = intents[i].mandate /\ row.decision = intents[i].decision
    BY <1>1 DEF IntentRow, ACTIVE_INTENT_STATES, Pending
  <2>3. waiting \in SUBSET Pending /\ (Executable(i) => intents[i].state \in Pending)
    BY DEF Pending, Executable
  <2> HIDE DEF row, waiting
  <2>4. CASE \E state \in {"EXPIRED", "CANCELLED"} : TerminateInLock({i}, waiting, state)
    BY <1>3, <2>1, <2>3, <2>4
  <2>5. CASE /\ intents' = [intents EXCEPT ![i] = row] /\ RowFree(i) /\ Executable(i)
             /\ intents[i].decision = "HUMAN_REQUIRED" => approvals[i] = "live"
             /\ UNCHANGED notices
    <3>1. /\ approvals' \in [Intents -> {"none", "live", "lapsed"}]
          /\ row.decision = "HUMAN_REQUIRED" => approvals'[i] = "live"
        BY <1>1, <2>1, <2>2, <2>5 DEF IntentTypes
    <3> QED
        BY <1>1, <2>1, <2>2, <2>3, <2>5, <3>1, AdvancePermits
  <2> QED
    BY <2>1, <2>4, <2>5
<1>7. CASE ExpirePrepared(i)
  <2>1. /\ BeginSettle(i, "EXPIRED", "none") /\ intents[i].state \in Waiting
        /\ UNCHANGED <<intents, requests, approvals, notices>>
    BY <1>7 DEF ExpirePrepared, Expirable, Waiting
  <2> QED
    BY <1>1, <2>1, SettlePermits DEF Codes
<1>8. CASE CommitSettle(i)
    BY <1>1, <1>8, CommitPermits
<1> QED
    BY <1>2, <1>4, <1>5, <1>6, <1>7, <1>8 DEF Agent

LEMMA AdministrationPermits ==
    ASSUME PermitInv, Institution \/ Withdrawals
    PROVE  IntentTypes' /\ \A j \in Intents : IntentPermits(j)
<1>1. UNCHANGED chain /\ Pending \in SUBSET Pending /\ Intents \in SUBSET Intents /\ IntentTypes
    BY DEF Institution, Withdrawals, PermitInv
<1>2. ASSUME NEW among \in SUBSET Intents, TerminateInLock(among, Pending, "CANCELLED"),
             UNCHANGED <<requests, settling, approvals>>
      PROVE  IntentTypes' /\ \A j \in Intents : IntentPermits(j)
    BY <1>1, <1>2, TerminatePermits
<1>3. CASE CreateMandate
  <2> DEFINE among == {i \in Intents : intents[i].mandate # mandate'.version}
  <2>1. /\ TerminateInLock(among, Pending, "CANCELLED") /\ among \in SUBSET Intents
        /\ UNCHANGED <<approvals, requests, settling>>
    BY <1>3 DEF CreateMandate
  <2> HIDE DEF among
  <2> QED
    BY <1>2, <2>1
<1>4. ASSUME NEW status, ChangeStatus(status)
      PROVE  IntentTypes' /\ \A j \in Intents : IntentPermits(j)
  <2>1. /\ UNCHANGED <<approvals, requests, settling>>
        /\ UNCHANGED <<intents, notices>> \/ TerminateInLock(Intents, Pending, "CANCELLED")
    BY <1>4 DEF ChangeStatus
  <2> QED
    BY <1>1, <1>2, <2>1, NothingPermits
<1>5. CASE UNCHANGED intentVars
    BY <1>1, <1>5, NothingPermits DEF intentVars
<1>6. ASSUME NEW i \in Intents, IntentExpires(i)
      PROVE  IntentTypes' /\ \A j \in Intents : IntentPermits(j)
  <2> DEFINE row == [intents[i] EXCEPT !.live = FALSE]
  <2>1. /\ intents' = [intents EXCEPT ![i] = row]
        /\ UNCHANGED <<approvals, requests, settling, notices>>
    BY <1>6 DEF IntentExpires
  <2>2. /\ row \in IntentRow /\ row.state = intents[i].state
        /\ row.mandate = intents[i].mandate /\ row.decision = intents[i].decision
    BY <1>1 DEF IntentRow, IntentTypes
  <2> HIDE DEF row
  <2> QED
    BY <1>1, <2>1, <2>2, RowPermits
<1>7. CASE \E i \in Intents : ApprovalLapses(i)
    BY <1>1, <1>7, LapsePermits
<1> QED
    BY <1>3, <1>4, <1>5, <1>6, <1>7 DEF Institution, Withdrawals, Onboard, Withdraw

LEMMA WorkPermits ==
    ASSUME PermitInv, NEW w \in Workers, Work(w) \/ Abandon(w)
    PROVE  IntentTypes' /\ \A j \in Intents : IntentPermits(j)
<1> DEFINE i == worker[w].intent
<1>1. IntentTypes /\ WorkerTypes
    BY DEF PermitInv
<1>2. worker[w].pc # "idle" =>
          /\ i \in Intents /\ intents[i] \in IntentRow
          /\ intents[i].state \in Leased \union Worked
    BY DEF PermitInv, WorkerOn, IntentTypes
<1>3. CASE \E j \in Intents : Lease(w, j)
  <2>1. PICK j \in Intents : Lease(w, j)
    BY <1>3
  <2> DEFINE row == [Renewed(intents[j], LeasedState(j)) EXCEPT !.by = w]
  <2>2. /\ intents[j].state \in {"QUEUED"} \union Leased /\ RowFree(j) /\ intents[j] \in IntentRow
        /\ UNCHANGED <<approvals, requests, notices, chain>>
    BY <1>1, <2>1 DEF Lease, Oldest, Leasable, IntentTypes
  <2>3. CASE BeginSettle(j, FailedState(j), LeaseCode(j)) /\ UNCHANGED intents
    <3>1. FailedState(j) \in Worked /\ LeaseCode(j) \in Codes
        BY DEF FailedState, LeaseCode, Worked, Codes
    <3> QED
        BY <2>2, <2>3, <3>1, SettlePermits
  <2>4. CASE intents' = [intents EXCEPT ![j] = row] /\ UNCHANGED settling
    <3>1. LeasedState(j) \in Leased
        BY DEF LeasedState, Leased
    <3>2. /\ row \in IntentRow /\ row.state \in Leased
          /\ row.mandate = intents[j].mandate /\ row.decision = intents[j].decision
        BY <2>2, <3>1 DEF Renewed, IntentRow, ACTIVE_INTENT_STATES
    <3> HIDE DEF row
    <3> QED
        BY <2>2, <2>4, <3>2, RowPermits
  <2> QED
    BY <2>1, <2>3, <2>4 DEF Lease
<1>4. CASE \E preflight \in Preflights : Refresh(w, preflight)
  <2> DEFINE row == [intents[i] EXCEPT !.lease = "fresh"]
  <2>1. /\ worker[w].pc # "idle" /\ UNCHANGED <<approvals, requests, notices, chain>>
        /\ \/ UNCHANGED <<intents, settling>>
           \/ /\ BeginSettle(i, FailedState(i), "REFUSED") /\ UNCHANGED intents
              /\ intents[i].state = "SIGNING"
           \/ intents' = [intents EXCEPT ![i] = row] /\ UNCHANGED settling
    BY <1>4 DEF Refresh, At, Owns
  <2>2. FailedState(i) \in Worked /\ "REFUSED" \in Codes /\ "SIGNING" \in Leased
    BY DEF FailedState, Worked, Codes, Leased
  <2>3. /\ row \in IntentRow /\ row.state = intents[i].state
        /\ row.mandate = intents[i].mandate /\ row.decision = intents[i].decision
    BY <1>2, <2>1 DEF IntentRow
  <2> HIDE DEF row, i
  <2> QED
    BY <1>2, <2>1, <2>2, <2>3, NothingPermits, SettlePermits, RowPermits
<1>5. CASE ReportIntentRow(w)
  <2> DEFINE state == CASE worker[w].pc = "sign" -> "SIGNING"
                        [] worker[w].pc = "submit" -> "SUBMITTED"
                        [] worker[w].pc = "confirm" ->
                              IF Unconfirmed(i) = {} THEN "CONFIRMED" ELSE "SIGNING"
             row == Renewed(intents[i], state)
  <2>1. /\ worker[w].pc \in {"sign", "submit", "confirm", "fail"} /\ worker[w].pc # "idle"
        /\ RowFree(i) /\ UNCHANGED <<approvals, requests, notices, chain>>
    BY <1>1, <1>5 DEF ReportIntentRow, WorkerTypes, WorkerShape
  <2>2. CASE worker[w].pc = "fail"
    <3>1. /\ UNCHANGED intents
          /\ \/ UNCHANGED settling
             \/ /\ BeginSettle(i, FailedState(i), "REFUSED")
                /\ intents[i].state \in ACTIVE_INTENT_STATES
        BY <1>5, <2>2 DEF ReportIntentRow
    <3>2. /\ FailedState(i) \in Worked /\ "REFUSED" \in Codes
          /\ intents[i].state \in ACTIVE_INTENT_STATES => intents[i].state \in Leased
        BY <1>2, <2>1 DEF FailedState, Worked, Codes, ACTIVE_INTENT_STATES, Pending, Leased
    <3> HIDE DEF i
    <3> QED
        BY <1>2, <2>1, <3>1, <3>2, NothingPermits, SettlePermits
  <2>3. CASE worker[w].pc # "fail"
    <3>1. intents' = [intents EXCEPT ![i] = Renewed(@, state)] /\ UNCHANGED settling
        BY <1>5, <2>3 DEF ReportIntentRow
    <3>2. state \in Leased
        BY <2>1, <2>3 DEF Leased
    <3> HIDE DEF state
    <3>3. /\ intents' = [intents EXCEPT ![i] = row]
          /\ row \in IntentRow /\ row.state \in Leased
          /\ row.mandate = intents[i].mandate /\ row.decision = intents[i].decision
        BY <1>2, <2>1, <3>1, <3>2 DEF Renewed, IntentRow, ACTIVE_INTENT_STATES
    <3> HIDE DEF row, i
    <3> QED
        BY <1>2, <2>1, <3>1, <3>3, RowPermits
  <2> QED
    BY <2>2, <2>3
<1>6. CASE Send(w)
  <2> DEFINE s == worker[w].step
             tx == IF chain[i][s] = "none" THEN "pending" ELSE chain[i][s]
  <2>1. /\ worker[w].pc # "idle" /\ chain' = [chain EXCEPT ![i][s] = tx]
        /\ UNCHANGED <<intents, approvals, requests, settling, notices>>
    BY <1>6 DEF Send, At, intentVars
  <2> HIDE DEF tx, s, i
  <2> QED
    BY <1>2, <2>1, ChainPermits
<1>7. CASE Complete(w)
  <2> DEFINE row == Renewed(intents[i], "INDEXING")
  <2>1. /\ worker[w].pc # "idle" /\ RowFree(i) /\ UNCHANGED <<approvals, requests, notices, chain>>
        /\ \/ UNCHANGED <<intents, settling>>
           \/ /\ BeginSettle(i, "COMPLETED", "none") /\ UNCHANGED intents
              /\ intents[i].state \in {"CONFIRMED", "INDEXING"}
           \/ intents' = [intents EXCEPT ![i] = row] /\ UNCHANGED settling
    BY <1>7 DEF Complete, At, Owns
  <2>2. /\ "COMPLETED" \in Worked /\ "none" \in Codes
        /\ intents[i].state \in {"CONFIRMED", "INDEXING"} => intents[i].state \in Leased
    BY DEF Worked, Codes, Leased
  <2>3. /\ row \in IntentRow /\ row.state \in Leased
        /\ row.mandate = intents[i].mandate /\ row.decision = intents[i].decision
    BY <1>2, <2>1 DEF Renewed, IntentRow, ACTIVE_INTENT_STATES, Leased
  <2> HIDE DEF row, i
  <2> QED
    BY <1>2, <2>1, <2>2, <2>3, NothingPermits, SettlePermits, RowPermits
<1>8. CASE ReportStepRow(w) \/ SendRefused(w) \/ Receipt(w) \/ IndexTimeout(w) \/ Abandon(w)
    BY <1>8, NothingPermits
       DEF ReportStepRow, SendRefused, Receipt, IndexTimeout, Abandon, intentVars
<1> QED
    BY <1>3, <1>4, <1>5, <1>6, <1>7, <1>8 DEF Work

\* How a worker may move: on at its intent, away from it, or to one that it has leased; and
\* between the check and Privy only with the authority of the intent.
WorkerPermits(v) ==
    /\ WorkerShape(worker'[v])
    /\ \/ worker'[v].pc = "idle"
       \/ worker[v].pc # "idle" /\ worker'[v].intent = worker[v].intent
       \/ worker'[v].intent \in Intents /\ intents'[worker'[v].intent].state \in Leased
    /\ worker'[v].pc \in {"sign", "send"} =>
          /\ worker'[v].intent = worker[v].intent
          /\ worker[v].pc \in {"sign", "send"} \/ Authorised(worker[v].intent)

LEMMA SameWorkerPermits ==
    ASSUME WorkerTypes, NEW v \in Workers, worker'[v] = worker[v]
    PROVE  WorkerPermits(v)
BY DEF WorkerTypes, WorkerPermits, WorkerShape

LEMMA IdleWorkerPermits ==
    ASSUME NEW v \in Workers, worker'[v] = Idle
    PROVE  WorkerPermits(v)
BY DEF WorkerPermits, WorkerShape, Idle

LEMMA WorkMoves ==
    ASSUME PermitInv, NEW w \in Workers, Work(w) \/ Abandon(w)
    PROVE  DOMAIN worker' = Workers /\ \A v \in Workers : WorkerPermits(v)
<1>1. WorkerTypes /\ IntentTypes
    BY DEF PermitInv
<1>2. ASSUME Leave(w)
      PROVE  DOMAIN worker' = Workers /\ \A v \in Workers : WorkerPermits(v)
  <2>1. /\ DOMAIN worker' = Workers /\ worker'[w] = Idle
        /\ \A v \in Workers \ {w} : worker'[v] = worker[v]
    BY <1>1, <1>2 DEF Leave, WorkerTypes
  <2> QED
    BY <1>1, <2>1, SameWorkerPermits, IdleWorkerPermits
<1>3. ASSUME NEW pc \in Holding \union {"fail"}, GoTo(w, pc), worker[w].pc # "idle", ~worker[w].half,
             pc # "send", pc = "sign" => Authorised(worker[w].intent)
      PROVE  DOMAIN worker' = Workers /\ \A v \in Workers : WorkerPermits(v)
  <2>1. /\ DOMAIN worker' = Workers /\ \A v \in Workers : WorkerShape(worker'[v])
        /\ worker'[w].pc = pc /\ worker'[w].intent = worker[w].intent
        /\ \A v \in Workers \ {w} : worker'[v] = worker[v]
    BY <1>1, <1>3, GoToFields
  <2>2. WorkerPermits(w)
    BY <1>3, <2>1 DEF WorkerPermits
  <2> QED
    BY <1>1, <2>1, <2>2, SameWorkerPermits
<1>4. ASSUME NEW row, worker' = [worker EXCEPT ![w] = row], WorkerShape(row),
             \/ row.intent = worker[w].intent /\ worker[w].pc # "idle"
             \/ row.intent \in Intents /\ intents'[row.intent].state \in Leased,
             row.pc \in {"sign", "send"} =>
                 row.intent = worker[w].intent /\ worker[w].pc \in {"sign", "send"}
      PROVE  DOMAIN worker' = Workers /\ \A v \in Workers : WorkerPermits(v)
  <2>1. /\ DOMAIN worker' = Workers /\ worker'[w] = row
        /\ \A v \in Workers \ {w} : worker'[v] = worker[v]
    BY <1>1, <1>4 DEF WorkerTypes
  <2>2. WorkerPermits(w)
    BY <1>4, <2>1 DEF WorkerPermits
  <2> QED
    BY <1>1, <2>1, <2>2, SameWorkerPermits
<1>5. ASSUME NEW i \in Intents, Lease(w, i)
      PROVE  DOMAIN worker' = Workers /\ \A v \in Workers : WorkerPermits(v)
  <2>1. CASE UNCHANGED worker
    BY <1>1, <2>1, SameWorkerPermits DEF WorkerTypes
  <2>2. CASE /\ intents' = [intents EXCEPT ![i] =
                     [Renewed(@, LeasedState(i)) EXCEPT !.by = w]]
             /\ worker' = [worker EXCEPT ![w] = Entry(i)]
    <3>1. intents'[i].state = LeasedState(i) /\ LeasedState(i) \in Leased
        BY <1>1, <2>2 DEF Renewed, LeasedState, Leased, IntentTypes, IntentRow
    <3>2. /\ WorkerShape(Entry(i)) /\ Entry(i).intent = i
          /\ Entry(i).pc \notin {"sign", "send"}
        BY EntryFields
    <3> QED
        BY <1>4, <2>2, <3>1, <3>2
  <2> QED
    BY <1>5, <2>1, <2>2 DEF Lease
<1>6. ASSUME NEW preflight, Refresh(w, preflight)
      PROVE  DOMAIN worker' = Workers /\ \A v \in Workers : WorkerPermits(v)
  <2>1. worker[w].pc # "idle" /\ ~worker[w].half /\ {"fail", "sign"} \subseteq Holding \union {"fail"}
    BY <1>6 DEF Refresh, At, Holding
  <2>2. GoTo(w, "fail") \/ (GoTo(w, "sign") /\ Authorised(worker[w].intent))
    BY <1>6 DEF Refresh, RefreshRefused, Authorised
  <2> QED
    BY <1>3, <2>1, <2>2
<1>7. CASE ReportStepRow(w)
  <2>0. PICK row : row = [worker[w] EXCEPT !.half = TRUE]
    OBVIOUS
  <2>1. /\ worker[w].pc \in {"sign", "submit", "confirm", "fail"} /\ worker[w].pc # "idle"
        /\ ~worker[w].half
        /\ \/ worker' = [worker EXCEPT ![w] = row]
           \/ worker[w].pc = "confirm" /\ worker' = [worker EXCEPT ![w] = Onward(w)]
           \/ worker[w].pc = "sign" /\ GoTo(w, "fail")
           \/ Leave(w)
    BY <1>7, <2>0 DEF ReportStepRow, Reported
  <2>2. WorkerShape(row) /\ row.pc = worker[w].pc /\ row.intent = worker[w].intent
    <3>1. WorkerShape(worker[w])
        BY <1>1 DEF WorkerTypes
    <3> QED
        BY <2>0, <2>1, <3>1 DEF WorkerShape
  <2>3. worker[w].pc = "confirm" =>
            /\ WorkerShape(Onward(w)) /\ Onward(w).intent = worker[w].intent
            /\ Onward(w).pc \notin {"sign", "send"}
    <3>1. worker[w].pc = "confirm" => Onward(w).pc \in {"refresh", "complete"}
        BY <1>1 DEF Onward, WorkerTypes, WorkerShape
    <3> QED
        BY <1>1, <3>1, OnwardFields
  <2> QED
    BY <1>2, <1>3, <1>4, <2>1, <2>2, <2>3 DEF Holding
<1>8. CASE ReportIntentRow(w)
  <2>1. /\ worker[w].pc \in {"sign", "submit", "confirm", "fail"} /\ worker[w].pc # "idle"
        /\ \/ Leave(w)
           \/ worker[w].pc # "fail" /\ worker' = [worker EXCEPT ![w] = Onward(w)]
    BY <1>1, <1>8 DEF ReportIntentRow, WorkerTypes, WorkerShape
  <2>2. worker[w].pc \in {"submit", "confirm"} =>
            Onward(w).pc \in {"receipt", "refresh", "complete"}
    BY <1>1 DEF Onward, WorkerTypes, WorkerShape
  <2>3. worker[w].pc # "fail" =>
            WorkerShape(Onward(w)) /\ Onward(w).intent = worker[w].intent
    BY <1>1, <2>1, OnwardFields
  <2> QED
    BY <1>2, <1>4, <2>1, <2>2, <2>3
<1>9. CASE Send(w) \/ SendRefused(w) \/ Receipt(w)
  <2>1. /\ worker[w].pc # "idle" /\ ~worker[w].half
        /\ \/ Leave(w)
           \/ \E pc \in {"submit", "fail", "confirm"} : GoTo(w, pc)
    BY <1>9 DEF Send, SendRefused, Receipt, At
  <2> QED
    BY <1>2, <1>3, <2>1 DEF Holding
<1>10. CASE Complete(w) \/ IndexTimeout(w) \/ Abandon(w)
  <2>1. Leave(w) \/ UNCHANGED worker
    BY <1>10 DEF Complete, IndexTimeout, Abandon
  <2> QED
    BY <1>1, <1>2, <2>1, SameWorkerPermits DEF WorkerTypes
<1> QED
    BY <1>5, <1>6, <1>7, <1>8, <1>9, <1>10 DEF Work

LEMMA StepPermits ==
    ASSUME PermitInv, AuthorityInv, [Next]_vars
    PROVE  /\ IntentTypes' /\ \A i \in Intents : IntentPermits(i)
           /\ DOMAIN worker' = Workers /\ \A v \in Workers : WorkerPermits(v)
<1>1. ASSUME UNCHANGED worker
      PROVE  DOMAIN worker' = Workers /\ \A v \in Workers : WorkerPermits(v)
    BY <1>1, SameWorkerPermits DEF PermitInv, WorkerTypes
<1>2. CASE UNCHANGED vars
    BY <1>1, <1>2, NothingPermits DEF vars, intentVars
<1>3. CASE Institution \/ Withdrawals
    BY <1>1, <1>3, AdministrationPermits DEF Institution, Withdrawals
<1>4. CASE \E i \in Intents : Agent(i)
    BY <1>1, <1>4, AgentPermits DEF Agent
<1>5. ASSUME NEW i \in Intents, LeaseExpires(i)
      PROVE  IntentTypes' /\ \A j \in Intents : IntentPermits(j)
  <2> DEFINE row == [intents[i] EXCEPT !.lease = "stale"]
  <2>1. /\ intents' = [intents EXCEPT ![i] = row]
        /\ UNCHANGED <<approvals, requests, settling, notices, chain>>
    BY <1>5 DEF LeaseExpires
  <2>2. /\ row \in IntentRow /\ row.state = intents[i].state
        /\ row.mandate = intents[i].mandate /\ row.decision = intents[i].decision
    BY DEF PermitInv, IntentTypes, IntentRow
  <2> HIDE DEF row
  <2> QED
    BY <2>1, <2>2, RowPermits
<1>6. CASE \E i \in Intents : LeaseExpires(i)
    BY <1>1, <1>5, <1>6 DEF LeaseExpires
<1>7. ASSUME NEW i \in Intents, Rollback(i)
      PROVE  DOMAIN worker' = Workers /\ \A v \in Workers : WorkerPermits(v)
  <2>1. worker' = [w \in Workers |->
            IF worker[w].intent = i /\ worker[w].pc = "fail" THEN Idle ELSE worker[w]]
    BY <1>7 DEF Rollback
  <2>2. \A w \in Workers : worker'[w] = worker[w] \/ worker'[w] = Idle
    BY <2>1
  <2> QED
    BY <2>1, <2>2, SameWorkerPermits, IdleWorkerPermits DEF PermitInv
<1>8. CASE \E i \in Intents : Rollback(i)
    BY <1>7, <1>8, RollbackPermits
<1>9. CASE \E w \in Workers : Work(w) \/ Abandon(w)
    BY <1>9, WorkPermits, WorkMoves
<1>10. ASSUME NEW i \in Intents, IndexFinal(i) \/ \E s \in IntentSteps(i) : Mine(i, s)
       PROVE  IntentTypes' /\ (\A j \in Intents : IntentPermits(j)) /\ UNCHANGED worker
  <2>1. UNCHANGED <<intents, approvals, requests, settling, notices, worker>>
    BY <1>10 DEF IndexFinal, Mine, intentVars
  <2>2. \E s, tx : chain[i][s] # "none" /\ chain' = [chain EXCEPT ![i][s] = tx]
    <3>1. CASE IndexFinal(i)
        BY <3>1 DEF IndexFinal
    <3>2. CASE \E s \in IntentSteps(i) : Mine(i, s)
        BY <3>2 DEF Mine
    <3> QED
        BY <1>10, <3>1, <3>2
  <2> QED
    BY <2>1, <2>2, ChainPermits
<1> QED
    BY <1>1, <1>2, <1>3, <1>4, <1>6, <1>8, <1>9, <1>10 DEF Next

LEMMA PermitInitial == Init => PermitInv
<1> SUFFICES ASSUME Init PROVE PermitInv
    OBVIOUS
<1>1. IntentTypes
    BY DEF Init, IntentsInit, IntentTypes, IntentRow, NoIntent, Codes
<1>2. \A i \in Intents : ~Sent(i)
    BY DEF Init, Sent
<1>3. \A i \in Intents : PermittedKept(i)
    BY <1>2 DEF Init, IntentsInit, PermittedKept, RequestKept, DecisionKept, SendingKept,
                SettlingKept, NoIntent, Leased, Worked
<1>4. WorkerTypes /\ \A w \in Workers : WorkerOn(w)
    BY DEF Init, WorkerTypes, WorkerShape, WorkerOn, Idle
<1> QED
    BY <1>1, <1>3, <1>4 DEF PermitInv

LEMMA PermitStep ==
    ASSUME PermitInv, AuthorityInv, [Next]_vars
    PROVE  PermitInv'
<1>1. /\ IntentTypes' /\ \A i \in Intents : IntentPermits(i)
      /\ DOMAIN worker' = Workers /\ \A v \in Workers : WorkerPermits(v)
    BY StepPermits
<1>2. \A i \in Intents : PermittedKept(i)'
    BY <1>1 DEF IntentPermits
<1>3. WorkerTypes'
    BY <1>1 DEF WorkerTypes, WorkerPermits
<1>4. ASSUME NEW w \in Workers, worker'[w].pc # "idle"
      PROVE  /\ worker'[w].intent \in Intents
             /\ intents'[worker'[w].intent].state \in Leased \union Worked
  <2>1. CASE worker[w].pc # "idle" /\ worker'[w].intent = worker[w].intent
    BY <1>1, <2>1 DEF PermitInv, WorkerOn, IntentPermits
  <2>2. CASE worker'[w].intent \in Intents /\ intents'[worker'[w].intent].state \in Leased
    BY <2>2
  <2> QED
    BY <1>1, <1>4, <2>1, <2>2 DEF WorkerPermits
<1>5. \A w \in Workers : WorkerOn(w)'
    BY <1>4 DEF WorkerOn
<1> QED
    BY <1>1, <1>2, <1>3, <1>5 DEF PermitInv

LEMMA PermitSuffices ==
    ASSUME PermitInv
    PROVE  WithdrawnIsNeverSent /\ SupervisedIsApproved
<1>1. \A i \in Intents : PermittedKept(i)
    BY DEF PermitInv
<1>2. WithdrawnIsNeverSent
    BY <1>1 DEF WithdrawnIsNeverSent, PermittedKept, SendingKept, Leased, Worked
<1>3. SUFFICES ASSUME NEW i \in Intents, Sent(i),
                      NeedsApproval(Constraints[intents[i].mandate], i)
               PROVE  approvals[i] # "none"
    BY <1>2 DEF SupervisedIsApproved
<1>4. intents[i].state \in Leased \union Worked
    BY <1>1, <1>3 DEF PermittedKept, SendingKept
<1>5. intents[i].decision = "HUMAN_REQUIRED"
    BY <1>1, <1>3, <1>4 DEF PermittedKept, DecisionKept, resolveMandateApproval, Leased, Worked
<1> QED
    BY <1>1, <1>4, <1>5 DEF PermittedKept, DecisionKept

\* Only a worker that was between check and Privy makes a transaction, and leaves that place.
LEMMA SenderLeaves ==
    ASSUME PermitInv, AuthorityInv, [Next]_vars, NEW i \in Intents, NewlySent(i)
    PROVE  Signers(i) \ Signers(i)' # {}
<1>1. PICK s \in DOMAIN chain[i] : chain[i][s] = "none" /\ chain'[i][s] # "none"
    BY DEF NewlySent
<1>2. /\ DOMAIN chain = Intents /\ WorkerTypes
    BY DEF PermitInv, IntentTypes
<1>3. PICK w \in Workers : Send(w)
  <2>1. ASSUME UNCHANGED chain PROVE FALSE
    BY <1>1, <2>1
  <2>2. CASE UNCHANGED vars \/ Institution \/ Withdrawals
    BY <2>1, <2>2 DEF vars, Institution, Withdrawals
  <2>3. CASE \E j \in Intents : Agent(j) \/ LeaseExpires(j) \/ Rollback(j)
    BY <2>1, <2>3 DEF Agent, LeaseExpires, Rollback
  <2>4. ASSUME NEW v \in Workers, Work(v) \/ Abandon(v) PROVE Send(v)
    BY <2>1, <2>4 DEF Work, Abandon, Lease, Refresh, ReportStepRow, ReportIntentRow, SendRefused,
                      Receipt, Complete, IndexTimeout
  <2>5. ASSUME NEW j \in Intents, NEW t, NEW tx,
               chain[j][t] # "none" /\ chain' = [chain EXCEPT ![j][t] = tx]
        PROVE  FALSE
    BY <1>1, <1>2, <2>5
  <2>6. ASSUME NEW j \in Intents, IndexFinal(j) \/ \E t \in IntentSteps(j) : Mine(j, t)
        PROVE  FALSE
    <3>1. \E t, tx : chain[j][t] # "none" /\ chain' = [chain EXCEPT ![j][t] = tx]
      <4>1. CASE IndexFinal(j)
        BY <4>1 DEF IndexFinal
      <4>2. CASE \E t \in IntentSteps(j) : Mine(j, t)
        BY <4>2 DEF Mine
      <4> QED
        BY <2>6, <4>1, <4>2
    <3> QED
        BY <2>5, <3>1
  <2>7. CASE \E v \in Workers : Work(v) \/ Abandon(v)
    BY <2>4, <2>7
  <2> QED
    BY <2>2, <2>3, <2>6, <2>7 DEF Next
<1>4. /\ worker[w].pc = "send" /\ ~worker[w].half /\ GoTo(w, "submit")
      /\ chain' = [chain EXCEPT ![worker[w].intent][worker[w].step] =
                       IF @ = "none" THEN "pending" ELSE @]
    BY <1>3 DEF Send, At
<1>5. worker[w].intent = i
    BY <1>1, <1>2, <1>4
<1>6. worker'[w].pc = "submit"
    BY <1>2, <1>4, GoToFields DEF Holding
<1> QED
    BY <1>4, <1>5, <1>6 DEF Signers

LEMMA PermitInvariance == Spec => [](AuthorityInv /\ PermitInv)
<1>1. Init => AuthorityInv /\ PermitInv
    BY AuthorityInitial, PermitInitial
<1>2. AuthorityInv /\ PermitInv /\ [Next]_vars => AuthorityInv' /\ PermitInv'
    BY AuthorityStep, PermitStep
<1> QED
    BY <1>1, <1>2, PTL DEF Spec

(* Nobody signs a step without the authority of agent, mandate, proof and   *)
(* intent at its last check (refreshIntent): after a withdrawal no worker   *)
(* gets past it, and each that did before makes at most one call, even if   *)
(* workers outlive their leases.  What was withdrawn before a lease, or     *)
(* waits for an approval, is never sent.                                    *)
THEOREM OnlyTheCheckedIsSent == Spec => OnlyPermittedIsSent
<1>1. AuthorityInv /\ PermitInv => WithdrawnIsNeverSent /\ SupervisedIsApproved
    BY PermitSuffices
<1>2. ASSUME AuthorityInv, PermitInv, [Next]_vars, NEW i \in Intents
      PROVE  /\ ~Authorised(i) => Signers(i)' \subseteq Signers(i)
             /\ NewlySent(i) => Signers(i) \ Signers(i)' # {}
  <2>1. ASSUME ~Authorised(i), NEW w \in Signers(i)' PROVE w \in Signers(i)
    <3>1. w \in Workers /\ worker'[w].intent = i /\ worker'[w].pc \in {"sign", "send"}
        BY <2>1 DEF Signers
    <3>2. WorkerPermits(w)
        BY <1>2, <3>1, StepPermits
    <3> QED
        BY <2>1, <3>1, <3>2 DEF WorkerPermits, Signers
  <2>2. ~Authorised(i) => Signers(i)' \subseteq Signers(i)
    BY <2>1
  <2> QED
    BY <1>2, <2>2, SenderLeaves
<1>3. AuthorityInv /\ PermitInv /\ [Next]_vars =>
        [\A i \in Intents :
            /\ ~Authorised(i) => Signers(i)' \subseteq Signers(i)
            /\ NewlySent(i) => Signers(i) \ Signers(i)' # {}]_vars
    BY <1>2
<1> QED
    BY <1>1, <1>3, PermitInvariance, PTL
       DEF Spec, OnlyPermittedIsSent, WithdrawalStopsAtTheCheck

=============================================================================
