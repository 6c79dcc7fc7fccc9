----------------------- MODULE AgentExecutorProperties -----------------------
(***************************************************************************)
(* What the agent platform promises (docs/AGENT_PLATFORM.md).              *)
(***************************************************************************)
EXTENDS AgentExecutor

Sent(i) == \E s \in DOMAIN chain[i] : chain[i][s] # "none"

\* Between the last check of its authority (refreshIntent) and the call to Privy.
Signers(i) == {w \in Workers : worker[w].intent = i /\ worker[w].pc \in {"sign", "send"}}

\* What that check asks of agent, proof, mandate and intent.
Authorised(i) ==
    /\ intents[i].live
    /\ agent.status = "ACTIVE" /\ CviActive
    /\ IntentMandateInForce(intents[i].mandate)

\* A call to Privy that makes a new transaction for a step of the intent.
NewlySent(i) == \E s \in DOMAIN chain[i] : chain[i][s] = "none" /\ chain'[i][s] # "none"

\* An intent that was denied or rejected, or that a pause, a revocation, a new mandate or
\* its expiry ended, never reached Privy.  That ends only what no executor has leased.
WithdrawnIsNeverSent ==
    \A i \in Intents :
        intents[i].state \in {"DENIED", "REJECTED", "CANCELLED", "EXPIRED"} => ~Sent(i)

\* Under a supervised mandate nothing that is risky or above the amount it lets run alone
\* reaches Privy before the administrator has approved exactly this intent.
SupervisedIsApproved ==
    \A i \in Intents :
        Sent(i) /\ NeedsApproval(Constraints[intents[i].mandate], i) => approvals[i] # "none"

\* A pause or a revocation stands against a compliance check that was on its way when it was
\* made, and a revoked agent is never given access again.
WithdrawalStands ==
    [][/\ agent.status \in {"PAUSED", "REVOKED"} /\ check' # check => agent'.status = agent.status
       /\ agent.status = "REVOKED" => agent'.status = "REVOKED" /\ credential' # "active"]_vars

\* An intent ends once: whichever of administrator, expiry, executor and index tries to
\* end it, one event tells so, its reservation is moved once, and a terminal intent rests.
EndsOnce ==
    \A i \in Intents : notices[i] = IF intents[i].state \in Terminal THEN 1 ELSE 0

\* One active lease per agent wallet: no two workers are between the signing marker and
\* the record of the hash for the same wallet, through crashes, lost answers and leases
\* that run out.
OneSignerPerWallet ==
    \A v, w \in Workers :
        /\ worker[v].pc \in {"sign", "send", "submit"}
        /\ worker[w].pc \in {"sign", "send", "submit"}
        => v = w

\* What holds as long as no worker outlives its lease: a wallet has one signer, and an
\* intent one end, whoever of executor, administrator, expiry and index works on it.
LeaseIsExclusive == OneSignerPerWallet /\ EndsOnce

\* While its intent has expired, or the agent, its proof or the exact mandate is not in
\* force, no worker gets past the check before a step, and one that got past it before
\* makes at most the one call it was about to make.  The withdrawal does not call that one
\* back: reportStep, which records the signing marker, looks at the lease alone.
WithdrawalStopsAtTheCheck ==
    [][\A i \in Intents :
          /\ ~Authorised(i) => Signers(i)' \subseteq Signers(i)
          /\ NewlySent(i) => Signers(i) \ Signers(i)' # {}]_vars

\* What reaches Privy was never withdrawn before an executor leased it, was approved if its
\* mandate asks for that, and had the authority of agent, mandate and proof when its step
\* was last checked.  Less than docs/AGENT_PLATFORM.md:96 and :98 say: a pause, a revocation
\* or a new mandate neither cancels leased work nor makes what it races end as ambiguous.
OnlyPermittedIsSent ==
    /\ [](WithdrawnIsNeverSent /\ SupervisedIsApproved)
    /\ WithdrawalStopsAtTheCheck

\* Whatever is queued ends, across crashes and lost answers.
QueueDrains ==
    \A i \in Intents : intents[i].state \in {"QUEUED"} \union Leased ~> intents[i].state \in Terminal

\* An outcome the executor could not see (it crashed, or an answer was lost) recovers
\* through the step's idempotency key or is surfaced as ambiguous: no intent is reported
\* as failed for another reason while a transaction it signed and did not record may live.
AmbiguousOutcomesRecover ==
    \A i \in Intents : \A s \in DOMAIN steps[i] :
        ( /\ intents[i].state \in {"FAILED", "FAILED_WITH_ALLOWANCE"}
          /\ steps[i][s].status \in {"PENDING", "SIGNING"} /\ chain[i][s] # "none" )
            => intents[i].code = "AMBIGUOUS_SIGNING_OUTCOME"
=============================================================================
