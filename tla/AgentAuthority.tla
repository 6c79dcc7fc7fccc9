--------------------------- MODULE AgentAuthority ---------------------------
(***************************************************************************)
(* What lets an agent act (apps/api/src/services/agent.ts): the row of one *)
(* agent, its credential, the mandates its institution signs, and the      *)
(* compliance check that reads Cleanverse outside any transaction and      *)
(* writes its verdict later.  Transactions take the agent's advisory lock  *)
(* and are one step each.  The clock is kept as flags that turn once: a    *)
(* mandate leaves its window, a CVI proof its validity.                    *)
(***************************************************************************)
EXTENDS Naturals, FiniteSets, Sequences, TLC

CONSTANT MaxMandates   \* bound: mandates signed

ASSUME MandatesAssumption == MaxMandates \in Nat

VARIABLES
    agent,       \* status, bound wallet and CVI proof of the agents row
    credential,  \* "none", "active", "revoked": the agent's client credential
    mandate,     \* the agentMandates row with status ACTIVE; version 0 is none
    apass,       \* external: the wallet's eligibility at Cleanverse
    check        \* the compliance check between its reads and its transaction

authorityVars == <<agent, credential, mandate, apass, check>>

NoCheck == [running |-> FALSE, mandate |-> 0, active |-> FALSE]

\* createAgent.
AuthorityInit ==
    /\ agent = [status |-> "PENDING_WALLET", wallet |-> FALSE, cvi |-> "none"]
    /\ credential = "none"
    /\ mandate = [version |-> 0, inForce |-> FALSE]
    /\ apass = TRUE
    /\ check = NoCheck

-----------------------------------------------------------------------------
(* What the handlers ask of the rows. *)

\* cviActive, whatever cviExpiresAt says: all that the executor's calls look at.
CviActive == agent.cvi # "none"

\* What agent and administrator calls look at: cviActive and not past cviExpiresAt.
AgentLive == agent.status = "ACTIVE" /\ agent.cvi = "live"

MandateInForce == mandate.version > 0 /\ mandate.inForce

\* The exact mandate of an intent is still the active one and in its window.
IntentMandateInForce(version) == mandate.version = version /\ mandate.inForce

\* authenticateBearer: every machine call looks all of this up again.
Authenticated == AgentLive /\ credential = "active" /\ MandateInForce

-----------------------------------------------------------------------------
(* Administration.  What a transaction does to the agent's intents is stated
   in AgentIntents, which composes these with it. *)

BindWallet ==
    /\ agent.status = "PENDING_WALLET" /\ ~agent.wallet
    /\ agent' = [agent EXCEPT !.status = "PENDING_CVI", !.wallet = TRUE]
    /\ UNCHANGED <<credential, mandate, apass, check>>

\* The old mandate is superseded and the next version is active.
RecordMandate ==
    /\ agent.wallet /\ agent.status # "REVOKED"
    /\ mandate.version < MaxMandates
    /\ mandate' = [version |-> mandate.version + 1, inForce |-> TRUE]
    /\ UNCHANGED <<agent, credential, apass, check>>

\* The reads of refreshCompliance: the active mandate, then Cleanverse and the chain for
\* every asset it allows.
ReadCompliance ==
    /\ agent.wallet /\ ~check.running
    /\ check' = [running |-> TRUE, mandate |-> IF MandateInForce THEN mandate.version ELSE 0,
                 active |-> apass]
    /\ UNCHANGED <<agent, credential, mandate, apass>>

\* Deviation: the verdict is written over a pause or a revocation.
RecordedStatusAlways(status) == status

\* A pause or a revocation stands whatever the check finds.
RecordedStatus(status) == IF agent.status \in {"PAUSED", "REVOKED"} THEN agent.status ELSE status

\* Its transaction: without a mandate the agent waits for one; a verdict is refused when the
\* mandate is no longer the one that was checked.
RecordCompliance ==
    /\ check.running /\ check' = NoCheck
    /\ agent' =
          CASE check.mandate = 0 ->
                 [agent EXCEPT !.status = RecordedStatus("PENDING_MANDATE"), !.cvi = "none"]
            [] check.mandate > 0 /\ ~IntentMandateInForce(check.mandate) -> agent
            [] check.mandate > 0 /\ IntentMandateInForce(check.mandate) ->
                 [agent EXCEPT
                     !.status = RecordedStatus(IF check.active THEN "ACTIVE" ELSE "PENDING_CVI"),
                     !.cvi = IF check.active THEN "live" ELSE "none"]
    /\ UNCHANGED <<credential, mandate, apass>>

CreateCredential ==
    /\ AgentLive /\ MandateInForce
    /\ credential' = "active"
    /\ UNCHANGED <<agent, mandate, apass, check>>

RevokeCredential ==
    /\ credential = "active"
    /\ credential' = "revoked"
    /\ UNCHANGED <<agent, mandate, apass, check>>

\* setAgentStatus: revocation is permanent and takes the credentials with it; an agent is
\* activated again only with a live proof and mandate.
SetAgentStatus(status) ==
    /\ agent.status = "REVOKED" => status = "REVOKED"
    /\ status = "ACTIVE" => agent.cvi = "live" /\ MandateInForce
    /\ agent' = [agent EXCEPT !.status = status]
    /\ credential' = IF status = "REVOKED" /\ credential # "none" THEN "revoked" ELSE credential
    /\ UNCHANGED <<mandate, apass, check>>

-----------------------------------------------------------------------------
(* Time and Cleanverse. *)

MandateEnds ==
    /\ MandateInForce
    /\ mandate' = [mandate EXCEPT !.inForce = FALSE]
    /\ UNCHANGED <<agent, credential, apass, check>>

CviLapses ==
    /\ agent.cvi = "live"
    /\ agent' = [agent EXCEPT !.cvi = "lapsed"]
    /\ UNCHANGED <<credential, mandate, apass, check>>

ChangeEligibility ==
    /\ apass' = ~apass
    /\ UNCHANGED <<agent, credential, mandate, check>>
=============================================================================
