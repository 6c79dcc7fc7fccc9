-------------------------- MODULE MCAgentExecutor --------------------------
(***************************************************************************)
(* A small instance of the agent platform: a fill with an allowance step,  *)
(* which the first, supervised mandate wants to be seen, and a repayment   *)
(* which it lets run alone; together they exhaust the daily limit.  The    *)
(* second mandate is autonomous and allows fills only.                     *)
(***************************************************************************)
EXTENDS AgentExecutorProperties

MCAction == [i \in Intents |-> IF i = "fill" THEN "FILL_OFFER" ELSE "REPAY_POSITION"]
MCNotional == [i \in Intents |-> IF i = "fill" THEN 2 ELSE 1]
MCPlan == [i \in Intents |-> IF i = "fill" THEN <<"APPROVAL", "PROTOCOL">> ELSE <<"PROTOCOL">>]
Supervised ==
    [executionMode |-> "SUPERVISED", allowedActions |-> {"FILL_OFFER", "REPAY_POSITION"},
     maxPerTransaction |-> 2, maxDailyNotional |-> 3, autoExecuteUpTo |-> 1]
Autonomous ==
    [executionMode |-> "AUTONOMOUS", allowedActions |-> {"FILL_OFFER"},
     maxPerTransaction |-> 2, maxDailyNotional |-> 2, autoExecuteUpTo |-> 0]
MCConstraints == [m \in 1..MaxMandates |-> IF m = 1 THEN Supervised ELSE Autonomous]
=============================================================================
