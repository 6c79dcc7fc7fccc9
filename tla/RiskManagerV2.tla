--------------------------- MODULE RiskManagerV2 ---------------------------
(***************************************************************************)
(* The timelocked risk parameters of the CVA asset.  A configuration is    *)
(* validated and scheduled by its hash, and applied by presenting the same *)
(* configuration again once the delay has passed.  The hash is modelled by *)
(* the configuration itself.                                               *)
(***************************************************************************)
EXTENDS BlockContext, RwcarMath

CONSTANTS
    RiskConfigs,        \* the configurations governance may consider
    InitialRisk,        \* the one in force when the model starts
    InitialPending,     \* what is scheduled then
    ConfigDelay,        \* configDelay
    MaxPeriod           \* 30 days, in clock units

VARIABLES
    risk,               \* _configs[asset]
    pendingRisk         \* pendingConfigs[asset]: {} or one scheduled configuration

riskVars == <<risk, pendingRisk>>

RiskConfig ==
    [enabled: BOOLEAN, initialLtvBps: Nat, maintenanceLtvBps: Nat, liquidationLtvBps: Nat,
     earlyMinHoldBps: Nat, earlyBreakFeeBps: Nat, defaultSpreadBps: Nat,
     maxDefaultRateBps: Nat, liquidationFeeBps: Nat, auctionStartBps: Nat,
     auctionFloorBps: Nat, auctionDuration: Nat, maxOracleAge: Nat, marginCallPeriod: Nat,
     staleOracleFallbackDelay: Nat]

MAX_RATE_BPS == 100000

\* _validate
ValidRisk(c) ==
    /\ 0 < c.initialLtvBps /\ c.initialLtvBps < c.maintenanceLtvBps
    /\ c.maintenanceLtvBps < c.liquidationLtvBps /\ c.liquidationLtvBps <= BPS_DENOMINATOR
    /\ BPS_DENOMINATOR <= c.auctionStartBps
    /\ 0 < c.auctionFloorBps /\ c.auctionFloorBps <= c.auctionStartBps
    /\ c.liquidationFeeBps < BPS_DENOMINATOR
    /\ c.earlyMinHoldBps <= BPS_DENOMINATOR /\ c.earlyBreakFeeBps < BPS_DENOMINATOR
    /\ c.defaultSpreadBps <= c.maxDefaultRateBps /\ c.maxDefaultRateBps <= MAX_RATE_BPS
    /\ {c.maxOracleAge, c.auctionDuration, c.marginCallPeriod, c.staleOracleFallbackDelay}
          \subseteq 1..MaxPeriod

ASSUME RiskAssumption ==
    /\ RiskConfigs \subseteq RiskConfig
    /\ InitialRisk \in RiskConfig
    /\ ValidRisk(InitialRisk)
    /\ InitialPending \subseteq [config: RiskConfigs, executeAfter: Nat]
    /\ ConfigDelay \in Nat
    /\ MaxPeriod \in Nat

RiskInit ==
    /\ risk = InitialRisk
    /\ pendingRisk = InitialPending

ScheduleConfig(c) ==
    /\ ValidRisk(c)
    /\ pendingRisk' = {[config |-> c, executeAfter |-> now + ConfigDelay]}
    /\ UNCHANGED risk

ApplyConfig(c) ==
    /\ \E pending \in pendingRisk : pending.config = c /\ now >= pending.executeAfter
    /\ ValidRisk(c)
    /\ risk' = c
    /\ pendingRisk' = {}

CancelConfig ==
    /\ pendingRisk # {}
    /\ pendingRisk' = {}
    /\ UNCHANGED risk

RiskTypeOK ==
    /\ risk \in RiskConfig /\ ValidRisk(risk)
    /\ pendingRisk \subseteq [config: RiskConfigs, executeAfter: Nat]
=============================================================================
