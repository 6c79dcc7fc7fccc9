--------------------------- MODULE UatDeployment ---------------------------
(***************************************************************************)
(* The scripts that deploy RWCAR V2 and open it to its first users: the    *)
(* deployment with its resume journal, the Cleanverse ceremony, the        *)
(* governance hand-over, the first valuation and the two smoke windows,    *)
(* with the ownership, custody registration and readiness of the           *)
(* contracts they act on.                                                  *)
(*                                                                         *)
(* An operator runs one script at a time.  A script sends its transactions *)
(* one by one and waits for each; it may be killed at any moment, also     *)
(* while a transaction is in flight, and is then run again on what the     *)
(* files and the chain say.                                                *)
(***************************************************************************)
EXTENDS Naturals, FiniteSets, SequencesExt

CONSTANTS
    Profiles,       \* deployments considered, of "standard" and "hackathon"
    MaxFaults,      \* bound: kills, failed reads and repeated ceremonies of the recovery
    StandardFaults, \* bound: the same in a standard deployment, whose states are more
    MaxPauses       \* bound: pauses by the guardian

ASSUME DeploymentConstants ==
    /\ Profiles \subseteq {"standard", "hackathon"}
    /\ {MaxFaults, StandardFaults, MaxPauses} \subseteq Nat

VARIABLES
    profile,    \* the deployment made: standard, or the recovery that reuses shared contracts
    contracts,  \* the contracts on the chain; an address is an index into it
    txs,        \* transactions in the order sent; a hash is an index into it
    journal,    \* the deployment's journal file: the hash of each stage it names
    manifest,   \* the manifest file: the address of each contract, and what it says is done
    evidence,   \* the scripts whose evidence file exists
    script,     \* the running script, and what it keeps in memory
    faults,     \* how many there were so far
    pauses      \* for each pause by the guardian, whether its engine had been made ready

vars == <<profile, contracts, txs, journal, manifest, evidence, script, faults, pauses>>

Kinds == {"moduleFactory", "assetRegistry", "valuationOracle",
          "riskManager", "repoMarket", "marginEngine"}
SharedKinds == {"moduleFactory", "assetRegistry", "valuationOracle"}
Engines == {"repoMarket", "marginEngine"}
Governed == Kinds \ {"moduleFactory"}

MayFault == faults < IF profile = "standard" THEN StandardFaults ELSE MaxFaults

Idle == script.name = "none"
NoScript == [name |-> "none", at |-> 0, hash |-> 0, needed |-> {}, printed |-> <<>>]

-----------------------------------------------------------------------------
(* What the scripts do, stage by stage.                                     *)

DeployStages ==
    IF profile = "standard"
    THEN <<"deployModuleFactory", "deployAssetRegistry", "deployValuationOracle",
           "deployRiskManager", "enableCvaAsset", "deployRepoMarket", "configureMarketAsset",
           "deployMarginEngine", "scheduleRiskConfig", "setMarketPauseGuardian",
           "pauseMarketEntry", "setMarginPauseGuardian", "pauseMarginEntry",
           "transferRegistryOwnership", "transferOracleOwnership",
           "transferRiskManagerOwnership", "transferMarketOwnership",
           "transferMarginOwnership">>
    ELSE <<"deployRiskManager", "deployRepoMarket", "configureMarketAsset",
           "deployMarginEngine", "scheduleRiskConfig", "applyRiskConfig",
           "setMarketPauseGuardian", "pauseMarketEntry", "setMarginPauseGuardian",
           "pauseMarginEntry", "transferRiskManagerOwnership", "transferMarketOwnership",
           "transferMarginOwnership">>

CleanverseStages ==
    <<"marketPolicyPool", "marginPolicyPool", "moduleFactoryRegistrarRole", "marketVault",
      "marketSettlementEscrow", "marginVault", "marginSettlementEscrow">>

FinalizeStages ==
    <<"transferModuleFactoryOwnership", "acceptAssetRegistryOwnership",
      "acceptRiskManagerOwnership", "acceptValuationOracleOwnership",
      "acceptRepoMarketOwnership", "acceptMarginEngineOwnership",
      "acceptModuleFactoryOwnership", "applyRiskConfig">>

OracleStages == <<"publishInitialValuation">>
WindowStages == <<"marketAssetVaultReady", "isolatedEntryUnpaused">>
MarginWindowStages == <<"marginCustodyReady", "marginEntryUnpaused">>

Stages(name) ==
    CASE name = "deploy" -> DeployStages
      [] name = "cleanverse" -> CleanverseStages
      [] name = "finalize" -> FinalizeStages
      [] name = "oracle" -> OracleStages
      [] name = "window" -> WindowStages
      [] name = "marginWindow" -> MarginWindowStages

Ceremonies == {"cleanverse", "finalize", "oracle", "window", "marginWindow"}

\* The kind of contract a stage creates.
Creates(stage) ==
    CASE stage = "deployModuleFactory" -> "moduleFactory"
      [] stage = "deployAssetRegistry" -> "assetRegistry"
      [] stage = "deployValuationOracle" -> "valuationOracle"
      [] stage = "deployRiskManager" -> "riskManager"
      [] stage = "deployRepoMarket" -> "repoMarket"
      [] stage = "deployMarginEngine" -> "marginEngine"
      [] OTHER -> "none"

\* The kind of contract a stage writes to; for a custody, the engine it belongs to.
WritesTo(stage) ==
    CASE stage \in {"moduleFactoryRegistrarRole", "transferModuleFactoryOwnership",
                    "acceptModuleFactoryOwnership"} -> "moduleFactory"
      [] stage \in {"enableCvaAsset", "transferRegistryOwnership",
                    "acceptAssetRegistryOwnership"} -> "assetRegistry"
      [] stage \in {"transferOracleOwnership", "acceptValuationOracleOwnership",
                    "publishInitialValuation"} -> "valuationOracle"
      [] stage \in {"scheduleRiskConfig", "applyRiskConfig", "transferRiskManagerOwnership",
                    "acceptRiskManagerOwnership"} -> "riskManager"
      [] stage \in {"configureMarketAsset", "setMarketPauseGuardian", "pauseMarketEntry",
                    "transferMarketOwnership", "marketPolicyPool", "marketVault",
                    "marketSettlementEscrow", "acceptRepoMarketOwnership",
                    "marketAssetVaultReady", "isolatedEntryUnpaused"} -> "repoMarket"
      [] OTHER -> "marginEngine"

Custodies == {"marketVault", "marketSettlementEscrow", "marginVault", "marginSettlementEscrow"}
Transfers == {"transferRegistryOwnership", "transferOracleOwnership",
              "transferRiskManagerOwnership", "transferMarketOwnership",
              "transferMarginOwnership", "transferModuleFactoryOwnership"}
Accepts == {"acceptAssetRegistryOwnership", "acceptRiskManagerOwnership",
            "acceptValuationOracleOwnership", "acceptRepoMarketOwnership",
            "acceptMarginEngineOwnership", "acceptModuleFactoryOwnership"}

-----------------------------------------------------------------------------
(* The contracts.                                                           *)

\* A contract, with the contracts its constructor was given and what has been done to it.
Contract(kind, on, owner) ==
    [kind |-> kind, on |-> on, owner |-> owner, pendingOwner |-> "none", done |-> {}]

\* The contract of a kind that a contract was constructed with.
Bound(c, kind) == contracts[CHOOSE a \in c.on : contracts[a].kind = kind]

\* What a write leaves done: a later stage undoes what a pause or a schedule did.
Undoes(stage) ==
    CASE stage = "isolatedEntryUnpaused" -> {"pauseMarketEntry"}
      [] stage = "marginEntryUnpaused" -> {"pauseMarginEntry"}
      [] stage = "applyRiskConfig" -> {"scheduleRiskConfig", "matured"}
      [] stage = "scheduleRiskConfig" -> {"matured"}
      [] stage = "pauseMarketEntry" -> {"isolatedEntryUnpaused"}
      [] stage = "pauseMarginEntry" -> {"marginEntryUnpaused"}
      [] OTHER -> {}

\* registerCvaCustody: the module is one the factory made for the pool, registered once.
CustodyRegistrable(pool, custody, sender) ==
    /\ Bound(pool, "moduleFactory").owner = sender
    /\ "moduleFactoryRegistrarRole" \in Bound(pool, "moduleFactory").done
    /\ {"marketPolicyPool", "marginPolicyPool"} \cap pool.done # {}
    /\ custody = "marketVault" => "configureMarketAsset" \in pool.done
    /\ custody \notin pool.done

Accepted(stage, c, sender) ==
    CASE stage \in Custodies -> CustodyRegistrable(c, stage, sender)
      [] stage \in Accepts -> c.pendingOwner = sender
      [] stage = "publishInitialValuation" -> TRUE
      [] stage = "configureMarketAsset" ->
           /\ c.owner = sender /\ stage \notin c.done
           /\ "enableCvaAsset" \in Bound(c, "assetRegistry").done
      [] stage \in {"marketPolicyPool", "marginPolicyPool"} ->
           c.owner = sender /\ stage \notin c.done
      [] stage = "applyRiskConfig" ->
           c.owner = sender /\ {"scheduleRiskConfig", "matured"} \subseteq c.done
      [] stage = "marketAssetVaultReady" ->
           c.owner = sender /\ "configureMarketAsset" \in c.done
      [] OTHER -> c.owner = sender

Written(stage, c, sender) ==
    CASE stage \in Transfers -> [c EXCEPT !.pendingOwner = "final"]
      [] stage \in Accepts -> [c EXCEPT !.owner = sender, !.pendingOwner = "none"]
      [] stage = "scheduleRiskConfig" /\ profile = "hackathon" ->
           [c EXCEPT !.done = @ \cup {stage, "matured"}]
      [] OTHER -> [c EXCEPT !.done = (@ \ Undoes(stage)) \cup {stage}]

\* Whether the transaction would succeed on the chain as it is.
Passes(tx) ==
    IF tx.to = 0 THEN TRUE ELSE Accepted(tx.stage, contracts[tx.to], tx.sender)

\* The oldest transaction in flight is included.
Mine ==
    \E hash \in DOMAIN txs :
        /\ txs[hash].status = "pending"
        /\ \A earlier \in 1..(hash - 1) : txs[earlier].status # "pending"
        /\ LET tx == txs[hash]
               to == IF tx.to = 0 THEN Len(contracts) + 1 ELSE tx.to
           IN IF Passes(tx)
              THEN /\ contracts' =
                        IF tx.to = 0
                        THEN Append(contracts, Contract(Creates(tx.stage), tx.on,
                                 IF tx.stage = "deployModuleFactory"
                                 THEN "activation" ELSE tx.sender))
                        ELSE [contracts EXCEPT ![to] = Written(tx.stage, @, tx.sender)]
                   /\ txs' = [txs EXCEPT ![hash].status = "success", ![hash].to = to]
              ELSE /\ txs' = [txs EXCEPT ![hash].status = "reverted"]
                   /\ UNCHANGED contracts
    /\ UNCHANGED <<profile, journal, manifest, evidence, script, faults, pauses>>

\* The delay of a scheduled risk configuration passes.
Mature ==
    /\ \E a \in DOMAIN contracts :
          /\ "scheduleRiskConfig" \in contracts[a].done
          /\ "matured" \notin contracts[a].done
          /\ contracts' = [contracts EXCEPT ![a].done = @ \cup {"matured"}]
    /\ UNCHANGED <<profile, txs, journal, manifest, evidence, script, faults, pauses>>

PauseStage(kind) == IF kind = "repoMarket" THEN "pauseMarketEntry" ELSE "pauseMarginEntry"
GuardianStage(kind) ==
    IF kind = "repoMarket" THEN "setMarketPauseGuardian" ELSE "setMarginPauseGuardian"
ReadyStage(kind) ==
    IF kind = "repoMarket" THEN "marketAssetVaultReady" ELSE "marginCustodyReady"

GuardianPauses(a) ==
    LET c == contracts[a]
    IN /\ Len(pauses) < MaxPauses
       /\ c.kind \in Engines
       /\ GuardianStage(c.kind) \in c.done
       /\ PauseStage(c.kind) \notin c.done
       /\ contracts' = [contracts EXCEPT ![a] = Written(PauseStage(c.kind), c, "guardian")]
       /\ pauses' = Append(pauses, ReadyStage(c.kind) \in c.done)
       /\ UNCHANGED <<profile, txs, journal, manifest, evidence, script, faults>>

-----------------------------------------------------------------------------
(* What a script acts on, and when it agrees to run.                        *)

\* The shared contracts of the hackathon profile, in the state it requires them to be in.
SharedAt == [moduleFactory |-> 1, assetRegistry |-> 2, valuationOracle |-> 3]
SharedContracts ==
    << [Contract("moduleFactory", {}, "activation")
            EXCEPT !.done = {"moduleFactoryRegistrarRole"}],
       [Contract("assetRegistry", {}, "deployer")
            EXCEPT !.pendingOwner = "final", !.done = {"enableCvaAsset"}],
       [Contract("valuationOracle", {}, "deployer") EXCEPT !.pendingOwner = "final"] >>

\* The address of a kind: of the stages printed while it is deployed, then of the manifest.
Address(kind) ==
    IF script.name # "deploy" THEN manifest.address[kind]
    ELSE IF profile = "hackathon" /\ kind \in SharedKinds THEN SharedAt[kind]
    ELSE txs[script.printed[CHOOSE s \in DOMAIN script.printed : Creates(s) = kind]].to
The(kind) == contracts[Address(kind)]

Sender(name, stage) ==
    IF name = "deploy" \/ stage \in {"marketPolicyPool", "marginPolicyPool"} THEN "deployer"
    ELSE IF \/ stage \in Custodies
            \/ stage \in {"moduleFactoryRegistrarRole", "transferModuleFactoryOwnership"}
         THEN "activation"
    ELSE "final"

Transaction(name, stage) ==
    [stage |-> stage, sender |-> Sender(name, stage), status |-> "pending",
     to |-> IF Creates(stage) # "none" THEN 0 ELSE Address(WritesTo(stage)),
     on |-> IF Creates(stage) \in Engines
            THEN {Address(kind) : kind \in SharedKinds \cup {"riskManager"}} ELSE {}]

\* Whether the chain says that a stage of a ceremony is still to be done.
Undone(stage) ==
    LET c == The(WritesTo(stage))
    IN CASE stage \in Accepts -> c.owner # "final"
         [] stage = "transferModuleFactoryOwnership" ->
              c.owner # "final" /\ c.pendingOwner = "none"
         [] stage = "isolatedEntryUnpaused" -> "pauseMarketEntry" \in c.done
         [] stage = "marginEntryUnpaused" -> "pauseMarginEntry" \in c.done
         [] stage = "publishInitialValuation" -> TRUE
         [] OTHER -> stage \notin c.done

\* Stages whose state is read when they are reached; the others are read when the script starts.
ReadLate == Accepts \cup {CleanverseStages[i] : i \in DOMAIN CleanverseStages}

Needed(stage) ==
    \/ script.name = "deploy"
    \/ IF stage \in ReadLate THEN Undone(stage) ELSE stage \in script.needed

Paused(kind) == PauseStage(kind) \in The(kind).done
Ready(kind) == ReadyStage(kind) \in The(kind).done
Registered ==
    /\ "marketPolicyPool" \in The("repoMarket").done
    /\ "marginPolicyPool" \in The("marginEngine").done
    /\ {"marketVault", "marketSettlementEscrow"} \subseteq The("repoMarket").done
    /\ {"marginVault", "marginSettlementEscrow"} \subseteq The("marginEngine").done
RiskApplied == "applyRiskConfig" \in The("riskManager").done
Valued == "publishInitialValuation" \in The("valuationOracle").done

\* The evidence files of earlier ceremonies that a script insists on.
EvidenceRequired(name) ==
    CASE name = "finalize" -> {"cleanverse"}
      [] name = "oracle" -> {"finalize"}
      [] name = "window" -> {"cleanverse", "finalize", "oracle"}
      [] name = "marginWindow" -> {"cleanverse", "finalize", "oracle", "window"}
      [] OTHER -> {}

CleanverseReady ==
    /\ \A kind \in Engines : The(kind).owner = "deployer"
    /\ The("moduleFactory").owner = "activation"
    /\ The("moduleFactory").pendingOwner = "none"

\* Deviation: the owners may be final before the pools and custodies are registered.
GovernanceReadyUnregistered ==
    /\ \A kind \in Governed :
          The(kind).owner = "final" \/ The(kind).pendingOwner = "final"
    /\ \A kind \in Engines : Paused(kind) /\ ~Ready(kind)
    /\ \/ RiskApplied
       \/ {"scheduleRiskConfig", "matured"} \subseteq The("riskManager").done

\* The blockers of the governance finalizer, all absent.
GovernanceReady ==
    /\ \A kind \in Kinds :
          LET c == The(kind)
          IN IF c.owner = "final" THEN c.pendingOwner = "none"
             ELSE \/ c.pendingOwner = "final"
                  \/ kind = "moduleFactory" /\ c.pendingOwner = "none"
    /\ Registered
    /\ "moduleFactoryRegistrarRole" \in The("moduleFactory").done
    /\ \A kind \in Engines : Paused(kind) /\ ~Ready(kind)
    /\ EvidenceRequired("finalize") \subseteq evidence
    /\ "cleanverse" \in manifest.claims
    /\ RiskApplied \/ {"scheduleRiskConfig", "matured"} \subseteq The("riskManager").done

OracleReady ==
    /\ EvidenceRequired("oracle") \subseteq evidence
    /\ The("valuationOracle").owner = "final"

\* Deviation: the window opens on the word of the manifest, without the evidence.
WindowReadyOnClaims ==
    /\ profile = "hackathon"
    /\ "cleanverse" \in manifest.claims
    /\ Registered
    /\ ~Paused("repoMarket") => Ready("repoMarket")
    /\ Paused("marginEngine") /\ ~Ready("marginEngine")

WindowReady ==
    /\ profile = "hackathon"
    /\ EvidenceRequired("window") \subseteq evidence
    /\ Registered /\ RiskApplied /\ Valued
    /\ \A kind \in Engines : The(kind).owner = "final"
    /\ ~Paused("repoMarket") => Ready("repoMarket")
    /\ Paused("marginEngine") /\ ~Ready("marginEngine")

MarginWindowReady ==
    /\ profile = "hackathon"
    /\ EvidenceRequired("marginWindow") \subseteq evidence
    /\ "marginPolicyPool" \in The("marginEngine").done
    /\ {"marginVault", "marginSettlementEscrow"} \subseteq The("marginEngine").done
    /\ RiskApplied /\ Valued
    /\ The("marginEngine").owner = "final"
    /\ ~Paused("repoMarket") /\ Ready("repoMarket")
    /\ ~Paused("marginEngine") => Ready("marginEngine")

Agrees(name) ==
    CASE name = "cleanverse" -> CleanverseReady
      [] name = "finalize" -> GovernanceReady
      [] name = "oracle" -> OracleReady
      [] name = "window" -> WindowReady
      [] name = "marginWindow" -> MarginWindowReady

-----------------------------------------------------------------------------
(* What a script verifies when its last stage is confirmed.                 *)

HandedOver ==
    /\ \A kind \in Governed : The(kind).owner = "deployer" /\ The(kind).pendingOwner = "final"
    /\ The("moduleFactory").owner = "activation" /\ The("moduleFactory").pendingOwner = "none"
    /\ profile = "hackathon" => RiskApplied
    /\ \A kind \in Engines : Paused(kind) /\ ~Ready(kind)

Finalized ==
    /\ \A kind \in Kinds : The(kind).owner = "final" /\ The(kind).pendingOwner = "none"
    /\ RiskApplied
    /\ \A kind \in Engines : Paused(kind)

Verified(name) ==
    CASE name = "deploy" -> HandedOver
      [] name = "finalize" -> Finalized
      [] name = "window" -> /\ ~Paused("repoMarket") /\ Ready("repoMarket")
                            /\ Paused("marginEngine") /\ ~Ready("marginEngine")
      [] name = "marginWindow" -> ~Paused("marginEngine") /\ Ready("marginEngine")
      [] OTHER -> TRUE

-----------------------------------------------------------------------------
(* A run of a script.                                                       *)

Init ==
    /\ profile \in Profiles
    /\ contracts = IF profile = "hackathon" THEN SharedContracts ELSE <<>>
    /\ txs = <<>> /\ journal = <<>>
    /\ manifest = [written |-> FALSE, address |-> [kind \in Kinds |-> 0], claims |-> {}]
    /\ evidence = {}
    /\ script = NoScript
    /\ faults = 0 /\ pauses = <<>>

Stage == Stages(script.name)[script.at]
AtStage == ~Idle /\ script.at <= Len(Stages(script.name))

\* Deviation: of a run, the journal keeps the stages submitted but not those recovered.
JournalOfSubmitted(printed) ==
    [stage \in {s \in DOMAIN printed : s \notin DOMAIN journal} |-> printed[stage]]

\* The runner's journal after its child has closed: what this run printed, and nothing else.
JournalOf(printed) == printed

\* Transactions are included in the order sent, so those in flight are the last ones.
Settled(sent) ==
    CHOOSE n \in 0..Len(sent) : \A hash \in DOMAIN sent : sent[hash].status = "pending" <=> hash > n

\* No file holds the hash of a ceremony's transaction: nothing refers to it but its script.
Forget(sent, kept) == IF kept THEN sent ELSE SubSeq(sent, Settled(sent) + 1, Len(sent))

\* The script ends; the deployment's runner writes the journal of what the run printed.
Ends(sent) ==
    /\ script' = NoScript
    /\ journal' = IF script.name = "deploy" THEN JournalOf(script.printed) ELSE journal
    /\ txs' = Forget(sent, script.name = "deploy")

StartDeployment ==
    /\ Idle /\ ~manifest.written
    /\ script' = [NoScript EXCEPT !.name = "deploy", !.at = 1]
    /\ UNCHANGED <<profile, contracts, txs, journal, manifest, evidence, faults, pauses>>

\* A ceremony that is finished may be run again, within the bound on faults.
StartCeremony(name) ==
    /\ Idle /\ manifest.written
    /\ Agrees(name)
    /\ script' = [NoScript EXCEPT !.name = name, !.at = 1,
                     !.needed = {s \in Range(Stages(name)) : s \notin ReadLate /\ Undone(s)}]
    /\ IF name \in manifest.claims
       THEN MayFault /\ faults' = faults + 1
       ELSE UNCHANGED faults
    /\ UNCHANGED <<profile, contracts, txs, journal, manifest, evidence, pauses>>

Announce(hash) ==
    script' = [script EXCEPT !.hash = hash,
                  !.printed = IF script.name = "deploy"
                              THEN [s \in DOMAIN @ \cup {Stage} |->
                                       IF s = Stage THEN hash ELSE @[s]]
                              ELSE @]

\* The stage has a hash in the journal: its receipt is awaited, nothing is sent.
RecoverStage ==
    /\ AtStage /\ script.hash = 0
    /\ script.name = "deploy" /\ Stage \in DOMAIN journal
    /\ Announce(journal[Stage])
    /\ UNCHANGED <<profile, contracts, txs, journal, manifest, evidence, faults, pauses>>

MustSend ==
    /\ AtStage /\ script.hash = 0
    /\ script.name = "deploy" => Stage \notin DOMAIN journal
    /\ Needed(Stage)

SubmitStage ==
    /\ MustSend
    /\ Passes(Transaction(script.name, Stage))
    /\ txs' = Append(txs, Transaction(script.name, Stage))
    /\ Announce(Len(txs) + 1)
    /\ UNCHANGED <<profile, contracts, journal, manifest, evidence, faults, pauses>>

\* The node takes the transaction but its answer is lost: the script throws without a hash.
SubmitUnanswered ==
    /\ MustSend /\ MayFault
    /\ Passes(Transaction(script.name, Stage))
    /\ Ends(Append(txs, Transaction(script.name, Stage)))
    /\ faults' = faults + 1
    /\ UNCHANGED <<profile, contracts, manifest, evidence, pauses>>

\* The simulation reverts and the script throws.
SimulationFails ==
    /\ MustSend
    /\ ~Passes(Transaction(script.name, Stage))
    /\ Ends(txs)
    /\ UNCHANGED <<profile, contracts, manifest, evidence, faults, pauses>>

SkipStage ==
    /\ AtStage /\ script.hash = 0 /\ ~Needed(Stage)
    /\ script' = [script EXCEPT !.at = @ + 1]
    /\ UNCHANGED <<profile, contracts, txs, journal, manifest, evidence, faults, pauses>>

\* The receipt of the stage is there, and says success or revert.
ConfirmStage ==
    /\ AtStage /\ script.hash # 0
    /\ txs[script.hash].status = "success"
    /\ script' = [script EXCEPT !.at = @ + 1, !.hash = 0]
    /\ UNCHANGED <<profile, contracts, txs, journal, manifest, evidence, faults, pauses>>

StageReverted ==
    /\ AtStage /\ script.hash # 0
    /\ txs[script.hash].status = "reverted"
    /\ Ends(txs)
    /\ UNCHANGED <<profile, contracts, manifest, evidence, faults, pauses>>

AllConfirmed == ~Idle /\ script.at = Len(Stages(script.name)) + 1

\* The last verification; then the evidence file, or the journal of the finished deployment.
Verify ==
    /\ AllConfirmed
    /\ IF ~Verified(script.name) THEN Ends(txs) /\ UNCHANGED evidence
       ELSE /\ UNCHANGED txs
            /\ script' = [script EXCEPT !.at = @ + 1]
            /\ evidence' = IF script.name = "deploy" THEN evidence ELSE evidence \cup {script.name}
            /\ journal' = IF script.name = "deploy" THEN JournalOf(script.printed) ELSE journal
    /\ UNCHANGED <<profile, contracts, manifest, faults, pauses>>

\* The manifest is written once: the journal is not read again, and nor are its hashes.
WriteManifest ==
    /\ ~Idle /\ script.at = Len(Stages(script.name)) + 2
    /\ manifest' =
          IF script.name = "deploy"
          THEN [manifest EXCEPT !.written = TRUE,
                                !.address = [kind \in Kinds |-> Address(kind)]]
          ELSE [manifest EXCEPT !.claims = @ \cup {script.name}]
    /\ script' = NoScript
    /\ journal' = <<>>
    /\ txs' = Forget(txs, FALSE)
    /\ UNCHANGED <<profile, contracts, evidence, faults, pauses>>

\* A read fails and the script throws.
ReadFails ==
    /\ ~Idle /\ MayFault
    /\ script.at <= Len(Stages(script.name)) + 1
    /\ Ends(txs)
    /\ faults' = faults + 1
    /\ UNCHANGED <<profile, contracts, manifest, evidence, pauses>>

\* The script is killed, and with it the runner that would have written the journal.
Killed ==
    /\ ~Idle /\ MayFault
    /\ script' = NoScript
    /\ txs' = Forget(txs, script.name = "deploy")
    /\ faults' = faults + 1
    /\ UNCHANGED <<profile, contracts, journal, manifest, evidence, pauses>>

Run ==
    \/ RecoverStage \/ SubmitStage \/ SimulationFails \/ SkipStage
    \/ ConfirmStage \/ StageReverted \/ Verify \/ WriteManifest

Next ==
    \/ StartDeployment
    \/ \E name \in Ceremonies : StartCeremony(name)
    \/ Run
    \/ SubmitUnanswered \/ ReadFails \/ Killed
    \/ Mine \/ Mature
    \/ \E a \in DOMAIN contracts : GuardianPauses(a)

Spec == Init /\ [][Next]_vars

\* A running script goes on, transactions are included, delays pass, and the operator runs what
\* the manifest does not yet say is done.
Operator == \E name \in Ceremonies : name \notin manifest.claims /\ StartCeremony(name)
FairSpec == Spec /\ WF_vars(Run) /\ WF_vars(Mine) /\ WF_vars(Mature) /\ WF_vars(Operator)

-----------------------------------------------------------------------------
(* Properties.                                                              *)

\* Whatever was killed, lost and resumed while deploying, the contracts the manifest names
\* belong together: the engines were constructed with the named factory, registry, oracle and
\* risk manager, and carry their guardian and their configured asset, the risk manager its
\* configuration.
ManifestIsCoherent ==
    manifest.written =>
        LET c(kind) == contracts[manifest.address[kind]]
        IN /\ \A kind \in Kinds : c(kind).kind = kind
           /\ \A engine \in Engines :
                 /\ c(engine).on =
                        {manifest.address[kind] : kind \in SharedKinds \cup {"riskManager"}}
                 /\ GuardianStage(engine) \in c(engine).done
           /\ "configureMarketAsset" \in c("repoMarket").done
           /\ {"scheduleRiskConfig", "applyRiskConfig"} \cap c("riskManager").done # {}

\* An engine on the chain admits new exposure only when it is the one of the manifest, is
\* owned by the final owner, its pool and both its custodies are registered, and the risk
\* manager and the oracle it was constructed with have a configuration and a valuation.
Admits(c) == ReadyStage(c.kind) \in c.done /\ PauseStage(c.kind) \notin c.done
EntryIsProven ==
    \A a \in DOMAIN contracts :
        LET c == contracts[a]
        IN c.kind \in Engines /\ Admits(c) =>
               /\ manifest.written /\ manifest.address[c.kind] = a
               /\ c.owner = "final"
               /\ IF c.kind = "repoMarket"
                  THEN {"marketPolicyPool", "marketVault", "marketSettlementEscrow"} \subseteq c.done
                  ELSE {"marginPolicyPool", "marginVault", "marginSettlementEscrow"} \subseteq c.done
               /\ "applyRiskConfig" \in Bound(c, "riskManager").done
               /\ "publishInitialValuation" \in Bound(c, "valuationOracle").done

\* A deployment that has its manifest can always be finished: whatever is killed on the way,
\* the hackathon deployment opens both engines unless the guardian has paused one that was
\* ready, and the standard one gets its owners and its valuation.
Opened ==
    manifest.written /\ \A kind \in Engines : Admits(contracts[manifest.address[kind]])
CeremonyCompletes ==
    manifest.written ~>
        \/ profile = "hackathon" /\ (Opened \/ TRUE \in Range(pauses))
        \/ profile = "standard" /\ {"cleanverse", "finalize", "oracle"} \subseteq manifest.claims

=============================================================================
