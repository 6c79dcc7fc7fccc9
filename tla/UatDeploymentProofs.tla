------------------------- MODULE UatDeploymentProofs -------------------------
(***************************************************************************)
(* The manifest of a deployment names contracts that belong together, and  *)
(* an engine admits exposure only after the proofs, however often and      *)
(* wherever the scripts were killed.                                       *)
(***************************************************************************)
EXTENDS UatDeployment, SequenceTheorems, TLAPS

-----------------------------------------------------------------------------
(* Types.                                                                   *)

StageNames ==
    {"deployModuleFactory", "deployAssetRegistry", "deployValuationOracle",
     "deployRiskManager", "enableCvaAsset", "deployRepoMarket", "configureMarketAsset",
     "deployMarginEngine", "scheduleRiskConfig", "applyRiskConfig", "setMarketPauseGuardian",
     "pauseMarketEntry", "setMarginPauseGuardian", "pauseMarginEntry",
     "marketPolicyPool", "marginPolicyPool", "moduleFactoryRegistrarRole",
     "publishInitialValuation", "marketAssetVaultReady", "isolatedEntryUnpaused",
     "marginCustodyReady", "marginEntryUnpaused"}
    \cup Custodies \cup Transfers \cup Accepts

Owners == {"deployer", "activation", "final"}
ContractRecords == [kind: Kinds, on: SUBSET Nat, owner: Owners, pendingOwner: {"none", "final"},
                    done: SUBSET (StageNames \cup {"matured"})]
Transactions == [stage: StageNames, sender: Owners, status: {"pending", "success", "reverted"},
                 to: Nat, on: SUBSET Nat]

DeploymentTypeOK ==
    /\ profile \in {"standard", "hackathon"}
    /\ contracts \in Seq(ContractRecords)
    /\ manifest \in [written: BOOLEAN, address: [Kinds -> Nat], claims: SUBSET Ceremonies]
    /\ script = [name |-> script.name, at |-> script.at, hash |-> script.hash,
                 needed |-> script.needed, printed |-> script.printed]

\* Those in flight were sent last.
PendingLast(sent) ==
    \E n \in 0..Len(sent) : \A hash \in DOMAIN sent : sent[hash].status = "pending" <=> hash > n

-----------------------------------------------------------------------------
(* What a contract keeps whatever is done to it.                            *)

\* What is never undone, once it is done.
Lasting ==
    {"configureMarketAsset", "setMarketPauseGuardian", "setMarginPauseGuardian",
     "marketPolicyPool", "marginPolicyPool", "marketVault", "marketSettlementEscrow",
     "marginVault", "marginSettlementEscrow", "applyRiskConfig", "publishInitialValuation"}

Configured(c) == {"scheduleRiskConfig", "applyRiskConfig"} \cap c.done # {}

Keeps(c, d) ==
    /\ d.kind = c.kind /\ d.on = c.on
    /\ c.owner = "final" => d.owner = "final"
    /\ c.done \cap Lasting \subseteq d.done
    /\ Configured(c) => Configured(d)

\* Contracts are added and written to, never removed.
Grows(made, after) ==
    \A a \in DOMAIN made : a \in DOMAIN after /\ Keeps(made[a], after[a])

\* What a stage that succeeded has left behind.
LeftBy(stage, c) ==
    /\ stage \in Lasting => stage \in c.done
    /\ stage = "scheduleRiskConfig" => Configured(c)

TxSound(made, tx) ==
    IF Creates(tx.stage) = "none"
    THEN /\ tx.to \in DOMAIN made /\ made[tx.to].kind = WritesTo(tx.stage)
         /\ tx.status = "success" => LeftBy(tx.stage, made[tx.to])
    ELSE IF tx.status = "success"
    THEN /\ tx.to \in DOMAIN made /\ made[tx.to].kind = Creates(tx.stage)
         /\ made[tx.to].on = tx.on
    ELSE tx.to = 0

-----------------------------------------------------------------------------
(* The journal, and what a run has printed: m is either of them, sent the   *)
(* transactions, p the profile.                                             *)

Creator ==
    [moduleFactory |-> "deployModuleFactory", assetRegistry |-> "deployAssetRegistry",
     valuationOracle |-> "deployValuationOracle", riskManager |-> "deployRiskManager",
     repoMarket |-> "deployRepoMarket", marginEngine |-> "deployMarginEngine"]

Modules == SharedKinds \cup {"riskManager"}
IsShared(p, kind) == p = "hackathon" /\ kind \in SharedKinds

\* The address of a kind, once the stage that creates it succeeded.
AddressIn(p, sent, m, kind) ==
    IF IsShared(p, kind) THEN SharedAt[kind] ELSE sent[m[Creator[kind]]].to
Known(p, sent, m, kind) ==
    IsShared(p, kind) \/ (Creator[kind] \in DOMAIN m /\ sent[m[Creator[kind]]].status = "success")

\* The hash of a stage is of its own transaction, sent to the addresses the map knows.
EntrySound(p, sent, m, s) ==
    /\ m[s] \in DOMAIN sent /\ sent[m[s]].stage = s
    /\ Creates(s) \in Engines =>
          /\ \A kind \in Modules : Known(p, sent, m, kind)
          /\ sent[m[s]].on = {AddressIn(p, sent, m, kind) : kind \in Modules}
    /\ Creates(s) = "none" =>
          /\ Known(p, sent, m, WritesTo(s))
          /\ sent[m[s]].to = AddressIn(p, sent, m, WritesTo(s))
JournalSound(p, sent, m) == \A s \in DOMAIN m : EntrySound(p, sent, m, s)

\* A run has printed the stages behind it, all successful, and the one it waits for.
Deploying ==
    /\ ~manifest.written
    /\ JournalSound(profile, txs, script.printed)
    /\ \A s \in DOMAIN journal \cap DOMAIN script.printed : script.printed[s] = journal[s]
    /\ \A i \in DOMAIN DeployStages : i < script.at =>
          /\ DeployStages[i] \in DOMAIN script.printed
          /\ txs[script.printed[DeployStages[i]]].status = "success"
    /\ \A s \in DOMAIN script.printed : \E i \in DOMAIN DeployStages :
          s = DeployStages[i] /\ (i < script.at \/ (i = script.at /\ script.hash # 0))
    /\ script.hash # 0 =>
          /\ script.at \in DOMAIN DeployStages
          /\ DeployStages[script.at] \in DOMAIN script.printed
          /\ script.printed[DeployStages[script.at]] = script.hash

ScriptSound ==
    /\ script.name \in {"none", "deploy"} \cup Ceremonies
    /\ script.at \in Nat /\ script.hash \in Nat
    /\ script.name # "none" => script.at > 0
    /\ script.name = "deploy" => Deploying
    /\ script.name \in Ceremonies => manifest.written

SharedThere ==
    profile = "hackathon" => \A kind \in SharedKinds :
        SharedAt[kind] \in DOMAIN contracts /\ contracts[SharedAt[kind]].kind = kind

\* What a manifest with these addresses would say of the contracts.
Coherent(address, made) ==
    /\ \A kind \in Kinds : address[kind] \in DOMAIN made /\ made[address[kind]].kind = kind
    /\ \A engine \in Engines :
          /\ made[address[engine]].on = {address[kind] : kind \in Modules}
          /\ GuardianStage(engine) \in made[address[engine]].done
    /\ "configureMarketAsset" \in made[address["repoMarket"]].done
    /\ Configured(made[address["riskManager"]])

\* The journal is gone with the deployment it was kept for.
ManifestSound ==
    manifest.written => journal = <<>> /\ Coherent(manifest.address, contracts)

-----------------------------------------------------------------------------
(* What has been proved of an engine before it is made ready.               *)

PoolAndCustodies(kind) ==
    IF kind = "repoMarket" THEN {"marketPolicyPool", "marketVault", "marketSettlementEscrow"}
    ELSE {"marginPolicyPool", "marginVault", "marginSettlementEscrow"}

Proven(address, made, kind) ==
    /\ made[address[kind]].owner = "final"
    /\ PoolAndCustodies(kind) \subseteq made[address[kind]].done
    /\ "applyRiskConfig" \in made[address["riskManager"]].done
    /\ "publishInitialValuation" \in made[address["valuationOracle"]].done

MayOpen(kind) == manifest.written /\ Proven(manifest.address, contracts, kind)

Opening ==
    /\ script.name = "window" => MayOpen("repoMarket")
    /\ script.name = "marginWindow" => MayOpen("marginEngine")
    /\ \A a \in DOMAIN contracts, kind \in Engines : ReadyStage(kind) \in contracts[a].done =>
          MayOpen(kind) /\ a = manifest.address[kind]

\* The transactions are sound, and those that make an engine ready were sent for good reason.
SentWell(sent) ==
    /\ sent \in Seq(Transactions)
    /\ PendingLast(sent)
    /\ \A hash \in DOMAIN sent : TxSound(contracts, sent[hash])
    /\ \A hash \in DOMAIN sent, kind \in Engines : sent[hash].stage = ReadyStage(kind) =>
          MayOpen(kind) /\ sent[hash].to = manifest.address[kind]

DInv ==
    /\ DeploymentTypeOK
    /\ SentWell(txs)
    /\ SharedThere
    /\ ScriptSound
    /\ JournalSound(profile, txs, journal)
    /\ ManifestSound
    /\ Opening

-----------------------------------------------------------------------------
(* The stages.                                                              *)

\* A stage that creates a contract is the one creator of its kind.
LEMMA CreatorOf ==
    ASSUME NEW s
    PROVE  /\ Creates(s) \in Kinds \cup {"none"}
           /\ WritesTo(s) \in Kinds
           /\ \A kind \in Kinds : Creates(s) = kind <=> s = Creator[kind]
<1>1. Creates(s) \in Kinds \cup {"none"}
  BY DEF Creates, Kinds
<1>2. WritesTo(s) \in Kinds
  BY DEF WritesTo, Kinds
<1>3. ASSUME NEW kind \in Kinds PROVE Creates(s) = kind <=> s = Creator[kind]
  BY <1>3 DEF Creates, Creator, Kinds
<1> QED BY <1>1, <1>2, <1>3

\* A stage of the deployment comes after the stages that create what it is given or writes to,
\* or finds it in place; no stage comes twice.
LEMMA StagesInOrder ==
    ASSUME profile \in {"standard", "hackathon"}
    PROVE  /\ DOMAIN DeployStages = 1..Len(DeployStages) /\ Len(DeployStages) \in Nat
           /\ \A i \in DOMAIN DeployStages : DeployStages[i] \in StageNames
           /\ \A i, j \in DOMAIN DeployStages : DeployStages[i] = DeployStages[j] => i = j
           /\ \A i \in DOMAIN DeployStages, kind \in Kinds :
                 \/ Creates(DeployStages[i]) \in Engines /\ kind \in Modules
                 \/ Creates(DeployStages[i]) = "none" /\ kind = WritesTo(DeployStages[i])
                 => \/ IsShared(profile, kind)
                    \/ \E j \in DOMAIN DeployStages : j < i /\ DeployStages[j] = Creator[kind]
           /\ \A kind \in Kinds : IsShared(profile, kind) \/
                 \E j \in DOMAIN DeployStages : DeployStages[j] = Creator[kind]
<1>1. CASE profile = "standard"
  <2>1. DOMAIN DeployStages = 1..18 /\ Len(DeployStages) = 18
    BY <1>1 DEF DeployStages
  <2>6. \A i \in DOMAIN DeployStages : DeployStages[i] \in StageNames
    BY <1>1, <2>1 DEF DeployStages, StageNames, Transfers
  <2>2. \A i, j \in DOMAIN DeployStages : DeployStages[i] = DeployStages[j] => i = j
    BY <1>1, <2>1 DEF DeployStages
  <2>3. ASSUME NEW i \in DOMAIN DeployStages, NEW kind \in Modules,
               Creates(DeployStages[i]) \in Engines
        PROVE  \E j \in DOMAIN DeployStages : j < i /\ DeployStages[j] = Creator[kind]
    BY <1>1, <2>1, <2>3 DEF DeployStages, Creates, Creator, Engines, Modules, SharedKinds
  <2>4. ASSUME NEW i \in DOMAIN DeployStages, Creates(DeployStages[i]) = "none"
        PROVE  \E j \in DOMAIN DeployStages :
                  j < i /\ DeployStages[j] = Creator[WritesTo(DeployStages[i])]
    BY <1>1, <2>1, <2>4 DEF DeployStages, Creates, Creator, WritesTo
  <2>5. ASSUME NEW kind \in Kinds
        PROVE  \E j \in DOMAIN DeployStages : DeployStages[j] = Creator[kind]
    BY <1>1, <2>1, <2>5 DEF DeployStages, Creator, Kinds
  <2> QED BY <2>1, <2>2, <2>3, <2>4, <2>5, <2>6
<1>2. CASE profile = "hackathon"
  <2>1. DOMAIN DeployStages = 1..13 /\ Len(DeployStages) = 13
    BY <1>2 DEF DeployStages
  <2>6. \A i \in DOMAIN DeployStages : DeployStages[i] \in StageNames
    BY <1>2, <2>1 DEF DeployStages, StageNames, Transfers
  <2>2. \A i, j \in DOMAIN DeployStages : DeployStages[i] = DeployStages[j] => i = j
    BY <1>2, <2>1 DEF DeployStages
  <2>3. ASSUME NEW i \in DOMAIN DeployStages, NEW kind \in Modules,
               Creates(DeployStages[i]) \in Engines
        PROVE  \/ IsShared(profile, kind)
               \/ \E j \in DOMAIN DeployStages : j < i /\ DeployStages[j] = Creator[kind]
    BY <1>2, <2>1, <2>3
       DEF DeployStages, Creates, Creator, Engines, Modules, SharedKinds, IsShared
  <2>4. ASSUME NEW i \in DOMAIN DeployStages, Creates(DeployStages[i]) = "none"
        PROVE  \E j \in DOMAIN DeployStages :
                  j < i /\ DeployStages[j] = Creator[WritesTo(DeployStages[i])]
    BY <1>2, <2>1, <2>4 DEF DeployStages, Creates, Creator, WritesTo
  <2>5. ASSUME NEW kind \in Kinds
        PROVE  \/ IsShared(profile, kind)
               \/ \E j \in DOMAIN DeployStages : DeployStages[j] = Creator[kind]
    BY <1>2, <2>1, <2>5 DEF DeployStages, Creator, Kinds, IsShared, SharedKinds
  <2> QED BY <2>1, <2>2, <2>3, <2>4, <2>5, <2>6
<1> QED BY <1>1, <1>2

\* The stages the manifest's coherence rests on are stages of every deployment.
LEMMA StagesOfCoherence ==
    ASSUME profile \in {"standard", "hackathon"}
    PROVE  \A s \in {"setMarketPauseGuardian", "setMarginPauseGuardian",
                     "configureMarketAsset", "scheduleRiskConfig"} :
              \E i \in DOMAIN DeployStages : DeployStages[i] = s
<1>1. CASE profile = "standard"
  <2>1. DOMAIN DeployStages = 1..18
    BY <1>1 DEF DeployStages
  <2> QED BY <1>1, <2>1 DEF DeployStages
<1>2. CASE profile = "hackathon"
  <2>1. DOMAIN DeployStages = 1..13
    BY <1>2 DEF DeployStages
  <2> QED BY <1>2, <2>1 DEF DeployStages
<1> QED BY <1>1, <1>2

\* A ceremony creates nothing, and only a smoke window makes an engine ready.
LEMMA StagesOfCeremonies ==
    ASSUME profile \in {"standard", "hackathon"},
           NEW name \in {"deploy"} \cup Ceremonies
    PROVE  /\ DOMAIN Stages(name) = 1..Len(Stages(name)) /\ Len(Stages(name)) \in Nat
           /\ \A i \in DOMAIN Stages(name) :
                 /\ Stages(name)[i] \in StageNames
                 /\ name # "deploy" => Creates(Stages(name)[i]) = "none"
                 /\ Stages(name)[i] = ReadyStage("repoMarket") => name = "window"
                 /\ Stages(name)[i] = ReadyStage("marginEngine") => name = "marginWindow"
<1>1. CASE name = "deploy"
  <2>1. Stages(name) = DeployStages
    BY <1>1 DEF Stages
  <2>2. ASSUME NEW i \in DOMAIN DeployStages
        PROVE  DeployStages[i] \notin {"marketAssetVaultReady", "marginCustodyReady"}
    <3>1. CASE profile = "standard"
      <4>1. DOMAIN DeployStages = 1..18
        BY <3>1 DEF DeployStages
      <4> QED BY <3>1, <4>1 DEF DeployStages
    <3>2. CASE profile = "hackathon"
      <4>1. DOMAIN DeployStages = 1..13
        BY <3>2 DEF DeployStages
      <4> QED BY <3>2, <4>1 DEF DeployStages
    <3> QED BY <3>1, <3>2
  <2> QED BY <1>1, <2>1, <2>2, StagesInOrder DEF ReadyStage
<1>2. CASE name = "cleanverse"
  <2>1. Stages(name) = CleanverseStages
    BY <1>2 DEF Stages
  <2>2. DOMAIN CleanverseStages = 1..7 /\ Len(CleanverseStages) = 7
    BY DEF CleanverseStages
  <2>3. \A i \in 1..7 : CleanverseStages[i] \in StageNames
    BY DEF CleanverseStages, StageNames, Custodies
  <2>4. \A i \in 1..7 : /\ Creates(CleanverseStages[i]) = "none"
                        /\ CleanverseStages[i] # ReadyStage("repoMarket")
                        /\ CleanverseStages[i] # ReadyStage("marginEngine")
    BY DEF CleanverseStages, Creates, ReadyStage
  <2> QED BY <2>1, <2>2, <2>3, <2>4
<1>3. CASE name = "finalize"
  <2>1. Stages(name) = FinalizeStages
    BY <1>3 DEF Stages
  <2>2. DOMAIN FinalizeStages = 1..8 /\ Len(FinalizeStages) = 8
    BY DEF FinalizeStages
  <2>3. \A i \in 1..8 : FinalizeStages[i] \in StageNames
    BY DEF FinalizeStages, StageNames, Transfers, Accepts
  <2>4. \A i \in 1..8 : /\ Creates(FinalizeStages[i]) = "none"
                        /\ FinalizeStages[i] # ReadyStage("repoMarket")
                        /\ FinalizeStages[i] # ReadyStage("marginEngine")
    BY DEF FinalizeStages, Creates, ReadyStage
  <2> QED BY <2>1, <2>2, <2>3, <2>4
<1>4. CASE name = "oracle"
  <2>1. Stages(name) = OracleStages
    BY <1>4 DEF Stages
  <2> QED BY <1>4, <2>1 DEF OracleStages, Creates, ReadyStage, StageNames
<1>5. CASE name = "window"
  <2>1. Stages(name) = WindowStages
    BY <1>5 DEF Stages
  <2> QED BY <1>5, <2>1 DEF WindowStages, Creates, ReadyStage, StageNames
<1>6. CASE name = "marginWindow"
  <2>1. Stages(name) = MarginWindowStages
    BY <1>6 DEF Stages
  <2> QED BY <1>6, <2>1 DEF MarginWindowStages, Creates, ReadyStage, StageNames
<1> QED BY <1>1, <1>2, <1>3, <1>4, <1>5, <1>6 DEF Ceremonies

-----------------------------------------------------------------------------
(* Contracts and transactions.                                              *)

\* A write leaves its mark, takes away nothing that lasts, and readies nothing but by its name.
LEMMA WrittenKeeps ==
    ASSUME NEW c \in ContractRecords, NEW stage \in StageNames,
           NEW sender \in Owners \cup {"guardian"},
           stage \in Accepts => c.pendingOwner = sender
    PROVE  LET d == Written(stage, c, sender)
           IN /\ d \in ContractRecords
              /\ Keeps(c, d)
              /\ LeftBy(stage, d)
              /\ \A kind \in Engines : ReadyStage(kind) \in d.done =>
                    ReadyStage(kind) \in c.done \/ stage = ReadyStage(kind)
<1> DEFINE d == Written(stage, c, sender)
<1>0. /\ c.kind \in Kinds /\ c.on \in SUBSET Nat /\ c.owner \in Owners
      /\ c.pendingOwner \in {"none", "final"} /\ c.done \subseteq StageNames \cup {"matured"}
      /\ c = [kind |-> c.kind, on |-> c.on, owner |-> c.owner,
              pendingOwner |-> c.pendingOwner, done |-> c.done]
  BY DEF ContractRecords
<1>1. CASE stage \in Transfers
  <2>0. stage \notin Accepts /\ stage # "scheduleRiskConfig"
    BY <1>1 DEF Transfers, Accepts
  <2>1. d = [kind |-> c.kind, on |-> c.on, owner |-> c.owner,
             pendingOwner |-> "final", done |-> c.done]
    <3>1. d = [c EXCEPT !.pendingOwner = "final"]
      BY <1>1, <2>0 DEF Written
    <3> QED BY <3>1, <1>0
  <2>2. stage \notin Lasting /\ stage # "scheduleRiskConfig"
    BY <1>1 DEF Transfers, Lasting
  <2>3. d \in ContractRecords
    BY <2>1, <1>0 DEF ContractRecords
  <2> QED BY <2>1, <2>2, <2>3 DEF Keeps, LeftBy, Configured
<1>2. CASE stage \in Accepts
  <2>1. stage \notin Transfers /\ stage # "scheduleRiskConfig"
    BY <1>2 DEF Transfers, Accepts
  <2>2. d = [kind |-> c.kind, on |-> c.on, owner |-> sender,
             pendingOwner |-> "none", done |-> c.done]
    <3>1. d = [c EXCEPT !.owner = sender, !.pendingOwner = "none"]
      BY <1>2, <2>1 DEF Written
    <3> QED BY <3>1, <1>0
  <2>3. stage \notin Lasting /\ stage # "scheduleRiskConfig"
    BY <1>2 DEF Accepts, Lasting
  <2>4. sender = "final"
    BY <1>0, <1>2 DEF Owners
  <2>5. d \in ContractRecords
    BY <2>2, <2>4, <1>0 DEF ContractRecords, Owners
  <2> QED BY <2>2, <2>3, <2>4, <2>5 DEF Keeps, LeftBy, Configured
<1>3. CASE stage \notin Transfers \cup Accepts
  <2>1. PICK done : /\ d = [kind |-> c.kind, on |-> c.on, owner |-> c.owner,
                            pendingOwner |-> c.pendingOwner, done |-> done]
                    /\ \/ done = c.done \cup {stage, "matured"} /\ stage = "scheduleRiskConfig"
                       \/ done = (c.done \ Undoes(stage)) \cup {stage}
    BY <1>0, <1>3 DEF Written
  <2>2. Undoes(stage) \cap Lasting = {}
    BY DEF Undoes, Lasting
  <2>3. "scheduleRiskConfig" \in Undoes(stage) => stage = "applyRiskConfig"
    BY DEF Undoes
  <2>4. "applyRiskConfig" \in Lasting
    BY DEF Lasting
  <2>5. c.done \cap Lasting \subseteq done /\ stage \in done
    BY <2>1, <2>2
  <2>6. Configured(c) => Configured(d)
    <3>1. {"scheduleRiskConfig", "applyRiskConfig"} \cap c.done # {} =>
             {"scheduleRiskConfig", "applyRiskConfig"} \cap done # {}
      BY <2>1, <2>3, <2>4, <2>5
    <3> QED BY <3>1, <2>1 DEF Configured
  <2>7. LeftBy(stage, d)
    BY <2>1, <2>5 DEF LeftBy, Configured
  <2>8. d \in ContractRecords
    BY <2>1, <1>0 DEF ContractRecords
  <2>9. \A kind \in Engines : ReadyStage(kind) \in d.done =>
           ReadyStage(kind) \in c.done \/ stage = ReadyStage(kind)
    BY <2>1 DEF ReadyStage
  <2>10. Keeps(c, d)
    BY <2>1, <2>5, <2>6 DEF Keeps
  <2> QED BY <2>7, <2>8, <2>9, <2>10
<1> QED BY <1>1, <1>2, <1>3

\* What the proofs rely on outlives every write.
LEMMA GrowthKeeps ==
    ASSUME NEW made, NEW after, Grows(made, after)
    PROVE  /\ \A tx : TxSound(made, tx) => TxSound(after, tx)
           /\ \A address : Coherent(address, made) => Coherent(address, after)
           /\ \A address, kind : Coherent(address, made) /\ Proven(address, made, kind)
                 /\ kind \in Engines => Proven(address, after, kind)
<1>1. ASSUME NEW tx, TxSound(made, tx) PROVE TxSound(after, tx)
  <2>1. \A stage, c, d : Keeps(c, d) /\ LeftBy(stage, c) => LeftBy(stage, d)
    BY DEF Keeps, LeftBy
  <2> QED BY <1>1, <2>1 DEF TxSound, Grows, Keeps
<1>2. ASSUME NEW address, Coherent(address, made) PROVE Coherent(address, after)
  <2>1. \A kind \in Kinds : /\ address[kind] \in DOMAIN made
                            /\ Keeps(made[address[kind]], after[address[kind]])
                            /\ address[kind] \in DOMAIN after
    BY <1>2 DEF Coherent, Grows
  <2>2. Engines \subseteq Kinds /\ "riskManager" \in Kinds /\ "repoMarket" \in Kinds
    BY DEF Engines, Kinds
  <2>3. \A kind \in Engines : GuardianStage(kind) \in Lasting
    BY DEF Engines, GuardianStage, Lasting
  <2>4. "configureMarketAsset" \in Lasting
    BY DEF Lasting
  <2> QED BY <1>2, <2>1, <2>2, <2>3, <2>4 DEF Coherent, Keeps
<1>3. ASSUME NEW address, NEW kind \in Engines,
             Coherent(address, made), Proven(address, made, kind)
      PROVE  Proven(address, after, kind)
  <2>1. \A k \in Kinds : /\ address[k] \in DOMAIN made
                         /\ Keeps(made[address[k]], after[address[k]])
    BY <1>3 DEF Coherent, Grows
  <2>2. kind \in Kinds /\ "riskManager" \in Kinds /\ "valuationOracle" \in Kinds
    BY DEF Engines, Kinds
  <2>3. PoolAndCustodies(kind) \subseteq Lasting
    BY DEF PoolAndCustodies, Lasting
  <2>4. "applyRiskConfig" \in Lasting /\ "publishInitialValuation" \in Lasting
    BY DEF Lasting
  <2> QED BY <1>3, <2>1, <2>2, <2>3, <2>4 DEF Proven, Keeps
<1> QED BY <1>1, <1>2, <1>3

\* Transactions are added and included, with what they say unchanged.
Follows(sent, later) ==
    \A hash \in DOMAIN sent :
        /\ hash \in DOMAIN later
        /\ later[hash].stage = sent[hash].stage /\ later[hash].on = sent[hash].on
        /\ sent[hash].status = "success" => later[hash] = sent[hash]
        /\ Creates(sent[hash].stage) = "none" => later[hash].to = sent[hash].to

\* So a sound journal stays sound.
LEMMA JournalFollows ==
    ASSUME NEW p, NEW sent, NEW later, Follows(sent, later),
           NEW m, JournalSound(p, sent, m)
    PROVE  JournalSound(p, later, m)
<1>1. ASSUME NEW kind, Known(p, sent, m, kind)
      PROVE  /\ Known(p, later, m, kind)
             /\ AddressIn(p, later, m, kind) = AddressIn(p, sent, m, kind)
  BY <1>1 DEF Known, AddressIn, Follows, JournalSound, EntrySound
<1>2. ASSUME NEW s \in DOMAIN m
      PROVE  EntrySound(p, later, m, s)
  <2>1. EntrySound(p, sent, m, s)
    BY DEF JournalSound
  <2>2. m[s] \in DOMAIN later /\ later[m[s]].stage = s /\ later[m[s]].on = sent[m[s]].on
    BY <2>1 DEF EntrySound, Follows
  <2>3. CASE Creates(s) = "none"
    <3>1. later[m[s]].to = sent[m[s]].to
      BY <2>1, <2>3 DEF EntrySound, Follows
    <3>2. Creates(s) \notin Engines
      BY <2>3 DEF Engines
    <3> QED BY <2>1, <2>2, <2>3, <3>1, <3>2, <1>1 DEF EntrySound
  <2>4. CASE Creates(s) \in Engines
    <3>1. {AddressIn(p, later, m, kind) : kind \in Modules}
             = {AddressIn(p, sent, m, kind) : kind \in Modules}
      BY <2>1, <2>4, <1>1 DEF EntrySound
    <3>2. Creates(s) # "none"
      BY <2>4 DEF Engines
    <3> QED BY <2>1, <2>2, <2>4, <3>1, <3>2, <1>1 DEF EntrySound
  <2>5. CASE Creates(s) # "none" /\ Creates(s) \notin Engines
    BY <2>1, <2>2, <2>5 DEF EntrySound
  <2> QED BY <2>3, <2>4, <2>5
<1> QED BY <1>2 DEF JournalSound

\* One more entry leaves the others sound.
LEMMA EntryStays ==
    ASSUME NEW p, NEW sent, NEW m, NEW n, NEW s, EntrySound(p, sent, m, s), s \in DOMAIN m,
           \A t \in DOMAIN m : t \in DOMAIN n /\ n[t] = m[t]
    PROVE  EntrySound(p, sent, n, s)
<1>1. ASSUME NEW kind, Known(p, sent, m, kind)
      PROVE  /\ Known(p, sent, n, kind)
             /\ AddressIn(p, sent, n, kind) = AddressIn(p, sent, m, kind)
  BY <1>1 DEF Known, AddressIn
<1>2. Creates(s) \in Engines =>
         {AddressIn(p, sent, n, kind) : kind \in Modules}
             = {AddressIn(p, sent, m, kind) : kind \in Modules}
  BY <1>1 DEF EntrySound
<1> QED BY <1>1, <1>2 DEF EntrySound

-----------------------------------------------------------------------------
(* The chain moves under the scripts.                                       *)

LEMMA EnginesAreKinds == Engines \subseteq Kinds
BY DEF Engines, Kinds

\* Inclusions, delays and pauses change the contracts and the fate of what was sent.
LEMMA ChainStep ==
    ASSUME DInv, UNCHANGED <<profile, journal, manifest, script>>,
           contracts' \in Seq(ContractRecords), Grows(contracts, contracts'),
           txs' \in Seq(Transactions), PendingLast(txs'), Follows(txs, txs'),
           DOMAIN txs' = DOMAIN txs,
           \A hash \in DOMAIN txs : TxSound(contracts', txs'[hash]),
           \A a \in DOMAIN contracts', kind \in Engines :
              ReadyStage(kind) \in contracts'[a].done =>
                 \/ a \in DOMAIN contracts /\ ReadyStage(kind) \in contracts[a].done
                 \/ \E hash \in DOMAIN txs :
                       txs[hash].stage = ReadyStage(kind) /\ txs[hash].to = a
    PROVE  DInv'
<1>1. DeploymentTypeOK'
  BY DEF DInv, DeploymentTypeOK
<1>2. PICK made, later : made = contracts' /\ later = txs'
  OBVIOUS
<1>3. Grows(contracts, made) /\ Follows(txs, later)
  BY <1>2
<1>4. \A kind \in Engines : MayOpen(kind) => MayOpen(kind)'
  <2>1. ASSUME NEW kind \in Engines, MayOpen(kind) PROVE MayOpen(kind)'
    <3>1. Proven(manifest.address, made, kind)
      BY <2>1, <1>3, GrowthKeeps DEF DInv, ManifestSound, MayOpen
    <3> QED BY <3>1, <2>1, <1>2 DEF MayOpen
  <2> QED BY <2>1
<1>5. SentWell(txs)'
  <2>1. \A hash \in DOMAIN txs, kind \in Engines : txs'[hash].stage = ReadyStage(kind) =>
           MayOpen(kind) /\ txs'[hash].to = manifest.address[kind]
    <3>1. \A kind \in Engines : Creates(ReadyStage(kind)) = "none"
      BY DEF Engines, ReadyStage, Creates
    <3> QED BY <3>1 DEF DInv, SentWell, Follows
  <2> QED BY <2>1, <1>4 DEF SentWell
<1>6. SharedThere'
  BY DEF DInv, SharedThere, Grows, Keeps
<1>7. \A m : JournalSound(profile, txs, m) => JournalSound(profile, later, m)
  BY <1>3, JournalFollows
<1>8. JournalSound(profile, txs, journal)'
  <2>1. JournalSound(profile, later, journal)
    BY <1>7 DEF DInv
  <2> QED BY <2>1, <1>2
<1>9. ScriptSound'
  <2>1. script.name = "deploy" => Deploying'
    <3> SUFFICES ASSUME script.name = "deploy" PROVE Deploying'
      OBVIOUS
    <3>1. Deploying
      BY DEF DInv, ScriptSound
    <3>2. JournalSound(profile, txs, script.printed)'
      <4>1. JournalSound(profile, later, script.printed)
        BY <3>1, <1>7 DEF Deploying
      <4> QED BY <4>1, <1>2
    <3>3. DeployStages' = DeployStages
      BY DEF DeployStages
    <3>4. \A s \in DOMAIN script.printed : script.printed[s] \in DOMAIN txs
      BY <3>1 DEF Deploying, JournalSound, EntrySound
    <3>5. \A i \in DOMAIN DeployStages : i < script.at =>
             txs'[script.printed[DeployStages[i]]].status = "success"
      BY <3>1, <3>4 DEF Deploying, Follows
    <3> QED BY <3>1, <3>2, <3>3, <3>5 DEF Deploying
  <2> QED BY <2>1 DEF DInv, ScriptSound
<1>10. ManifestSound'
  <2> SUFFICES ASSUME manifest.written PROVE ManifestSound'
    BY DEF ManifestSound
  <2>1. Coherent(manifest.address, made)
    BY <1>3, GrowthKeeps DEF DInv, ManifestSound
  <2> QED BY <2>1, <1>2 DEF DInv, ManifestSound
<1>11. Opening'
  <2>1. "repoMarket" \in Engines /\ "marginEngine" \in Engines
    BY DEF Engines
  <2>2. \A a \in DOMAIN contracts', kind \in Engines :
           ReadyStage(kind) \in contracts'[a].done => MayOpen(kind) /\ a = manifest.address[kind]
    BY DEF DInv, Opening, SentWell
  <2> QED BY <2>1, <2>2, <1>4 DEF DInv, Opening
<1> QED BY <1>1, <1>5, <1>6, <1>8, <1>9, <1>10, <1>11 DEF DInv

LEMMA MineStep == ASSUME DInv, Mine PROVE DInv'
<1>1. PICK hash \in DOMAIN txs :
         /\ txs[hash].status = "pending"
         /\ \A earlier \in 1..(hash - 1) : txs[earlier].status # "pending"
         /\ LET tx == txs[hash]
                to == IF tx.to = 0 THEN Len(contracts) + 1 ELSE tx.to
            IN IF Passes(tx)
               THEN /\ contracts' =
                         IF tx.to = 0
                         THEN Append(contracts, Contract(Creates(tx.stage), tx.on,
                                  IF tx.stage = "deployModuleFactory"
                                  THEN "activation" ELSE tx.sender))
                         ELSE [contracts EXCEPT ![to] = Written(tx.stage, @, tx.sender)]
                    /\ txs' = [txs EXCEPT ![hash].status = "success", ![hash].to = to]
               ELSE /\ txs' = [txs EXCEPT ![hash].status = "reverted"]
                    /\ UNCHANGED contracts
  BY DEF Mine
<1>2. UNCHANGED <<profile, journal, manifest, script>>
  BY DEF Mine
<1> DEFINE tx == txs[hash]
<1>3. /\ contracts \in Seq(ContractRecords) /\ txs \in Seq(Transactions)
      /\ tx \in Transactions /\ TxSound(contracts, tx)
      /\ \A h \in DOMAIN txs : TxSound(contracts, txs[h])
  BY <1>1 DEF DInv, DeploymentTypeOK, SentWell
<1>4. /\ tx = [stage |-> tx.stage, sender |-> tx.sender, status |-> tx.status,
               to |-> tx.to, on |-> tx.on]
      /\ tx.stage \in StageNames /\ tx.sender \in Owners /\ tx.to \in Nat /\ tx.on \in SUBSET Nat
  BY <1>3 DEF Transactions
<1>5. PICK n \in 0..Len(txs) : \A h \in DOMAIN txs : txs[h].status = "pending" <=> h > n
  BY DEF DInv, SentWell, PendingLast
<1>6. ASSUME NEW status \in {"success", "reverted"}, NEW to \in Nat,
             txs' = [txs EXCEPT ![hash] = [stage |-> tx.stage, sender |-> tx.sender,
                                           status |-> status, to |-> to, on |-> tx.on]]
      PROVE  /\ txs' \in Seq(Transactions) /\ DOMAIN txs' = DOMAIN txs
             /\ PendingLast(txs')
  <2>1. txs' \in Seq(Transactions) /\ DOMAIN txs' = DOMAIN txs /\ Len(txs') = Len(txs)
    BY <1>3, <1>4, <1>6 DEF Transactions
  <2>2. hash = n + 1
    <3>1. hash > n
      BY <1>1, <1>5
    <3>2. n + 1 \in DOMAIN txs
      BY <1>3, <3>1
    <3>3. txs[n + 1].status = "pending"
      BY <1>5, <3>2
    <3> QED BY <1>1, <1>3, <3>1, <3>3
  <2>3. \A h \in DOMAIN txs' : txs'[h].status = "pending" <=> h > n + 1
    BY <1>3, <1>5, <1>6, <2>1, <2>2
  <2>4. n + 1 \in 0..Len(txs')
    BY <1>1, <1>3, <2>1, <2>2
  <2> QED BY <2>1, <2>3, <2>4 DEF PendingLast
<1>7. CASE Passes(tx) /\ tx.to = 0
  <2> DEFINE owner == IF tx.stage = "deployModuleFactory" THEN "activation" ELSE tx.sender
             new == Contract(Creates(tx.stage), tx.on, owner)
             to == Len(contracts) + 1
  <2>1. /\ contracts' = Append(contracts, new)
        /\ txs' = [txs EXCEPT ![hash].status = "success", ![hash].to = to]
    BY <1>1, <1>7
  <2>2. txs' = [txs EXCEPT ![hash] = [stage |-> tx.stage, sender |-> tx.sender,
                                      status |-> "success", to |-> to, on |-> tx.on]]
    BY <2>1, <1>1, <1>3, <1>4
  <2>3. Creates(tx.stage) \in Kinds
    BY <1>3, <1>7, CreatorOf DEF TxSound
  <2>4. new \in ContractRecords /\ new.kind = Creates(tx.stage) /\ new.on = tx.on /\ new.done = {}
    BY <1>4, <2>3 DEF Contract, ContractRecords, Owners
  <2>5. /\ contracts' \in Seq(ContractRecords)
        /\ \A a \in DOMAIN contracts : a \in DOMAIN contracts' /\ contracts'[a] = contracts[a]
        /\ \A a \in DOMAIN contracts' : a \in DOMAIN contracts \/ contracts'[a] = new
        /\ to \in DOMAIN contracts' /\ contracts'[to] = new
    BY <2>1, <2>4, <1>3
  <2>6. Grows(contracts, contracts')
    BY <2>5 DEF Grows, Keeps
  <2>7. Follows(txs, txs')
    BY <1>1, <1>3, <2>2, <2>3, CreatorOf DEF Follows, Kinds
  <2>8. ASSUME NEW h \in DOMAIN txs PROVE TxSound(contracts', txs'[h])
    <3>1. CASE h = hash
      <4>1. txs'[h] = [stage |-> tx.stage, sender |-> tx.sender,
                       status |-> "success", to |-> to, on |-> tx.on]
        BY <2>2, <3>1, <1>3
      <4> QED BY <4>1, <2>3, <2>4, <2>5 DEF TxSound, Kinds
    <3>2. CASE h # hash
      <4>1. txs'[h] = txs[h]
        BY <2>2, <3>2, <1>3
      <4> QED BY <4>1, <1>3, <2>6, GrowthKeeps
    <3> QED BY <3>1, <3>2
  <2>9. txs' \in Seq(Transactions) /\ DOMAIN txs' = DOMAIN txs /\ PendingLast(txs')
    <3>1. to \in Nat
      BY <1>3
    <3> QED BY <3>1, <1>6, <2>2
  <2> QED BY <1>2, <2>4, <2>5, <2>6, <2>7, <2>8, <2>9, ChainStep
<1>8. CASE Passes(tx) /\ tx.to # 0
  <2> DEFINE c == contracts[tx.to]
             d == Written(tx.stage, c, tx.sender)
  <2>1. /\ contracts' = [contracts EXCEPT ![tx.to] = d]
        /\ txs' = [txs EXCEPT ![hash].status = "success", ![hash].to = tx.to]
    BY <1>1, <1>8
  <2>2. txs' = [txs EXCEPT ![hash] = [stage |-> tx.stage, sender |-> tx.sender,
                                      status |-> "success", to |-> tx.to, on |-> tx.on]]
    BY <2>1, <1>1, <1>3, <1>4
  <2>3. Creates(tx.stage) = "none" /\ tx.to \in DOMAIN contracts /\ c.kind = WritesTo(tx.stage)
    BY <1>1, <1>3, <1>8 DEF TxSound
  <2>4. tx.stage \in Accepts => c.pendingOwner = tx.sender
    <3>1. tx.stage \in Accepts =>
             /\ tx.stage \notin Custodies
             /\ tx.stage \notin {"publishInitialValuation", "configureMarketAsset",
                    "marketPolicyPool", "marginPolicyPool", "applyRiskConfig",
                    "marketAssetVaultReady"}
      BY DEF Accepts, Custodies
    <3>2. Accepted(tx.stage, c, tx.sender)
      BY <1>8 DEF Passes
    <3> QED BY <3>1, <3>2 DEF Accepted
  <2>5. c \in ContractRecords
    BY <1>3, <2>3
  <2>6. /\ d \in ContractRecords /\ Keeps(c, d) /\ LeftBy(tx.stage, d)
        /\ \A kind \in Engines : ReadyStage(kind) \in d.done =>
              ReadyStage(kind) \in c.done \/ tx.stage = ReadyStage(kind)
    BY <1>4, <2>4, <2>5, WrittenKeeps
  <2>7. /\ contracts' \in Seq(ContractRecords) /\ DOMAIN contracts' = DOMAIN contracts
        /\ \A a \in DOMAIN contracts : contracts'[a] = IF a = tx.to THEN d ELSE contracts[a]
    <3> HIDE DEF d
    <3> QED BY <1>3, <2>1, <2>3, <2>6
  <2>8. Grows(contracts, contracts')
    BY <2>6, <2>7 DEF Grows, Keeps
  <2>9. Follows(txs, txs')
    BY <1>1, <1>3, <2>2 DEF Follows
  <2>10. ASSUME NEW h \in DOMAIN txs PROVE TxSound(contracts', txs'[h])
    <3>1. CASE h = hash
      <4>1. txs'[h] = [stage |-> tx.stage, sender |-> tx.sender,
                       status |-> "success", to |-> tx.to, on |-> tx.on]
        BY <2>2, <3>1, <1>3
      <4>2. d.kind = c.kind
        BY <2>6 DEF Keeps
      <4> QED BY <4>1, <4>2, <2>3, <2>6, <2>7 DEF TxSound
    <3>2. CASE h # hash
      <4>1. txs'[h] = txs[h]
        BY <2>2, <3>2, <1>3
      <4> QED BY <4>1, <1>3, <2>8, GrowthKeeps
    <3> QED BY <3>1, <3>2
  <2>11. txs' \in Seq(Transactions) /\ DOMAIN txs' = DOMAIN txs /\ PendingLast(txs')
    BY <1>4, <1>6, <2>2
  <2>12. \A a \in DOMAIN contracts', kind \in Engines :
            ReadyStage(kind) \in contracts'[a].done =>
               \/ a \in DOMAIN contracts /\ ReadyStage(kind) \in contracts[a].done
               \/ \E h \in DOMAIN txs : txs[h].stage = ReadyStage(kind) /\ txs[h].to = a
    BY <2>6, <2>7
  <2> QED BY <1>2, <2>7, <2>8, <2>9, <2>10, <2>11, <2>12, ChainStep
<1>9. CASE ~Passes(tx)
  <2>1. tx.to # 0
    BY <1>9 DEF Passes
  <2>2. contracts' = contracts /\ txs' = [txs EXCEPT ![hash].status = "reverted"]
    BY <1>1, <1>9
  <2>3. txs' = [txs EXCEPT ![hash] = [stage |-> tx.stage, sender |-> tx.sender,
                                      status |-> "reverted", to |-> tx.to, on |-> tx.on]]
    BY <2>2, <1>1, <1>3, <1>4
  <2>4. Creates(tx.stage) = "none" /\ tx.to \in DOMAIN contracts
        /\ contracts[tx.to].kind = WritesTo(tx.stage)
    BY <1>1, <1>3, <2>1 DEF TxSound
  <2>5. Grows(contracts, contracts')
    BY <2>2 DEF Grows, Keeps
  <2>6. Follows(txs, txs')
    BY <1>1, <1>3, <2>3 DEF Follows
  <2>7. ASSUME NEW h \in DOMAIN txs PROVE TxSound(contracts', txs'[h])
    <3>1. CASE h = hash
      <4>1. txs'[h] = [stage |-> tx.stage, sender |-> tx.sender,
                       status |-> "reverted", to |-> tx.to, on |-> tx.on]
        BY <2>3, <3>1, <1>3
      <4> QED BY <4>1, <2>2, <2>4 DEF TxSound
    <3>2. CASE h # hash
      <4>1. txs'[h] = txs[h]
        BY <2>3, <3>2, <1>3
      <4> QED BY <4>1, <2>2, <1>3
    <3> QED BY <3>1, <3>2
  <2>8. txs' \in Seq(Transactions) /\ DOMAIN txs' = DOMAIN txs /\ PendingLast(txs')
    BY <1>4, <1>6, <2>3
  <2> QED BY <1>2, <1>3, <2>2, <2>5, <2>6, <2>7, <2>8, ChainStep
<1> QED BY <1>7, <1>8, <1>9

LEMMA MatureStep == ASSUME DInv, Mature PROVE DInv'
<1>1. PICK a \in DOMAIN contracts :
         contracts' = [contracts EXCEPT ![a].done = @ \cup {"matured"}]
  BY DEF Mature
<1>2. UNCHANGED <<profile, txs, journal, manifest, script>>
  BY DEF Mature
<1>3. contracts \in Seq(ContractRecords) /\ contracts[a] \in ContractRecords
  BY <1>1 DEF DInv, DeploymentTypeOK
<1> DEFINE c == contracts[a]
           d == [kind |-> c.kind, on |-> c.on, owner |-> c.owner,
                 pendingOwner |-> c.pendingOwner, done |-> c.done \cup {"matured"}]
<1>4. /\ c.kind \in Kinds /\ c.on \in SUBSET Nat /\ c.owner \in Owners
      /\ c.pendingOwner \in {"none", "final"} /\ c.done \subseteq StageNames \cup {"matured"}
      /\ c = [kind |-> c.kind, on |-> c.on, owner |-> c.owner,
              pendingOwner |-> c.pendingOwner, done |-> c.done]
  BY <1>3 DEF ContractRecords
<1>5. contracts' = [contracts EXCEPT ![a] = d]
  <2>1. [c EXCEPT !.done = @ \cup {"matured"}] = d
    BY <1>4
  <2>2. contracts' = [contracts EXCEPT ![a] = [c EXCEPT !.done = @ \cup {"matured"}]]
    BY <1>1, <1>3
  <2> QED BY <2>1, <2>2
<1>6. d \in ContractRecords /\ Keeps(c, d)
  BY <1>4 DEF ContractRecords, Keeps, Configured
<1>7. /\ contracts' \in Seq(ContractRecords) /\ DOMAIN contracts' = DOMAIN contracts
      /\ \A b \in DOMAIN contracts : contracts'[b] = IF b = a THEN d ELSE contracts[b]
  BY <1>3, <1>5, <1>6
<1>8. Grows(contracts, contracts')
  BY <1>6, <1>7 DEF Grows, Keeps
<1>9. \A b \in DOMAIN contracts', kind \in Engines :
         ReadyStage(kind) \in contracts'[b].done =>
            b \in DOMAIN contracts /\ ReadyStage(kind) \in contracts[b].done
  BY <1>7 DEF ReadyStage
<1>10. Follows(txs, txs') /\ txs' \in Seq(Transactions) /\ PendingLast(txs')
  BY <1>2 DEF Follows, DInv, SentWell
<1>11. \A hash \in DOMAIN txs : TxSound(contracts', txs'[hash])
  BY <1>2, <1>8, GrowthKeeps DEF DInv, SentWell
<1> QED BY <1>2, <1>7, <1>8, <1>9, <1>10, <1>11, ChainStep

LEMMA GuardianStep ==
    ASSUME DInv, NEW a \in DOMAIN contracts, GuardianPauses(a) PROVE DInv'
<1> DEFINE c == contracts[a]
           d == Written(PauseStage(c.kind), c, "guardian")
<1>1. /\ c.kind \in Engines /\ contracts' = [contracts EXCEPT ![a] = d]
      /\ UNCHANGED <<profile, txs, journal, manifest, script>>
  BY DEF GuardianPauses
<1>2. contracts \in Seq(ContractRecords) /\ c \in ContractRecords
  BY DEF DInv, DeploymentTypeOK
<1>3. PauseStage(c.kind) \in StageNames \ Accepts
  BY DEF PauseStage, StageNames, Accepts
<1>4. PauseStage(c.kind) # ReadyStage("repoMarket") /\ PauseStage(c.kind) # ReadyStage("marginEngine")
  BY DEF PauseStage, ReadyStage
<1>5. /\ d \in ContractRecords /\ Keeps(c, d)
      /\ \A kind \in Engines : ReadyStage(kind) \in d.done => ReadyStage(kind) \in c.done
  BY <1>2, <1>3, <1>4, WrittenKeeps DEF Engines
<1>6. /\ contracts' \in Seq(ContractRecords) /\ DOMAIN contracts' = DOMAIN contracts
      /\ \A b \in DOMAIN contracts : contracts'[b] = IF b = a THEN d ELSE contracts[b]
  BY <1>1, <1>2, <1>5
<1>7. Grows(contracts, contracts')
  BY <1>5, <1>6 DEF Grows, Keeps
<1>8. \A b \in DOMAIN contracts', kind \in Engines :
         ReadyStage(kind) \in contracts'[b].done =>
            b \in DOMAIN contracts /\ ReadyStage(kind) \in contracts[b].done
  BY <1>5, <1>6
<1>9. Follows(txs, txs') /\ txs' \in Seq(Transactions) /\ PendingLast(txs')
  BY <1>1 DEF Follows, DInv, SentWell
<1>10. \A hash \in DOMAIN txs : TxSound(contracts', txs'[hash])
  BY <1>1, <1>7, GrowthKeeps DEF DInv, SentWell
<1> QED BY <1>1, <1>6, <1>7, <1>8, <1>9, <1>10, ChainStep

-----------------------------------------------------------------------------
(* What a script sends, and what is left of it.                             *)

\* Only what is in flight is kept when the hashes are forgotten.
LEMMA ForgetSound ==
    ASSUME NEW sent, SentWell(sent), NEW kept \in BOOLEAN
    PROVE  SentWell(Forget(sent, kept))
<1> SUFFICES ASSUME ~kept PROVE SentWell(Forget(sent, kept))
  BY DEF Forget
<1> DEFINE n == Settled(sent)
           left == SubSeq(sent, n + 1, Len(sent))
<1>1. Forget(sent, kept) = left
  BY DEF Forget
<1>2. sent \in Seq(Transactions)
  BY DEF SentWell
<1>3. n \in 0..Len(sent) /\ \A hash \in DOMAIN sent : sent[hash].status = "pending" <=> hash > n
  BY DEF SentWell, PendingLast, Settled
<1> HIDE DEF n
<1>4. /\ left \in Seq(Transactions) /\ Len(left) = Len(sent) - n
      /\ \A hash \in DOMAIN left : left[hash] = sent[hash + n] /\ hash + n \in DOMAIN sent
  BY <1>2, <1>3
<1>5. \A hash \in DOMAIN left : left[hash].status = "pending" <=> hash > 0
  BY <1>2, <1>3, <1>4
<1> HIDE DEF left
<1>6. PendingLast(left)
  <2>1. 0 \in 0..Len(left)
    BY <1>4
  <2> QED BY <2>1, <1>5 DEF PendingLast
<1> QED BY <1>1, <1>4, <1>6 DEF SentWell

\* What an ended script leaves: its transactions, and in the journal what was there or printed.
LEMMA ScriptEnds ==
    ASSUME DInv, ~Idle, UNCHANGED <<profile, contracts, manifest>>,
           NEW sent, SentWell(sent), Follows(txs, sent),
           script' = NoScript, txs' = Forget(sent, script.name = "deploy"),
           journal' = journal \/ (script.name = "deploy" /\ journal' = script.printed)
    PROVE  DInv'
<1>1. DeploymentTypeOK'
  BY DEF DInv, DeploymentTypeOK, NoScript
<1>2. ScriptSound'
  BY DEF ScriptSound, NoScript, Ceremonies
<1>3. SharedThere' /\ Opening'
  BY DEF DInv, SharedThere, Opening, NoScript, MayOpen
<1>4. SentWell(txs)'
  <2>1. SentWell(Forget(sent, script.name = "deploy"))
    BY ForgetSound
  <2> QED BY <2>1 DEF SentWell, MayOpen
<1>5. CASE script.name = "deploy"
  <2>1. txs' = sent
    BY <1>5 DEF Forget
  <2>2. JournalSound(profile, txs, journal') /\ ~manifest.written
    BY <1>5 DEF DInv, ScriptSound, Deploying
  <2>3. JournalSound(profile, sent, journal')
    BY <2>2, JournalFollows
  <2> QED BY <1>1, <1>2, <1>3, <1>4, <2>1, <2>2, <2>3 DEF DInv, ManifestSound
<1>6. CASE script.name # "deploy"
  <2>1. manifest.written /\ journal = <<>> /\ journal' = <<>>
    BY <1>6 DEF DInv, ScriptSound, ManifestSound, Idle
  <2>2. JournalSound(profile, txs, journal)'
    BY <2>1 DEF JournalSound
  <2> QED BY <1>1, <1>2, <1>3, <1>4, <2>1, <2>2 DEF DInv, ManifestSound
<1> QED BY <1>5, <1>6

\* A stage that prints the address of a kind knows the contract it is of.
LEMMA AddressKnown ==
    ASSUME DInv, script.name = "deploy", NEW kind \in Kinds,
           Known(profile, txs, script.printed, kind)
    PROVE  /\ Address(kind) = AddressIn(profile, txs, script.printed, kind)
           /\ Address(kind) \in DOMAIN contracts /\ contracts[Address(kind)].kind = kind
<1>1. CASE IsShared(profile, kind)
  BY <1>1 DEF Address, AddressIn, IsShared, DInv, SharedThere
<1>2. CASE ~IsShared(profile, kind)
  <2> DEFINE s == Creator[kind]
  <2>1. s \in DOMAIN script.printed /\ txs[script.printed[s]].status = "success"
    BY <1>2 DEF Known
  <2>2. Creates(s) = kind /\ \A t : Creates(t) = kind => t = s
    BY CreatorOf
  <2>3. (CHOOSE t \in DOMAIN script.printed : Creates(t) = kind) = s
    BY <2>1, <2>2
  <2>4. Address(kind) = txs[script.printed[s]].to
    BY <1>2, <2>3 DEF Address, IsShared
  <2>5. script.printed[s] \in DOMAIN txs /\ txs[script.printed[s]].stage = s
    BY <2>1 DEF DInv, ScriptSound, Deploying, JournalSound, EntrySound
  <2>6. TxSound(contracts, txs[script.printed[s]])
    BY <2>5 DEF DInv, SentWell
  <2>7. kind # "none"
    BY DEF Kinds
  <2>8. txs[script.printed[s]].to \in DOMAIN contracts
        /\ contracts[txs[script.printed[s]].to].kind = kind
    BY <2>1, <2>2, <2>5, <2>6, <2>7 DEF TxSound
  <2> QED BY <1>2, <2>4, <2>8 DEF AddressIn
<1> QED BY <1>1, <1>2

\* At a stage of the deployment everything it is given or writes to is known.
LEMMA StageKnows ==
    ASSUME DInv, script.name = "deploy", script.at \in DOMAIN DeployStages,
           NEW kind \in Kinds,
           \/ Creates(DeployStages[script.at]) \in Engines /\ kind \in Modules
           \/ /\ Creates(DeployStages[script.at]) = "none"
              /\ kind = WritesTo(DeployStages[script.at])
    PROVE  Known(profile, txs, script.printed, kind)
<1>1. profile \in {"standard", "hackathon"}
  BY DEF DInv, DeploymentTypeOK
<1>2. \/ IsShared(profile, kind)
      \/ \E j \in DOMAIN DeployStages : j < script.at /\ DeployStages[j] = Creator[kind]
  BY <1>1, StagesInOrder
<1> QED BY <1>2 DEF Known, DInv, ScriptSound, Deploying

LEMMA ModulesAreKinds == Modules \subseteq Kinds
BY DEF Modules, SharedKinds, Kinds

\* What the script sends next is sound, and sent for good reason.
LEMMA TransactionSound ==
    ASSUME DInv, MustSend
    PROVE  LET tx == Transaction(script.name, Stage)
           IN /\ SentWell(Append(txs, tx)) /\ Follows(txs, Append(txs, tx))
              /\ Len(txs) + 1 \in DOMAIN Append(txs, tx) /\ Append(txs, tx)[Len(txs) + 1] = tx
              /\ tx.stage = Stage
              /\ script.name = "deploy" =>
                    /\ Creates(Stage) \in Engines => tx.on =
                          {AddressIn(profile, txs, script.printed, kind) : kind \in Modules}
                    /\ Creates(Stage) = "none" =>
                          tx.to = AddressIn(profile, txs, script.printed, WritesTo(Stage))
<1> DEFINE tx == Transaction(script.name, Stage)
<1>1. /\ profile \in {"standard", "hackathon"} /\ txs \in Seq(Transactions)
      /\ contracts \in Seq(ContractRecords)
      /\ script.name \in {"deploy"} \cup Ceremonies /\ script.at \in 1..Len(Stages(script.name))
  BY DEF DInv, DeploymentTypeOK, SentWell, ScriptSound, MustSend, AtStage, Idle
<1>2. /\ Stage \in StageNames
      /\ script.name # "deploy" => Creates(Stage) = "none"
      /\ Stage = ReadyStage("repoMarket") => script.name = "window"
      /\ Stage = ReadyStage("marginEngine") => script.name = "marginWindow"
  BY <1>1, StagesOfCeremonies DEF Stage
<1>3. Stages("deploy") = DeployStages
  BY DEF Stages
<1>4. script.name = "deploy" => Stage = DeployStages[script.at] /\ script.at \in DOMAIN DeployStages
  BY <1>1, <1>3, StagesOfCeremonies DEF Stage
<1>5. WritesTo(Stage) \in Kinds /\ Creates(Stage) \in Kinds \cup {"none"}
  BY CreatorOf
<1>6. Creates(Stage) = "none" =>
         /\ Address(WritesTo(Stage)) \in DOMAIN contracts
         /\ contracts[Address(WritesTo(Stage))].kind = WritesTo(Stage)
  <2> SUFFICES ASSUME Creates(Stage) = "none"
               PROVE  /\ Address(WritesTo(Stage)) \in DOMAIN contracts
                      /\ contracts[Address(WritesTo(Stage))].kind = WritesTo(Stage)
    OBVIOUS
  <2>1. CASE script.name = "deploy"
    <3>1. Known(profile, txs, script.printed, WritesTo(Stage))
      BY <1>4, <1>5, <2>1, StageKnows
    <3> QED BY <1>5, <2>1, <3>1, AddressKnown
  <2>2. CASE script.name # "deploy"
    BY <1>1, <1>5, <2>2 DEF Address, DInv, ScriptSound, ManifestSound, Coherent
  <2> QED BY <2>1, <2>2
<1>7. Creates(Stage) \in Engines => script.name = "deploy" /\
         \A kind \in Modules : /\ Known(profile, txs, script.printed, kind)
                               /\ Address(kind) \in DOMAIN contracts
  BY <1>2, <1>4, StageKnows, AddressKnown, ModulesAreKinds DEF Engines
<1>8. DOMAIN contracts \subseteq Nat
  BY <1>1
<1>9. /\ tx.stage = Stage /\ tx.status = "pending"
      /\ tx.to = (IF Creates(Stage) # "none" THEN 0 ELSE Address(WritesTo(Stage)))
      /\ tx.on = (IF Creates(Stage) \in Engines THEN {Address(kind) : kind \in Modules} ELSE {})
  BY DEF Transaction, Modules
<1>10. tx \in Transactions
  <2>1. Sender(script.name, Stage) \in Owners
    BY DEF Sender, Owners
  <2>2. tx.to \in Nat /\ tx.on \in SUBSET Nat
    BY <1>6, <1>7, <1>8, <1>9
  <2>3. tx = [stage |-> Stage, sender |-> Sender(script.name, Stage), status |-> "pending",
              to |-> tx.to, on |-> tx.on]
    BY DEF Transaction
  <2> QED BY <1>2, <2>1, <2>2, <2>3 DEF Transactions
<1>11. TxSound(contracts, tx)
  BY <1>6, <1>9 DEF TxSound
<1>12. \A kind \in Engines : Stage = ReadyStage(kind) =>
          MayOpen(kind) /\ tx.to = manifest.address[kind]
  <2> SUFFICES ASSUME NEW kind \in Engines, Stage = ReadyStage(kind)
               PROVE  MayOpen(kind) /\ tx.to = manifest.address[kind]
    OBVIOUS
  <2>1. script.name \in {"window", "marginWindow"} /\ MayOpen(kind)
    BY <1>2 DEF Engines, DInv, Opening
  <2>2. Creates(Stage) = "none"
    BY <1>2, <2>1
  <2>3. WritesTo(Stage) = kind
    BY DEF Engines, ReadyStage, WritesTo
  <2> QED BY <1>9, <2>1, <2>2, <2>3 DEF Address
<1> HIDE DEF tx
<1>13. /\ Append(txs, tx) \in Seq(Transactions) /\ Len(Append(txs, tx)) = Len(txs) + 1
       /\ \A hash \in DOMAIN txs : hash \in DOMAIN Append(txs, tx)
                                   /\ Append(txs, tx)[hash] = txs[hash]
       /\ Len(txs) + 1 \in DOMAIN Append(txs, tx) /\ Append(txs, tx)[Len(txs) + 1] = tx
       /\ \A hash \in DOMAIN Append(txs, tx) : hash \in DOMAIN txs \/ hash = Len(txs) + 1
  BY <1>1, <1>10
<1>14. PendingLast(Append(txs, tx))
  <2>1. PICK n \in 0..Len(txs) : \A hash \in DOMAIN txs : txs[hash].status = "pending" <=> hash > n
    BY DEF DInv, SentWell, PendingLast
  <2>2. n \in 0..Len(Append(txs, tx)) /\ Len(txs) + 1 > n
    BY <1>1, <1>13
  <2> QED BY <1>9, <1>13, <2>1, <2>2 DEF PendingLast
<1>15. SentWell(Append(txs, tx))
  <2>1. \A hash \in DOMAIN Append(txs, tx) : TxSound(contracts, Append(txs, tx)[hash])
    BY <1>11, <1>13 DEF DInv, SentWell
  <2>2. \A hash \in DOMAIN Append(txs, tx), kind \in Engines :
           Append(txs, tx)[hash].stage = ReadyStage(kind) =>
              MayOpen(kind) /\ Append(txs, tx)[hash].to = manifest.address[kind]
    BY <1>9, <1>12, <1>13 DEF DInv, SentWell
  <2> QED BY <1>13, <1>14, <2>1, <2>2 DEF SentWell
<1>16. Follows(txs, Append(txs, tx))
  BY <1>13 DEF Follows
<1>17. script.name = "deploy" =>
          /\ Creates(Stage) \in Engines =>
                tx.on = {AddressIn(profile, txs, script.printed, kind) : kind \in Modules}
          /\ Creates(Stage) = "none" =>
                tx.to = AddressIn(profile, txs, script.printed, WritesTo(Stage))
  <2> SUFFICES ASSUME script.name = "deploy"
               PROVE  /\ Creates(Stage) \in Engines => tx.on =
                            {AddressIn(profile, txs, script.printed, kind) : kind \in Modules}
                      /\ Creates(Stage) = "none" =>
                            tx.to = AddressIn(profile, txs, script.printed, WritesTo(Stage))
    OBVIOUS
  <2>1. Creates(Stage) \in Engines => \A kind \in Modules :
           Address(kind) = AddressIn(profile, txs, script.printed, kind)
    BY <1>7, AddressKnown, ModulesAreKinds
  <2>2. Creates(Stage) = "none" => Known(profile, txs, script.printed, WritesTo(Stage))
    BY <1>4, <1>5, StageKnows
  <2>3. Creates(Stage) = "none" =>
           Address(WritesTo(Stage)) = AddressIn(profile, txs, script.printed, WritesTo(Stage))
    BY <1>5, <2>2, AddressKnown
  <2> QED BY <1>9, <2>1, <2>3
<1> QED BY <1>9, <1>13, <1>15, <1>16, <1>17 DEF tx

-----------------------------------------------------------------------------
(* A script goes on.                                                        *)

\* The deployment prints the hash of its stage: the journal's, or one just sent.
LEMMA DeployAnnounces ==
    ASSUME DInv, script.name = "deploy", AtStage, script.hash = 0,
           UNCHANGED <<profile, contracts, journal, manifest>>,
           NEW sent, SentWell(sent), Follows(txs, sent), txs' = sent,
           NEW hash \in DOMAIN sent, sent[hash].stage = Stage, Announce(hash),
           Stage \in DOMAIN journal => hash = journal[Stage],
           Creates(Stage) \in Engines => sent[hash].on =
              {AddressIn(profile, txs, script.printed, kind) : kind \in Modules},
           Creates(Stage) = "none" => sent[hash].to =
              AddressIn(profile, txs, script.printed, WritesTo(Stage))
    PROVE  DInv'
<1> DEFINE old == script.printed
           new == [s \in DOMAIN old \cup {Stage} |-> IF s = Stage THEN hash ELSE old[s]]
<1>1. /\ profile \in {"standard", "hackathon"} /\ Stage = DeployStages[script.at]
      /\ script.at \in DOMAIN DeployStages /\ script.at \in Nat /\ script.at > 0
      /\ sent \in Seq(Transactions) /\ hash \in Nat /\ hash # 0
  <2>1. Stages("deploy") = DeployStages /\ profile \in {"standard", "hackathon"}
    BY DEF Stages, DInv, DeploymentTypeOK
  <2>2. script.at \in Nat /\ script.at > 0 /\ script.at <= Len(DeployStages)
    BY <2>1 DEF AtStage, DInv, ScriptSound
  <2> QED BY <2>1, <2>2, StagesInOrder DEF Stage, SentWell
<1>2. script' = [name |-> "deploy", at |-> script.at, hash |-> hash,
                 needed |-> script.needed, printed |-> new]
  BY DEF Announce, DInv, DeploymentTypeOK
<1>3. Deploying
  BY DEF DInv, ScriptSound
<1>4. Stage \notin DOMAIN old
  <2>1. \A i \in DOMAIN DeployStages : DeployStages[i] = Stage => i = script.at
    BY <1>1, StagesInOrder
  <2> QED BY <1>3, <2>1, <1>1 DEF Deploying
<1>5. /\ DOMAIN new = DOMAIN old \cup {Stage} /\ new[Stage] = hash
      /\ \A s \in DOMAIN old : s \in DOMAIN new /\ new[s] = old[s]
  BY <1>4
<1> HIDE DEF new
<1>6. JournalSound(profile, sent, old)
  BY <1>3, JournalFollows DEF Deploying
<1>7. \A kind : Known(profile, txs, old, kind) =>
         /\ Known(profile, sent, new, kind)
         /\ AddressIn(profile, sent, new, kind) = AddressIn(profile, txs, old, kind)
  <2>1. \A s \in DOMAIN old : old[s] \in DOMAIN txs
    BY <1>3 DEF Deploying, JournalSound, EntrySound
  <2> QED BY <1>5, <2>1 DEF Known, AddressIn, Follows
<1>8. EntrySound(profile, sent, new, Stage)
  <2>1. Creates(Stage) \in Engines =>
           /\ \A kind \in Modules : Known(profile, txs, old, kind)
           /\ {AddressIn(profile, sent, new, kind) : kind \in Modules}
                 = {AddressIn(profile, txs, old, kind) : kind \in Modules}
    BY <1>1, <1>7, StageKnows, ModulesAreKinds
  <2>2. Creates(Stage) = "none" => Known(profile, txs, old, WritesTo(Stage))
    BY <1>1, StageKnows, CreatorOf
  <2> QED BY <1>5, <1>7, <2>1, <2>2 DEF EntrySound
<1>9. JournalSound(profile, sent, new)
  <2> SUFFICES ASSUME NEW s \in DOMAIN old PROVE EntrySound(profile, sent, new, s)
    BY <1>5, <1>8 DEF JournalSound
  <2>1. EntrySound(profile, sent, old, s)
    BY <1>6 DEF JournalSound
  <2> QED BY <1>5, <2>1, EntryStays
<1>10. Deploying'
  <2>1. DeployStages' = DeployStages
    BY DEF DeployStages
  <2>2. JournalSound(profile, txs, script.printed)' /\ ~manifest'.written
    BY <1>2, <1>3, <1>9 DEF Deploying
  <2>3. \A s \in DOMAIN journal \cap DOMAIN new : new[s] = journal[s]
    BY <1>3, <1>5 DEF Deploying
  <2>4. ASSUME NEW i \in DOMAIN DeployStages, i < script.at
        PROVE  DeployStages[i] \in DOMAIN new /\ sent[new[DeployStages[i]]].status = "success"
    <3>1. DeployStages[i] \in DOMAIN old /\ txs[old[DeployStages[i]]].status = "success"
      BY <1>3, <2>4 DEF Deploying
    <3>2. old[DeployStages[i]] \in DOMAIN txs
      BY <1>3, <3>1 DEF Deploying, JournalSound, EntrySound
    <3> QED BY <1>5, <3>1, <3>2 DEF Follows
  <2>5. \A s \in DOMAIN new : \E i \in DOMAIN DeployStages :
           s = DeployStages[i] /\ (i < script.at \/ i = script.at)
    BY <1>1, <1>3, <1>5 DEF Deploying
  <2> QED BY <1>1, <1>2, <1>5, <2>1, <2>2, <2>3, <2>4, <2>5 DEF Deploying
<1>11. SentWell(txs)'
  BY DEF SentWell, MayOpen
<1>12. JournalSound(profile, txs, journal)'
  BY JournalFollows DEF DInv
<1>13. DeploymentTypeOK'
  BY <1>2 DEF DInv, DeploymentTypeOK
<1>14. ScriptSound'
  BY <1>1, <1>2, <1>10 DEF ScriptSound, Ceremonies
<1>15. SharedThere' /\ ManifestSound' /\ Opening'
  BY <1>2 DEF DInv, SharedThere, ManifestSound, Opening, MayOpen
<1> QED BY <1>11, <1>12, <1>13, <1>14, <1>15 DEF DInv

\* A ceremony advances: its script keeps nothing the invariant speaks of.
LEMMA CeremonyGoesOn ==
    ASSUME DInv, script.name \in Ceremonies,
           UNCHANGED <<profile, contracts, journal, manifest>>, SentWell(txs)',
           NEW at \in Nat, at > 0, NEW hash \in Nat,
           script' = [name |-> script.name, at |-> at, hash |-> hash,
                      needed |-> script.needed, printed |-> script.printed]
    PROVE  DInv'
<1>1. /\ script'.name = script.name /\ script'.at = at /\ script'.hash = hash
      /\ script'.needed = script.needed /\ script'.printed = script.printed
  OBVIOUS
<1>2. script.name # "deploy" /\ manifest.written /\ journal = <<>>
  BY DEF Ceremonies, DInv, ScriptSound, ManifestSound
<1>3. DeploymentTypeOK' /\ ScriptSound'
  <2>1. DeploymentTypeOK'
    BY <1>1 DEF DInv, DeploymentTypeOK
  <2>2. ScriptSound'
    BY <1>1, <1>2 DEF ScriptSound
  <2> QED BY <2>1, <2>2
<1>4. JournalSound(profile, txs, journal)'
  BY <1>2 DEF JournalSound
<1>5. SharedThere' /\ ManifestSound' /\ Opening'
  BY <1>1 DEF DInv, SharedThere, ManifestSound, Opening, MayOpen
<1> QED BY <1>3, <1>4, <1>5 DEF DInv

LEMMA FollowsItself == \A sent : Follows(sent, sent)
BY DEF Follows

LEMMA RecoverStep == ASSUME DInv, RecoverStage PROVE DInv'
<1>1. /\ script.name = "deploy" /\ AtStage /\ script.hash = 0 /\ Stage \in DOMAIN journal
      /\ Announce(journal[Stage]) /\ UNCHANGED <<profile, contracts, txs, journal, manifest>>
  BY DEF RecoverStage
<1> DEFINE hash == journal[Stage]
<1>2. EntrySound(profile, txs, journal, Stage) /\ SentWell(txs) /\ Deploying
  BY <1>1 DEF DInv, JournalSound, ScriptSound
<1>3. script.at \in DOMAIN DeployStages /\ Stage = DeployStages[script.at]
  <2>1. Stages("deploy") = DeployStages /\ profile \in {"standard", "hackathon"}
    BY DEF Stages, DInv, DeploymentTypeOK
  <2>2. script.at \in Nat /\ script.at > 0 /\ script.at <= Len(DeployStages)
    BY <1>1, <2>1 DEF AtStage, DInv, ScriptSound
  <2> QED BY <1>1, <2>1, <2>2, StagesInOrder DEF Stage
<1>4. ASSUME NEW kind \in Kinds,
             \/ Creates(Stage) \in Engines /\ kind \in Modules
             \/ Creates(Stage) = "none" /\ kind = WritesTo(Stage)
      PROVE  AddressIn(profile, txs, journal, kind)
                = AddressIn(profile, txs, script.printed, kind)
  <2>1. Known(profile, txs, script.printed, kind)
    BY <1>1, <1>3, <1>4, StageKnows
  <2>2. Known(profile, txs, journal, kind)
    BY <1>2, <1>4 DEF EntrySound
  <2> QED BY <1>2, <2>1, <2>2 DEF Known, AddressIn, Deploying
<1>5. Creates(Stage) \in Engines => txs[hash].on =
         {AddressIn(profile, txs, script.printed, kind) : kind \in Modules}
  <2> SUFFICES ASSUME Creates(Stage) \in Engines
               PROVE  txs[hash].on =
                         {AddressIn(profile, txs, script.printed, kind) : kind \in Modules}
    OBVIOUS
  <2>1. \A kind \in Modules : AddressIn(profile, txs, journal, kind)
                                 = AddressIn(profile, txs, script.printed, kind)
    BY <1>4, ModulesAreKinds
  <2>2. txs[hash].on = {AddressIn(profile, txs, journal, kind) : kind \in Modules}
    BY <1>2 DEF EntrySound
  <2> QED BY <2>1, <2>2
<1>6. Creates(Stage) = "none" =>
         txs[hash].to = AddressIn(profile, txs, script.printed, WritesTo(Stage))
  BY <1>2, <1>4, CreatorOf DEF EntrySound
<1>7. hash \in DOMAIN txs /\ txs[hash].stage = Stage
  BY <1>2 DEF EntrySound
<1> HIDE DEF hash
<1>8. Announce(hash) /\ hash = journal[Stage]
  BY <1>1 DEF hash
<1> QED BY <1>1, <1>2, <1>5, <1>6, <1>7, <1>8, DeployAnnounces, FollowsItself

LEMMA SubmitStep == ASSUME DInv, SubmitStage PROVE DInv'
<1> DEFINE tx == Transaction(script.name, Stage)
           sent == Append(txs, tx)
<1>1. /\ MustSend /\ txs' = sent /\ Announce(Len(txs) + 1)
      /\ UNCHANGED <<profile, contracts, journal, manifest>>
  BY DEF SubmitStage
<1>2. /\ SentWell(sent) /\ Follows(txs, sent) /\ Len(txs) + 1 \in DOMAIN sent
      /\ sent[Len(txs) + 1] = tx /\ tx.stage = Stage
      /\ script.name = "deploy" =>
            /\ Creates(Stage) \in Engines => tx.on =
                  {AddressIn(profile, txs, script.printed, kind) : kind \in Modules}
            /\ Creates(Stage) = "none" =>
                  tx.to = AddressIn(profile, txs, script.printed, WritesTo(Stage))
  BY <1>1, TransactionSound
<1>3. AtStage /\ script.hash = 0 /\ (script.name = "deploy" => Stage \notin DOMAIN journal)
  BY <1>1 DEF MustSend
<1> HIDE DEF tx, sent
<1>4. CASE script.name = "deploy"
  BY <1>1, <1>2, <1>3, <1>4, DeployAnnounces
<1>5. CASE script.name # "deploy"
  <2>1. script.name \in Ceremonies /\ script.at \in Nat /\ script.at > 0
    BY <1>3, <1>5 DEF AtStage, Idle, DInv, ScriptSound
  <2>2. script' = [script EXCEPT !.hash = Len(txs) + 1, !.printed = script.printed]
    BY <1>1, <1>5 DEF Announce
  <2>3. script' = [name |-> script.name, at |-> script.at, hash |-> Len(txs) + 1,
                   needed |-> script.needed, printed |-> script.printed]
    BY <2>2 DEF DInv, DeploymentTypeOK
  <2>4. SentWell(txs)' /\ Len(txs) + 1 \in Nat
    <3>1. txs \in Seq(Transactions)
      BY DEF DInv, SentWell
    <3> QED BY <1>1, <1>2, <3>1 DEF SentWell, MayOpen
  <2> QED BY <1>1, <2>1, <2>3, <2>4, CeremonyGoesOn
<1> QED BY <1>4, <1>5

LEMMA EndStep ==
    ASSUME DInv, SubmitUnanswered \/ SimulationFails \/ StageReverted \/ ReadFails \/ Killed
    PROVE  DInv'
<1>1. CASE SubmitUnanswered
  <2> DEFINE sent == Append(txs, Transaction(script.name, Stage))
  <2>1. /\ MustSend /\ ~Idle /\ UNCHANGED <<profile, contracts, manifest>>
        /\ script' = NoScript /\ txs' = Forget(sent, script.name = "deploy")
        /\ journal' = journal \/ (script.name = "deploy" /\ journal' = script.printed)
    BY <1>1 DEF SubmitUnanswered, MustSend, AtStage, Ends, JournalOf
  <2>2. SentWell(sent) /\ Follows(txs, sent)
    BY <2>1, TransactionSound
  <2> HIDE DEF sent
  <2> QED BY <2>1, <2>2, ScriptEnds
<1>2. CASE SimulationFails \/ StageReverted \/ ReadFails
  <2>1. /\ ~Idle /\ UNCHANGED <<profile, contracts, manifest>> /\ Ends(txs)
    BY <1>2 DEF SimulationFails, StageReverted, ReadFails, MustSend, AtStage
  <2>2. /\ script' = NoScript /\ txs' = Forget(txs, script.name = "deploy")
        /\ journal' = journal \/ (script.name = "deploy" /\ journal' = script.printed)
    BY <2>1 DEF Ends, JournalOf
  <2>3. SentWell(txs) /\ Follows(txs, txs)
    BY FollowsItself DEF DInv
  <2> QED BY <2>1, <2>2, <2>3, ScriptEnds
<1>3. CASE Killed
  <2>1. /\ ~Idle /\ UNCHANGED <<profile, contracts, journal, manifest>>
        /\ script' = NoScript /\ txs' = Forget(txs, script.name = "deploy")
    BY <1>3 DEF Killed
  <2>2. SentWell(txs) /\ Follows(txs, txs)
    BY FollowsItself DEF DInv
  <2> QED BY <2>1, <2>2, ScriptEnds
<1> QED BY <1>1, <1>2, <1>3

LEMMA StartStep ==
    ASSUME DInv, StartDeployment PROVE DInv'
<1>1. /\ ~manifest.written /\ UNCHANGED <<profile, contracts, txs, journal, manifest>>
      /\ script' = [name |-> "deploy", at |-> 1, hash |-> 0, needed |-> {}, printed |-> <<>>]
  BY DEF StartDeployment, NoScript
<1>2. /\ script'.name = "deploy" /\ script'.at = 1 /\ script'.hash = 0
      /\ script'.needed = {} /\ script'.printed = <<>>
  BY <1>1
<1>3. profile \in {"standard", "hackathon"}
  BY DEF DInv, DeploymentTypeOK
<1>4. Deploying'
  <2>1. DOMAIN script'.printed = {}
    BY <1>2
  <2>2. \A i \in DOMAIN DeployStages : ~(i < 1)
    BY <1>3, StagesInOrder
  <2>3. DeployStages' = DeployStages
    BY <1>1 DEF DeployStages
  <2> QED BY <1>1, <1>2, <2>1, <2>2, <2>3 DEF Deploying, JournalSound
<1>5. DeploymentTypeOK'
  BY <1>1, <1>2 DEF DInv, DeploymentTypeOK
<1>6. ScriptSound'
  BY <1>2, <1>4 DEF ScriptSound, Ceremonies
<1>7. SentWell(txs)' /\ SharedThere' /\ JournalSound(profile, txs, journal)'
  BY <1>1 DEF DInv, SentWell, MayOpen, SharedThere, JournalSound, EntrySound, Known, AddressIn,
              IsShared
<1>8. ManifestSound' /\ Opening'
  BY <1>1, <1>2 DEF DInv, ManifestSound, Opening, MayOpen
<1> QED BY <1>5, <1>6, <1>7, <1>8 DEF DInv

\* The checks a smoke window starts with are the proof the engine needs.
LEMMA WindowsAreProven ==
    ASSUME manifest.written, script.name = "none"
    PROVE  /\ WindowReady => MayOpen("repoMarket")
           /\ MarginWindowReady => MayOpen("marginEngine")
BY DEF WindowReady, MarginWindowReady, MayOpen, Proven, PoolAndCustodies, Registered, RiskApplied,
       Valued, The, Address, Engines

LEMMA StartCeremonyStep ==
    ASSUME DInv, NEW name \in Ceremonies, StartCeremony(name) PROVE DInv'
<1>1. /\ manifest.written /\ Agrees(name) /\ script.name = "none"
      /\ UNCHANGED <<profile, contracts, txs, journal, manifest>>
  BY DEF StartCeremony, Idle
<1>2. PICK needed : script' = [name |-> name, at |-> 1, hash |-> 0,
                               needed |-> needed, printed |-> <<>>]
  BY DEF StartCeremony, NoScript
<1>3. /\ script'.name = name /\ script'.at = 1 /\ script'.hash = 0
      /\ script'.needed = needed /\ script'.printed = <<>>
  BY <1>2
<1>4. name # "deploy" /\ name # "none"
  BY DEF Ceremonies
<1>5. /\ name = "window" => MayOpen("repoMarket")
      /\ name = "marginWindow" => MayOpen("marginEngine")
  BY <1>1, WindowsAreProven DEF Agrees
<1>6. DeploymentTypeOK'
  BY <1>1, <1>2, <1>3 DEF DInv, DeploymentTypeOK
<1>7. ScriptSound'
  BY <1>1, <1>3, <1>4 DEF ScriptSound
<1>8. SentWell(txs)' /\ SharedThere' /\ JournalSound(profile, txs, journal)'
  BY <1>1 DEF DInv, SentWell, MayOpen, SharedThere, JournalSound, EntrySound, Known, AddressIn,
              IsShared
<1>9. ManifestSound' /\ Opening'
  BY <1>1, <1>3, <1>5 DEF DInv, ManifestSound, Opening, MayOpen
<1> QED BY <1>6, <1>7, <1>8, <1>9 DEF DInv

\* The deployment goes past a stage whose transaction succeeded.
LEMMA DeployGoesOn ==
    ASSUME DInv, script.name = "deploy", UNCHANGED <<profile, contracts, txs, manifest>>,
           \/ script.at \in DOMAIN DeployStages /\ txs[script.hash].status = "success"
              /\ script.hash # 0
           \/ script.at \notin DOMAIN DeployStages,
           script' = [name |-> script.name, at |-> script.at + 1, hash |-> 0,
                      needed |-> script.needed, printed |-> script.printed],
           journal' \in {journal, script.printed}
    PROVE  DInv'
<1>1. /\ script'.name = "deploy" /\ script'.at = script.at + 1 /\ script'.hash = 0
      /\ script'.needed = script.needed /\ script'.printed = script.printed
  OBVIOUS
<1>2. Deploying /\ script.at \in Nat /\ profile \in {"standard", "hackathon"}
  BY DEF DInv, ScriptSound, DeploymentTypeOK
<1>3. DOMAIN DeployStages \subseteq Nat
  BY <1>2, StagesInOrder
<1>4. Deploying'
  <2>1. DeployStages' = DeployStages
    BY DEF DeployStages
  <2>2. \A i \in DOMAIN DeployStages : i < script.at + 1 =>
           /\ DeployStages[i] \in DOMAIN script.printed
           /\ txs[script.printed[DeployStages[i]]].status = "success"
    BY <1>2, <1>3 DEF Deploying
  <2>3. \A s \in DOMAIN script.printed : \E i \in DOMAIN DeployStages :
           s = DeployStages[i] /\ i < script.at + 1
    BY <1>2, <1>3 DEF Deploying
  <2>4. JournalSound(profile, txs, script.printed)'
    BY <1>1, <1>2 DEF Deploying, JournalSound, EntrySound, Known, AddressIn, IsShared
  <2>5. \A s \in DOMAIN journal' \cap DOMAIN script.printed : script.printed[s] = journal'[s]
    BY <1>2 DEF Deploying
  <2> QED BY <1>1, <1>2, <2>1, <2>2, <2>3, <2>4, <2>5 DEF Deploying
<1>5. DeploymentTypeOK' /\ SharedThere'
  BY <1>1 DEF DInv, DeploymentTypeOK, SharedThere
<1>6. ScriptSound'
  BY <1>1, <1>2, <1>4 DEF ScriptSound, Ceremonies
<1>7. SentWell(txs)'
  BY DEF DInv, SentWell, MayOpen
<1>8. JournalSound(profile, txs, journal)'
  <2>1. JournalSound(profile, txs, journal')
    BY <1>2 DEF Deploying, DInv
  <2> QED BY <2>1
<1>9. ManifestSound' /\ Opening'
  BY <1>1, <1>2 DEF DInv, ManifestSound, Deploying, Opening, MayOpen
<1> QED BY <1>5, <1>6, <1>7, <1>8, <1>9 DEF DInv

LEMMA AdvanceStep ==
    ASSUME DInv, SkipStage \/ ConfirmStage PROVE DInv'
<1>1. /\ AtStage /\ script.name \in {"deploy"} \cup Ceremonies
      /\ script.at \in Nat /\ script.at > 0 /\ script.hash \in Nat
      /\ UNCHANGED <<profile, contracts, txs, journal, manifest>>
      /\ profile \in {"standard", "hackathon"}
  BY DEF SkipStage, ConfirmStage, AtStage, Idle, DInv, ScriptSound, DeploymentTypeOK
<1>2. script' = [name |-> script.name, at |-> script.at + 1, hash |-> 0,
                 needed |-> script.needed, printed |-> script.printed]
  BY DEF SkipStage, ConfirmStage, DInv, DeploymentTypeOK
<1>3. CASE script.name = "deploy"
  <2>1. ConfirmStage
    BY <1>3 DEF SkipStage, Needed
  <2>2. script.hash # 0 /\ txs[script.hash].status = "success"
    BY <2>1 DEF ConfirmStage
  <2>3. script.at \in DOMAIN DeployStages
    BY <1>3, <2>2 DEF DInv, ScriptSound, Deploying
  <2> QED BY <1>1, <1>2, <1>3, <2>2, <2>3, DeployGoesOn
<1>4. CASE script.name # "deploy"
  <2>1. SentWell(txs)' /\ script.name \in Ceremonies
    BY <1>1, <1>4 DEF DInv, SentWell, MayOpen
  <2>2. script.at + 1 \in Nat /\ script.at + 1 > 0 /\ 0 \in Nat
    BY <1>1
  <2> QED BY <1>1, <1>2, <2>1, <2>2, CeremonyGoesOn
<1> QED BY <1>3, <1>4

LEMMA VerifyStep ==
    ASSUME DInv, Verify PROVE DInv'
<1>1. /\ ~Idle /\ script.at = Len(Stages(script.name)) + 1
      /\ UNCHANGED <<profile, contracts, manifest>>
      /\ profile \in {"standard", "hackathon"}
      /\ script.name \in {"deploy"} \cup Ceremonies /\ script.at \in Nat /\ script.hash \in Nat
  BY DEF Verify, AllConfirmed, DInv, ScriptSound, DeploymentTypeOK, Idle
<1>2. CASE ~Verified(script.name)
  <2>1. /\ script' = NoScript /\ txs' = Forget(txs, script.name = "deploy")
        /\ journal' = journal \/ (script.name = "deploy" /\ journal' = script.printed)
    BY <1>2 DEF Verify, Ends, JournalOf
  <2>2. SentWell(txs) /\ Follows(txs, txs)
    BY FollowsItself DEF DInv
  <2> QED BY <1>1, <2>1, <2>2, ScriptEnds
<1>3. CASE Verified(script.name)
  <2>1. /\ txs' = txs /\ script' = [script EXCEPT !.at = @ + 1]
        /\ journal' = IF script.name = "deploy" THEN script.printed ELSE journal
    BY <1>3 DEF Verify, JournalOf
  <2>2. script' = [name |-> script.name, at |-> script.at + 1, hash |-> script.hash,
                   needed |-> script.needed, printed |-> script.printed]
    BY <2>1 DEF DInv, DeploymentTypeOK
  <2>3. CASE script.name = "deploy"
    <3>1. script.at = Len(DeployStages) + 1
      BY <1>1, <2>3 DEF Stages
    <3>2. script.at \notin DOMAIN DeployStages
      BY <1>1, <3>1, StagesInOrder
    <3>3. script.hash = 0
      BY <2>3, <3>2 DEF DInv, ScriptSound, Deploying
    <3> QED BY <1>1, <2>1, <2>2, <2>3, <3>2, <3>3, DeployGoesOn
  <2>4. CASE script.name # "deploy"
    <3>1. SentWell(txs)' /\ script.name \in Ceremonies /\ journal' = journal
      BY <1>1, <2>1, <2>4 DEF DInv, SentWell, MayOpen
    <3>2. script.at + 1 \in Nat /\ script.at + 1 > 0
      BY <1>1
    <3> QED BY <1>1, <2>2, <3>1, <3>2, CeremonyGoesOn
  <2> QED BY <2>3, <2>4
<1> QED BY <1>2, <1>3

\* Once every stage has succeeded, the addresses they print are of contracts that belong together.
LEMMA DeployedIsCoherent ==
    ASSUME DInv, script.name = "deploy", script.at > Len(DeployStages)
    PROVE  /\ [kind \in Kinds |-> Address(kind)] \in [Kinds -> Nat]
           /\ Coherent([kind \in Kinds |-> Address(kind)], contracts)
<1> DEFINE address == [kind \in Kinds |-> Address(kind)]
           m == script.printed
<1>1. /\ profile \in {"standard", "hackathon"} /\ Deploying /\ script.at \in Nat
      /\ contracts \in Seq(ContractRecords)
  BY DEF DInv, DeploymentTypeOK, ScriptSound
<1>2. \A i \in DOMAIN DeployStages :
         /\ DeployStages[i] \in DOMAIN m /\ txs[m[DeployStages[i]]].status = "success"
         /\ EntrySound(profile, txs, m, DeployStages[i])
         /\ TxSound(contracts, txs[m[DeployStages[i]]])
  <2> SUFFICES ASSUME NEW i \in DOMAIN DeployStages
               PROVE  /\ DeployStages[i] \in DOMAIN m
                      /\ txs[m[DeployStages[i]]].status = "success"
                      /\ EntrySound(profile, txs, m, DeployStages[i])
                      /\ TxSound(contracts, txs[m[DeployStages[i]]])
    OBVIOUS
  <2>1. i < script.at
    BY <1>1, StagesInOrder
  <2>2. DeployStages[i] \in DOMAIN m /\ txs[m[DeployStages[i]]].status = "success"
    BY <1>1, <2>1 DEF Deploying
  <2>3. EntrySound(profile, txs, m, DeployStages[i])
    BY <1>1, <2>2 DEF Deploying, JournalSound
  <2> QED BY <2>2, <2>3 DEF EntrySound, DInv, SentWell
<1>3. \A kind \in Kinds : Known(profile, txs, m, kind)
  BY <1>1, <1>2, StagesInOrder DEF Known
<1>4. \A kind \in Kinds : /\ Address(kind) = AddressIn(profile, txs, m, kind)
                          /\ Address(kind) \in DOMAIN contracts
                          /\ contracts[Address(kind)].kind = kind
                          /\ address[kind] = Address(kind)
  BY <1>3, AddressKnown
<1>5. address \in [Kinds -> Nat]
  BY <1>1, <1>4
<1> HIDE DEF address
<1>6. ASSUME NEW engine \in Engines
      PROVE  contracts[address[engine]].on = {address[kind] : kind \in Modules}
  <2> DEFINE s == Creator[engine]
  <2>1. engine \in Kinds /\ engine # "none" /\ ~IsShared(profile, engine) /\ Creates(s) = engine
    BY CreatorOf DEF Engines, Kinds, IsShared, SharedKinds
  <2>2. PICK i \in DOMAIN DeployStages : DeployStages[i] = s
    BY <1>1, <2>1, StagesInOrder
  <2>3. contracts[txs[m[s]].to].on = txs[m[s]].on
    BY <1>2, <2>1, <2>2 DEF TxSound, EntrySound
  <2>4. address[engine] = txs[m[s]].to
    BY <1>4, <2>1 DEF AddressIn
  <2>5. txs[m[s]].on = {AddressIn(profile, txs, m, kind) : kind \in Modules}
    BY <1>2, <2>1, <2>2 DEF EntrySound
  <2>6. \A kind \in Modules : AddressIn(profile, txs, m, kind) = address[kind]
    BY <1>4, ModulesAreKinds
  <2> QED BY <2>3, <2>4, <2>5, <2>6
<1>7. \A s \in {"setMarketPauseGuardian", "setMarginPauseGuardian",
                "configureMarketAsset", "scheduleRiskConfig"} :
         LeftBy(s, contracts[address[WritesTo(s)]])
  <2> SUFFICES ASSUME NEW s \in {"setMarketPauseGuardian", "setMarginPauseGuardian",
                                 "configureMarketAsset", "scheduleRiskConfig"}
               PROVE  LeftBy(s, contracts[address[WritesTo(s)]])
    OBVIOUS
  <2>1. PICK i \in DOMAIN DeployStages : DeployStages[i] = s
    BY <1>1, StagesOfCoherence
  <2>2. Creates(s) = "none"
    BY DEF Creates
  <2>3. txs[m[s]].to = AddressIn(profile, txs, m, WritesTo(s)) /\ txs[m[s]].stage = s
    BY <1>2, <2>1, <2>2 DEF EntrySound
  <2>4. txs[m[s]].to = address[WritesTo(s)]
    BY <1>4, <2>3, CreatorOf
  <2> QED BY <1>2, <2>1, <2>2, <2>3, <2>4 DEF TxSound
<1>8. \A engine \in Engines : GuardianStage(engine) \in contracts[address[engine]].done
  <2>1. WritesTo("setMarketPauseGuardian") = "repoMarket"
    BY DEF WritesTo
  <2>2. WritesTo("setMarginPauseGuardian") = "marginEngine"
    BY DEF WritesTo
  <2> QED BY <1>7, <2>1, <2>2 DEF GuardianStage, Engines, LeftBy, Lasting
<1>9. /\ "configureMarketAsset" \in contracts[address["repoMarket"]].done
      /\ Configured(contracts[address["riskManager"]])
  <2>1. WritesTo("configureMarketAsset") = "repoMarket"
    BY DEF WritesTo
  <2>2. WritesTo("scheduleRiskConfig") = "riskManager"
    BY DEF WritesTo
  <2> QED BY <1>7, <2>1, <2>2 DEF LeftBy, Lasting
<1>10. Coherent(address, contracts)
  BY <1>4, <1>6, <1>8, <1>9 DEF Coherent
<1> QED BY <1>5, <1>10 DEF address

LEMMA WriteStep ==
    ASSUME DInv, WriteManifest PROVE DInv'
<1>1. /\ ~Idle /\ script.at = Len(Stages(script.name)) + 2
      /\ script' = NoScript /\ journal' = <<>> /\ txs' = Forget(txs, FALSE)
      /\ UNCHANGED <<profile, contracts>>
      /\ profile \in {"standard", "hackathon"}
      /\ script.name \in {"deploy"} \cup Ceremonies
  BY DEF WriteManifest, DInv, ScriptSound, DeploymentTypeOK, Idle
<1>2. SentWell(Forget(txs, FALSE))
  BY ForgetSound DEF DInv
<1>3. SharedThere' /\ ScriptSound' /\ JournalSound(profile, txs, journal)'
  BY <1>1 DEF DInv, SharedThere, ScriptSound, NoScript, Ceremonies, JournalSound
<1>4. CASE script.name = "deploy"
  <2> DEFINE address == [kind \in Kinds |-> Address(kind)]
  <2>1. ~manifest.written /\ manifest \in [written: BOOLEAN, address: [Kinds -> Nat],
                                           claims: SUBSET Ceremonies]
    BY <1>4 DEF DInv, ScriptSound, Deploying, DeploymentTypeOK
  <2>2. script.at > Len(DeployStages)
    <3>1. Len(DeployStages) \in Nat
      BY <1>1, StagesInOrder
    <3> QED BY <1>1, <1>4, <3>1 DEF Stages
  <2>3. address \in [Kinds -> Nat] /\ Coherent(address, contracts)
    BY <1>4, <2>2, DeployedIsCoherent
  <2>4. manifest' = [manifest EXCEPT !.written = TRUE, !.address = address]
    BY <1>4 DEF WriteManifest
  <2> HIDE DEF address
  <2>5. /\ manifest'.written /\ manifest'.address = address
        /\ manifest' \in [written: BOOLEAN, address: [Kinds -> Nat], claims: SUBSET Ceremonies]
    BY <2>1, <2>3, <2>4
  <2>6. /\ \A hash \in DOMAIN Forget(txs, FALSE), kind \in Engines :
              Forget(txs, FALSE)[hash].stage # ReadyStage(kind)
        /\ \A a \in DOMAIN contracts, kind \in Engines : ReadyStage(kind) \notin contracts[a].done
    BY <1>2, <2>1 DEF SentWell, DInv, Opening, MayOpen
  <2>7. SentWell(txs)'
    BY <1>1, <1>2, <2>6 DEF SentWell
  <2>8. DeploymentTypeOK'
    BY <1>1, <2>5 DEF DInv, DeploymentTypeOK, NoScript
  <2>9. ManifestSound'
    BY <1>1, <2>3, <2>5 DEF ManifestSound
  <2>10. Opening'
    BY <1>1, <2>6 DEF Opening, NoScript
  <2> QED BY <1>3, <2>7, <2>8, <2>9, <2>10 DEF DInv
<1>5. CASE script.name # "deploy"
  <2>1. script.name \in Ceremonies /\ manifest.written
    BY <1>1, <1>5 DEF DInv, ScriptSound
  <2>2. manifest \in [written: BOOLEAN, address: [Kinds -> Nat], claims: SUBSET Ceremonies]
    BY DEF DInv, DeploymentTypeOK
  <2>3. manifest' = [manifest EXCEPT !.claims = @ \cup {script.name}]
    BY <1>5 DEF WriteManifest
  <2>4. /\ manifest'.written = manifest.written /\ manifest'.address = manifest.address
        /\ manifest' \in [written: BOOLEAN, address: [Kinds -> Nat], claims: SUBSET Ceremonies]
    BY <2>1, <2>2, <2>3
  <2>5. \A kind : MayOpen(kind)' <=> MayOpen(kind)
    BY <1>1, <2>4 DEF MayOpen
  <2>6. SentWell(txs)'
    BY <1>1, <1>2, <2>4, <2>5 DEF SentWell
  <2>7. DeploymentTypeOK'
    BY <1>1, <2>4 DEF DInv, DeploymentTypeOK, NoScript
  <2>8. ManifestSound'
    BY <1>1, <2>4 DEF DInv, ManifestSound
  <2>9. Opening'
    BY <1>1, <2>4, <2>5 DEF DInv, Opening, NoScript
  <2> QED BY <1>3, <2>6, <2>7, <2>8, <2>9 DEF DInv
<1> QED BY <1>4, <1>5

-----------------------------------------------------------------------------
(* The invariant, and what it gives.                                        *)

LEMMA DInvInit == Init => DInv
<1> SUFFICES ASSUME Init PROVE DInv
  OBVIOUS
<1>1. /\ profile \in {"standard", "hackathon"}
      /\ contracts = IF profile = "hackathon" THEN SharedContracts ELSE <<>>
      /\ txs = <<>> /\ journal = <<>> /\ script = NoScript /\ ~manifest.written
      /\ manifest = [written |-> FALSE, address |-> [kind \in Kinds |-> 0], claims |-> {}]
  BY DeploymentConstants DEF Init
<1> DEFINE c(kind, owner, pendingOwner, done) ==
              [kind |-> kind, on |-> {}, owner |-> owner,
               pendingOwner |-> pendingOwner, done |-> done]
<1>2. SharedContracts =
         << c("moduleFactory", "activation", "none", {"moduleFactoryRegistrarRole"}),
            c("assetRegistry", "deployer", "final", {"enableCvaAsset"}),
            c("valuationOracle", "deployer", "final", {}) >>
  <2>1. [Contract("moduleFactory", {}, "activation")
            EXCEPT !.done = {"moduleFactoryRegistrarRole"}]
           = c("moduleFactory", "activation", "none", {"moduleFactoryRegistrarRole"})
    BY DEF Contract
  <2>2. [Contract("assetRegistry", {}, "deployer")
            EXCEPT !.pendingOwner = "final", !.done = {"enableCvaAsset"}]
           = c("assetRegistry", "deployer", "final", {"enableCvaAsset"})
    <3>1. Contract("assetRegistry", {}, "deployer")
             = [kind |-> "assetRegistry", on |-> {}, owner |-> "deployer",
                pendingOwner |-> "none", done |-> {}]
      BY DEF Contract
    <3> DEFINE r == Contract("assetRegistry", {}, "deployer")
    <3>3. [r EXCEPT !.pendingOwner = "final", !.done = {"enableCvaAsset"}]
             = [[r EXCEPT !.pendingOwner = "final"] EXCEPT !.done = {"enableCvaAsset"}]
      OBVIOUS
    <3>4. [r EXCEPT !.pendingOwner = "final"]
             = [kind |-> "assetRegistry", on |-> {}, owner |-> "deployer",
                pendingOwner |-> "final", done |-> {}]
      BY <3>1
    <3>5. [[kind |-> "assetRegistry", on |-> {}, owner |-> "deployer",
            pendingOwner |-> "final", done |-> {}] EXCEPT !.done = {"enableCvaAsset"}]
             = c("assetRegistry", "deployer", "final", {"enableCvaAsset"})
      OBVIOUS
    <3>6. [[r EXCEPT !.pendingOwner = "final"] EXCEPT !.done = {"enableCvaAsset"}]
             = c("assetRegistry", "deployer", "final", {"enableCvaAsset"})
      BY <3>4, <3>5, Zenon
    <3> HIDE DEF r, c
    <3>7. [r EXCEPT !.pendingOwner = "final", !.done = {"enableCvaAsset"}]
             = c("assetRegistry", "deployer", "final", {"enableCvaAsset"})
      BY <3>3, <3>6, Zenon
    <3> QED BY <3>7 DEF r
  <2>3. [Contract("valuationOracle", {}, "deployer") EXCEPT !.pendingOwner = "final"]
           = c("valuationOracle", "deployer", "final", {})
    BY DEF Contract
  <2> QED BY <2>1, <2>2, <2>3 DEF SharedContracts
<1>3. /\ c("moduleFactory", "activation", "none", {"moduleFactoryRegistrarRole"})
            \in ContractRecords
      /\ c("assetRegistry", "deployer", "final", {"enableCvaAsset"}) \in ContractRecords
      /\ c("valuationOracle", "deployer", "final", {}) \in ContractRecords
  BY DEF ContractRecords, Kinds, Owners, StageNames
<1>4. /\ SharedContracts \in Seq(ContractRecords) /\ DOMAIN SharedContracts = 1..3
      /\ SharedContracts[1].kind = "moduleFactory" /\ SharedContracts[2].kind = "assetRegistry"
      /\ SharedContracts[3].kind = "valuationOracle"
      /\ SharedContracts[1].done = {"moduleFactoryRegistrarRole"}
      /\ SharedContracts[2].done = {"enableCvaAsset"} /\ SharedContracts[3].done = {}
  BY <1>2, <1>3
<1>5. contracts \in Seq(ContractRecords)
  BY <1>1, <1>4
<1>6. DeploymentTypeOK
  BY <1>1, <1>5 DEF DeploymentTypeOK, NoScript
<1>7. SentWell(txs)
  BY <1>1 DEF SentWell, PendingLast
<1>8. SharedThere
  BY <1>1, <1>4 DEF SharedThere, SharedKinds, SharedAt
<1>9. ScriptSound /\ JournalSound(profile, txs, journal) /\ ManifestSound
  BY <1>1 DEF ScriptSound, NoScript, Ceremonies, JournalSound, ManifestSound
<1>10. Opening
  <2>1. \A a \in DOMAIN contracts, kind \in Engines : ReadyStage(kind) \notin contracts[a].done
    BY <1>1, <1>4 DEF ReadyStage
  <2> QED BY <1>1, <2>1 DEF Opening, NoScript
<1> QED BY <1>6, <1>7, <1>8, <1>9, <1>10 DEF DInv

LEMMA DInvNext == DInv /\ [Next]_vars => DInv'
<1> SUFFICES ASSUME DInv, [Next]_vars PROVE DInv'
  OBVIOUS
<1>1. CASE StartDeployment
  BY <1>1, StartStep
<1>2. CASE \E name \in Ceremonies : StartCeremony(name)
  BY <1>2, StartCeremonyStep
<1>3. CASE RecoverStage
  BY <1>3, RecoverStep
<1>4. CASE SubmitStage
  BY <1>4, SubmitStep
<1>5. CASE SkipStage \/ ConfirmStage
  BY <1>5, AdvanceStep
<1>6. CASE Verify
  BY <1>6, VerifyStep
<1>7. CASE WriteManifest
  BY <1>7, WriteStep
<1>8. CASE SubmitUnanswered \/ SimulationFails \/ StageReverted \/ ReadFails \/ Killed
  BY <1>8, EndStep
<1>9. CASE Mine
  BY <1>9, MineStep
<1>10. CASE Mature
  BY <1>10, MatureStep
<1>11. CASE \E a \in DOMAIN contracts : GuardianPauses(a)
  BY <1>11, GuardianStep
<1>12. CASE UNCHANGED vars
  <2> USE <1>12 DEF vars
  <2>1. DeploymentTypeOK' /\ SharedThere'
    BY DEF DInv, DeploymentTypeOK, SharedThere
  <2>2. SentWell(txs)'
    BY DEF DInv, SentWell, MayOpen
  <2>3. JournalSound(profile, txs, journal)'
    BY DEF DInv, JournalSound, EntrySound, Known, AddressIn, IsShared
  <2>4. ManifestSound' /\ Opening'
    BY DEF DInv, ManifestSound, Opening, MayOpen
  <2>5. ScriptSound'
    <3>1. DeployStages' = DeployStages
      BY DEF DeployStages
    <3>2. JournalSound(profile, txs, script.printed) => JournalSound(profile, txs, script.printed)'
      BY DEF JournalSound, EntrySound, Known, AddressIn, IsShared
    <3>3. Deploying => Deploying'
      BY <3>1, <3>2 DEF Deploying
    <3> QED BY <3>3 DEF DInv, ScriptSound
  <2> QED BY <2>1, <2>2, <2>3, <2>4, <2>5 DEF DInv
<1> QED BY <1>1, <1>2, <1>3, <1>4, <1>5, <1>6, <1>7, <1>8, <1>9, <1>10, <1>11, <1>12
       DEF Next, Run

LEMMA DInvAlways == Spec => []DInv
BY DInvInit, DInvNext, PTL DEF Spec

\* However often the deployment was killed and resumed, the contracts its manifest names belong
\* together: the engines were constructed with the named modules and carry their guardian and
\* asset, the risk manager its configuration.
THEOREM ManifestBelongsTogether == Spec => []ManifestIsCoherent
<1>1. DInv => ManifestIsCoherent
  BY DEF DInv, ManifestSound, Coherent, ManifestIsCoherent, Modules, Configured
<1> QED BY <1>1, DInvAlways, PTL

\* An engine on the chain admits exposure only when it is the manifest's, finally owned, with its
\* pool and custodies registered, on a configured risk manager and a valued oracle.
THEOREM EntryWaitsForProof == Spec => []EntryIsProven
<1>1. ASSUME DInv PROVE EntryIsProven
  <2> SUFFICES ASSUME NEW a \in DOMAIN contracts,
                      contracts[a].kind \in Engines, Admits(contracts[a])
               PROVE  LET c == contracts[a]
                      IN /\ manifest.written /\ manifest.address[c.kind] = a
                         /\ c.owner = "final"
                         /\ IF c.kind = "repoMarket"
                            THEN {"marketPolicyPool", "marketVault", "marketSettlementEscrow"}
                                    \subseteq c.done
                            ELSE {"marginPolicyPool", "marginVault", "marginSettlementEscrow"}
                                    \subseteq c.done
                         /\ "applyRiskConfig" \in Bound(c, "riskManager").done
                         /\ "publishInitialValuation" \in Bound(c, "valuationOracle").done
    BY DEF EntryIsProven
  <2> DEFINE c == contracts[a]
             address == manifest.address
  <2>1. manifest.written /\ Proven(address, contracts, c.kind) /\ a = address[c.kind]
    BY <1>1 DEF DInv, Opening, MayOpen, Admits
  <2>2. Coherent(address, contracts)
    BY <1>1, <2>1 DEF DInv, ManifestSound
  <2>3. ASSUME NEW kind \in Modules PROVE Bound(c, kind) = contracts[address[kind]]
    <3>1. c.on = {address[k] : k \in Modules}
      BY <2>1, <2>2 DEF Coherent
    <3>2. \A k \in Modules : contracts[address[k]].kind = k
      BY <2>2, ModulesAreKinds DEF Coherent
    <3>3. \A b \in c.on : contracts[b].kind = kind <=> b = address[kind]
      BY <3>1, <3>2
    <3>4. address[kind] \in c.on
      BY <3>1
    <3>5. (CHOOSE b \in c.on : contracts[b].kind = kind) = address[kind]
      BY <3>3, <3>4
    <3> QED BY <3>5 DEF Bound
  <2>4. "riskManager" \in Modules /\ "valuationOracle" \in Modules
    BY DEF Modules, SharedKinds
  <2> QED BY <2>1, <2>3, <2>4 DEF Proven, PoolAndCustodies
<1> QED BY <1>1, DInvAlways, PTL

=============================================================================
