---------------------------- MODULE Eligibility ----------------------------
(***************************************************************************)
(* How the API decides whether the transfers of a prepared transaction may *)
(* happen: compliance.ts, with the two evaluators of v2-preflight.ts that  *)
(* call it.                                                                *)
(*                                                                         *)
(* Every transfer is an edge between two wallets in one token.  Each end   *)
(* needs an active CVI, a proof of eligibility for the token, and the      *)
(* admission of the market's compliance pool; the protocol's own custody   *)
(* contracts, which the pool does not admit, pass on the factory's record. *)
(*                                                                         *)
(* Assumed of Cleanverse's API: a wallet has an active CVI and a proof     *)
(* exactly while the pool admits it, custody contracts always, and both    *)
(* tokens are issued and not paused.                                       *)
(***************************************************************************)
EXTENDS SettlementEscrowV2, FiniteSets

CONSTANTS
    Vault, Escrow,      \* the custody contracts of the market, as wallets
    SettlementListed,   \* whether Cleanverse has an application for the settlement token
    CustodyRecorded     \* whether the module factory is configured and vouches for custody

ASSUME EligibilityAssumption ==
    /\ Vault # Escrow
    /\ {Vault, Escrow} \cap (Account \cup {NoAccount}) = {}
    /\ SettlementListed \in BOOLEAN /\ CustodyRecorded \in BOOLEAN

CustodyContracts == {Vault, Escrow}
Cva == "CVA"
Settlement == "SETTLEMENT"
Edge(token, from, to) == [token |-> token, from |-> from, to |-> to]

\* The reasons whose check fires.
Blocking(checks) == {reason \in DOMAIN checks : checks[reason]}

\* verifyApass: eligible for the token, known without a proof for it, or not known.
VerificationCode(wallet, token) ==
    IF wallet \notin compliant \cup CustodyContracts THEN 2
    ELSE IF token = Cva \/ SettlementListed THEN 4
    ELSE 1

\* A supported settlement token without an application falls back on the pool.
EligibilitySource(wallet, token) ==
    CASE VerificationCode(wallet, token) = 4 -> "CLEANVERSE_API"
      [] VerificationCode(wallet, token) = 1 -> "ONCHAIN_POLICY_POOL"
      [] OTHER -> "NONE"

ComplianceOf(wallet, token) ==
    [cviActive |-> wallet \in compliant \cup CustodyContracts,
     verificationCode |-> VerificationCode(wallet, token),
     eligibilitySource |-> EligibilitySource(wallet, token),
     poolEligible |-> wallet \in compliant]

\* The factory is asked only about wallets the pool rejects.
RegisteredCustody(wallet) ==
    CustodyRecorded /\ wallet \in CustodyContracts /\ wallet \notin compliant

HasEligibleCviProof(result, registered) ==
    \/ result.verificationCode = 4
    \/ /\ result.eligibilitySource = "ONCHAIN_POLICY_POOL"
       /\ result.poolEligible \/ registered

MissingOrInactive(result) ==
    IF result.cviActive THEN {}
    ELSE IF result.verificationCode = 2 THEN {"CVI_MISSING"} ELSE {"CVI_INACTIVE"}

\* decisionReasons: one end of an edge.
DecisionReasons(wallet, token) ==
    LET result == ComplianceOf(wallet, token)
        registered == RegisteredCustody(wallet)
    IN  MissingOrInactive(result) \cup
        Blocking([CVI_INELIGIBLE |-> \/ ~HasEligibleCviProof(result, registered)
                                     \/ ~registered /\ ~result.poolEligible])

\* evaluateTransferGraph and evaluateEdges.
EvaluateEdges(edges) ==
    UNION {DecisionReasons(edge.from, edge.token) \cup DecisionReasons(edge.to, edge.token)
              : edge \in edges}

\* evaluateParticipants: callers and recipients need the pool's admission, custody or not.
ParticipantReasons(wallet, token) ==
    LET result == ComplianceOf(wallet, token)
    IN  MissingOrInactive(result) \cup
        Blocking([CVI_INELIGIBLE |-> \/ ~HasEligibleCviProof(result, FALSE)
                                     \/ ~result.poolEligible])

EvaluateParticipants(wallets, token) ==
    UNION {ParticipantReasons(wallet, token) : wallet \in wallets}

-----------------------------------------------------------------------------
(* What every answer is made of.                                            *)

Prepared(reasons, approvals, transactions) ==
    [reasons |-> reasons, approvals |-> approvals, transactions |-> transactions]

Transaction(to, function, args) == [to |-> to, function |-> function, args |-> args]

\* roleError: nothing is prepared for anybody but the party the action belongs to.
RoleNotAllowed == Prepared({"ROLE_NOT_ALLOWED"}, {}, <<>>)

\* An approval is asked for exactly the amount about to be spent.
ApprovalsFor(token, spender, amount, allowance) ==
    IF allowance < amount
    THEN {[token |-> token, spender |-> spender, amount |-> amount]}
    ELSE {}

\* What the payer must hold and have approved.
FundsReasons(balance, allowance, amount) ==
    Blocking([INSUFFICIENT_BALANCE |-> balance < amount,
              INSUFFICIENT_ALLOWANCE |-> allowance < amount])
=============================================================================
