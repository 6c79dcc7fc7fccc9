------------------------- MODULE SettlementEscrowV2 -------------------------
(***************************************************************************)
(* The settlement token and the escrow that holds proceeds for             *)
(* beneficiaries who cannot or need not be paid at once.                   *)
(*                                                                         *)
(* A market transaction may move settlement tokens and record claims       *)
(* several times, so both are functions of a `book`:                       *)
(*   cash        settlementToken.balanceOf each account                    *)
(*   escrowCash  settlementToken.balanceOf(escrow)                         *)
(*   totalClaims, claimable, claims   the escrow's own accounting          *)
(* and a transaction's new book is the composition of its calls.           *)
(***************************************************************************)
EXTENDS BlockContext, Sequences

CONSTANTS
    InitialCash     \* the settlement tokens each account holds at the start

ASSUME CashAssumption == InitialCash \in [Account -> Nat]

VARIABLES
    book,           \* token balances and escrow accounting
    compliant       \* accounts validator.complianceVerify accepts

escrowVars == <<book, compliant>>

Claim == [beneficiary: Account, remaining: Nat]
Book == [cash: [Account -> Nat], escrowCash: Nat, totalClaims: Nat,
         claimable: [Account -> Nat], claims: Seq(Claim)]

EscrowInit ==
    /\ book = [cash |-> InitialCash, escrowCash |-> 0, totalClaims |-> 0,
               claimable |-> [a \in Account |-> 0], claims |-> <<>>]
    /\ compliant = Account

\* settlementToken.safeTransferFrom succeeds if the payer holds the amount.
CanPay(b, payer, amount) == b.cash[payer] >= amount

\* _transferSettlementExact between accounts: nothing moves from an account to itself.
PaidTo(b, payer, recipient, amount) ==
    IF payer = recipient
    THEN b
    ELSE [b EXCEPT !.cash[payer] = @ - amount, !.cash[recipient] = @ + amount]

\* _transferSettlementExact into the escrow.
PaidToEscrow(b, payer, amount) ==
    [b EXCEPT !.cash[payer] = @ - amount, !.escrowCash = @ + amount]

\* recordClaim admits only amounts the escrow holds beyond its claims.
CanRecordClaims(b, amount) == amount <= b.escrowCash - b.totalClaims

\* Deviation: the claim is not counted in totalClaims.
WithClaimUncounted(b, beneficiary, amount) ==
    IF amount = 0
    THEN b
    ELSE [b EXCEPT !.claimable[beneficiary] = @ + amount,
                   !.claims = Append(@, [beneficiary |-> beneficiary, remaining |-> amount])]

\* recordClaim; the callers skip it for an amount of zero.
WithClaim(b, beneficiary, amount) ==
    IF amount = 0
    THEN b
    ELSE [b EXCEPT !.totalClaims = @ + amount,
                   !.claimable[beneficiary] = @ + amount,
                   !.claims = Append(@, [beneficiary |-> beneficiary, remaining |-> amount])]

\* _payOrEscrow: a beneficiary the compliance pool rejects is paid a claim instead.
CanPayOrEscrow(b, payer, beneficiary, amount) ==
    IF beneficiary \in compliant
    THEN payer = beneficiary \/ CanPay(b, payer, amount)
    ELSE /\ CanPay(b, payer, amount)
         /\ CanRecordClaims(PaidToEscrow(b, payer, amount), amount)

PaidOrEscrowed(b, payer, beneficiary, amount) ==
    IF beneficiary \in compliant
    THEN PaidTo(b, payer, beneficiary, amount)
    ELSE WithClaim(PaidToEscrow(b, payer, amount), beneficiary, amount)

\* The book after `claim` pays `amount` of claim c to the recipient.
ClaimPaid(b, c, amount, recipient) ==
    [b EXCEPT !.claims[c].remaining = @ - amount,
              !.claimable[b.claims[c].beneficiary] = @ - amount,
              !.totalClaims = @ - amount,
              !.escrowCash = @ - amount,
              !.cash[recipient] = @ + amount]

\* claim(claimId, amount, recipient), called by the beneficiary, in parts if it likes.
ClaimSettlement(caller, c, amount, recipient) ==
    /\ c \in DOMAIN book.claims
    /\ book.claims[c].beneficiary = caller
    /\ {caller, recipient} \subseteq compliant
    /\ amount > 0
    /\ amount <= book.claims[c].remaining
    /\ amount <= book.claimable[caller] /\ amount <= book.totalClaims     \* checked arithmetic
    /\ amount <= book.escrowCash
    /\ book' = ClaimPaid(book, c, amount, recipient)
    /\ UNCHANGED compliant

\* The compliance pool admits or suspends an account at any time.
SetCompliance(a, ok) ==
    /\ (a \in compliant) # ok
    /\ compliant' = IF ok THEN compliant \cup {a} ELSE compliant \ {a}
    /\ UNCHANGED book

EscrowTypeOK ==
    /\ book \in Book
    /\ compliant \subseteq Account
=============================================================================
