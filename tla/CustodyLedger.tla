--------------------------- MODULE CustodyLedger ---------------------------
(***************************************************************************)
(* What tri-party custody promises the owners of collateral, without the   *)
(* buckets: tokens enter for an owner, stay owed to that owner however     *)
(* they are pledged, and leave only by reducing what that owner is owed.   *)
(* A donation raises what is held and is owed to nobody.                   *)
(***************************************************************************)
EXTENDS Integers

CONSTANTS Holder, InitialTokens

VARIABLES
    owed,       \* what each owner has in custody, free or pledged
    held,       \* the tokens in custody
    wallet      \* the tokens of each holder outside

ledger == <<owed, held, wallet>>

LedgerInit ==
    /\ owed = [a \in Holder |-> 0]
    /\ held = 0
    /\ wallet = InitialTokens

TakeIn(a, n) ==
    /\ owed' = [owed EXCEPT ![a] = @ + n]
    /\ held' = held + n
    /\ wallet' = [wallet EXCEPT ![a] = @ - n]

LetOut(a, b, n) ==
    /\ owed' = [owed EXCEPT ![a] = @ - n]
    /\ held' = held - n
    /\ wallet' = [wallet EXCEPT ![b] = @ + n]

Donate(a, n) ==
    /\ held' = held + n
    /\ wallet' = [wallet EXCEPT ![a] = @ - n]
    /\ UNCHANGED owed

LedgerNext ==
    \E a \in Holder :
        \/ \E n \in 1..wallet[a] : TakeIn(a, n) \/ Donate(a, n)
        \/ \E b \in Holder, n \in 1..owed[a] : LetOut(a, b, n)

LedgerSpec == LedgerInit /\ [][LedgerNext]_ledger
=============================================================================
