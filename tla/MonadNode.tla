----------------------------- MODULE MonadNode -----------------------------
(***************************************************************************)
(* The chain and the transaction pool as one sending account sees them     *)
(* through its RPC node.  External: written from how the services read     *)
(* and write it.  The blocks below the confirmation depth are one summary; *)
(* the blocks above it can be reorganised away.  Every transaction tries   *)
(* to move one target (an offer, a position, an account) out of the state  *)
(* its call needs, and reverts when the target has left it already.        *)
(***************************************************************************)
EXTENDS Naturals, Sequences, FiniteSets, FiniteSetsExt

CONSTANTS
    Target,          \* what calls act upon, each at most once
    Confirmations,   \* INDEXER_CONFIRMATIONS, the depth at which a block is final
    MaxFee,          \* bound: fee levels of one call, 0..MaxFee
    MaxReorgs,       \* bound: reorganisations
    MaxDrops         \* bound: transactions evicted from the pool

ASSUME NodeConstants ==
    /\ Confirmations \in Nat \ {0}
    /\ MaxFee \in Nat /\ MaxReorgs \in Nat /\ MaxDrops \in Nat

VARIABLES
    final,    \* summary of the final blocks
    recent,   \* the last Confirmations blocks, oldest first
    pool,     \* signed transactions the node holds
    reorgs,   \* reorganisations so far
    drops     \* evictions so far

nodeVars == <<final, recent, pool, reorgs, drops>>

Block(sent, done) == [sent |-> sent, done |-> done]
EmptyBlock == Block({}, {})

NodeInit ==
    /\ final = EmptyBlock
    /\ recent = [i \in 1..Confirmations |-> EmptyBlock]
    /\ pool = {}
    /\ reorgs = 0
    /\ drops = 0

\* Receipts of the account's transactions and the targets moved, as the latest block shows them.
Receipts == final.sent \union UNION {recent[i].sent : i \in 1..Confirmations}
Done == final.done \union UNION {recent[i].done : i \in 1..Confirmations}

\* eth_getTransactionCount for 'latest' and for 'pending'.
LatestNonce == Cardinality(Receipts)
PendingNonce ==
    Min({n \in LatestNonce..(LatestNonce + Cardinality(pool)) :
            \A tx \in pool : tx.nonce # n})

\* Blocks on top of the one that holds receipt r.
Depth(r) ==
    IF r \in final.sent THEN Confirmations
    ELSE Confirmations - (CHOOSE i \in 1..Confirmations : r \in recent[i].sent)

\* eth_sendRawTransaction: a known, underpriced or spent transaction is refused.
Accepts(tx) ==
    /\ tx.nonce >= LatestNonce
    /\ \A other \in pool : other.nonce = tx.nonce => other.fee < tx.fee
Send(tx) ==
    pool' = IF Accepts(tx) THEN {other \in pool : other.nonce # tx.nonce} \union {tx} ELSE pool

Extend(block) ==
    /\ final' = Block(final.sent \union recent[1].sent, final.done \union recent[1].done)
    /\ recent' = Append(Tail(recent), block)
    /\ UNCHANGED <<reorgs, drops>>

MineTransaction(tx) ==
    LET ok == tx.target \notin Done IN
    /\ tx \in pool
    /\ tx.nonce = LatestNonce
    /\ pool' = pool \ {tx}
    /\ Extend(Block({[tx |-> tx, ok |-> ok]}, IF ok THEN {tx.target} ELSE {}))

\* Another account moves the target: a repayment, a cancellation, a bid, another keeper.
MineOther(t) ==
    /\ t \notin Done
    /\ pool' = pool
    /\ Extend(Block({}, {t}))

MineNothing ==
    /\ pool' = pool
    /\ Extend(EmptyBlock)

\* The last k blocks are replaced by others; their transactions return to the pool.
Reorganise(k) ==
    LET undone == UNION {recent[i].sent : i \in (Confirmations - k + 1)..Confirmations} IN
    /\ reorgs < MaxReorgs
    /\ reorgs' = reorgs + 1
    /\ recent' = [i \in 1..Confirmations |->
                     IF i > Confirmations - k THEN EmptyBlock ELSE recent[i]]
    /\ pool' = pool \union {r.tx : r \in undone}
    /\ UNCHANGED <<final, drops>>

Evict(tx) ==
    /\ drops < MaxDrops
    /\ tx \in pool
    /\ drops' = drops + 1
    /\ pool' = pool \ {tx}
    /\ UNCHANGED <<final, recent, reorgs>>
=============================================================================
