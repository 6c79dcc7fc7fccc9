--------------------------- MODULE WalletSession ---------------------------
(***************************************************************************)
(* The React client while it executes one V2 action of its user:           *)
(* executeV2Action and reconcilePendingV2 of AppLive.jsx over the pending  *)
(* records of v2-pending.js.                                               *)
(*                                                                         *)
(* An action is preflighted, approved, preflighted again, signed call by   *)
(* call and waited for until it is indexed.  Every transaction handed to   *)
(* the wallet leaves a record in the browser's storage, which all tabs     *)
(* share and which survives a reload; while the wallet has a record nobody *)
(* may start an action, and every idle tab tries to resolve it.            *)
(*                                                                         *)
(* One user wants one action done and tries again until told that it is.   *)
(***************************************************************************)
EXTENDS Naturals, FiniteSets, SequencesExt

CONSTANTS
    Tab,            \* the open tabs of the client
    Kinds,          \* actions the user may want, of "fill", "create-offer" and "repay"
    Amount,         \* what a fill pays, an offer pledges, a position owes at first
    DriftBuffer,    \* the increase of the payoff that the form's ceiling covers
    MaxTime,        \* bound: how long the payoff grows, one unit per tick
    MaxTxs,         \* bound: transactions
    MaxMishaps      \* bound: reloads, failed reads, replaced or unrecorded transactions

ASSUME WalletConstants ==
    /\ Kinds \subseteq {"fill", "create-offer", "repay"}
    /\ Amount \in Nat \ {0}
    /\ {DriftBuffer, MaxTime, MaxTxs, MaxMishaps} \subseteq Nat

VARIABLES
    kind,       \* the action the user wants
    told,       \* whether the user has been told that it is done
    tabs,       \* what each tab is doing
    records,    \* localStorage: pending executions of the wallet, oldest first
    txs,        \* transactions in nonce order; a hash is an index into it
    indexed,    \* hashes the indexer has found and finalized
    ledger,     \* the wallet's allowance, its free collateral, and how often the action is done
    time,
    mishaps,    \* how many there were so far
    broken      \* which guarantees of the browser or the wallet they broke

vars == <<kind, told, tabs, records, txs, indexed, ledger, time, mishaps, broken>>

-----------------------------------------------------------------------------
(* v2-pending.js                                                            *)

Submitted(hash, hashes, completes) ==
    [phase |-> "submitted", hash |-> hash, hashes |-> hashes, completes |-> completes]
Indexing(hashes) ==
    [phase |-> "indexing", hash |-> 0, hashes |-> hashes, completes |-> TRUE]

\* pendingRecordId
SameId(r, q) ==
    /\ r.phase = q.phase
    /\ IF r.phase = "submitted" THEN r.hash = q.hash ELSE r.hashes = q.hashes

\* The storage holds one record per id at most, so the filter takes out one at most.
Without(list, r) ==
    IF \E i \in DOMAIN list : SameId(list[i], r)
    THEN RemoveAt(list, CHOOSE i \in DOMAIN list : SameId(list[i], r))
    ELSE list
Upsert(list, r) ==
    IF \E i \in DOMAIN list : SameId(list[i], r)
    THEN [i \in DOMAIN list |-> IF SameId(list[i], r) THEN r ELSE list[i]]
    ELSE Append(list, r)

\* Deviation: whatever is pending, the page that is idle may start.
UnlockedAlways == TRUE

\* pendingForWallet
Unlocked == records = <<>>

-----------------------------------------------------------------------------
(* What the preflight answers for the wanted action.                        *)

Payoff == Amount + time
Deficit == IF ledger.free < Amount THEN Amount - ledger.free ELSE 0

\* What the next call takes out of the wallet, and the exact approval still missing for it.
Needed ==
    CASE kind = "fill" -> Amount
      [] kind = "create-offer" -> Deficit
      [] kind = "repay" -> Payoff
ApprovalMissing == ledger.allowance < Needed

Calls ==
    CASE kind = "fill" -> <<"fill">>
      [] kind = "create-offer" -> (IF Deficit > 0 THEN <<"deposit">> ELSE <<>>) \o <<"offer">>
      [] kind = "repay" -> <<"repay">>

\* Blocking reasons other than the allowance.
Blocked(ceiling) ==
    kind = "repay" /\ (ledger.done > 0 \/ Payoff > ceiling)

-----------------------------------------------------------------------------
(* The chain.                                                               *)

Tx(call, amount) == [call |-> call, amount |-> amount, status |-> "pool"]
Status(hash) == txs[hash].status

\* A call succeeds when it is paid for, and an offer when it is backed.
Succeeds(tx) ==
    CASE tx.call = "approve" -> TRUE
      [] tx.call \in {"deposit", "fill"} -> ledger.allowance >= Amount
      [] tx.call = "offer" -> ledger.free >= Amount
      [] tx.call = "repay" -> /\ ledger.done = 0
                              /\ Payoff <= tx.amount /\ Payoff <= ledger.allowance

After(tx) ==
    CASE tx.call = "approve" -> [ledger EXCEPT !.allowance = tx.amount]
      [] tx.call = "deposit" -> [ledger EXCEPT !.allowance = @ - Amount, !.free = @ + Amount]
      [] tx.call = "offer" -> [ledger EXCEPT !.free = @ - Amount, !.done = @ + 1]
      [] tx.call = "fill" -> [ledger EXCEPT !.allowance = @ - Amount, !.done = @ + 1]
      [] tx.call = "repay" -> [ledger EXCEPT !.allowance = @ - Payoff, !.done = @ + 1]

Mine(hash) ==
    /\ Status(hash) = "pool"
    /\ \A earlier \in 1..(hash - 1) : Status(earlier) # "pool"
    /\ IF Succeeds(txs[hash])
       THEN /\ txs' = [txs EXCEPT ![hash].status = "ok"]
            /\ ledger' = After(txs[hash])
       ELSE /\ txs' = [txs EXCEPT ![hash].status = "reverted"]
            /\ UNCHANGED ledger
    /\ UNCHANGED <<kind, told, tabs, records, indexed, time, mishaps, broken>>

\* The indexer reads the protocol's contracts, not the tokens.
Index(hash) ==
    /\ Status(hash) = "ok" /\ txs[hash].call # "approve" /\ hash \notin indexed
    /\ indexed' = indexed \union {hash}
    /\ UNCHANGED <<kind, told, tabs, records, txs, ledger, time, mishaps, broken>>

Tick ==
    /\ kind = "repay" /\ time < MaxTime
    /\ time' = time + 1
    /\ UNCHANGED <<kind, told, tabs, records, txs, indexed, ledger, mishaps, broken>>

-----------------------------------------------------------------------------
(* A tab.  It holds an execution (its stage, the calls to come, the hashes  *)
(* of the calls made), the record a reconciliation is looking at, and the   *)
(* record whose indexing it waits for in the background.                    *)

NoRecord == Submitted(0, {}, FALSE)

Idle ==
    [stage |-> "idle", busy |-> FALSE, ceiling |-> 0, call |-> "none", todo |-> <<>>,
     hash |-> 0, made |-> {}, look |-> NoRecord, waiting |-> {}, refused |-> FALSE]

Init ==
    /\ kind \in Kinds
    /\ told = FALSE
    /\ tabs = [t \in Tab |-> Idle]
    /\ records = <<>>
    /\ txs = <<>>
    /\ indexed = {}
    /\ ledger = [allowance |-> 0, free |-> 0, done |-> 0]
    /\ time = 0
    /\ mishaps = 0
    /\ broken = {}

Goto(t, stage) == tabs' = [tabs EXCEPT ![t].stage = stage]

\* The end of an execution, which keeps what runs beside it.
Stop(t, busy) ==
    tabs' = [tabs EXCEPT ![t] = [Idle EXCEPT !.look = tabs[t].look, !.busy = busy,
                                             !.waiting = tabs[t].waiting]]

\* A button is pressed: by one user, in one tab at a time.
Start(t) ==
    /\ \A u \in Tab : tabs[u].stage = "idle"
    /\ ~told /\ ~tabs[t].busy
    /\ Unlocked
    /\ tabs' = [tabs EXCEPT ![t].stage = "preflight", ![t].busy = TRUE, ![t].refused = FALSE,
                            ![t].ceiling = Payoff + DriftBuffer]
    /\ UNCHANGED <<kind, told, records, txs, indexed, ledger, time, mishaps, broken>>

\* The wallet is asked for the approval, or for the first call.
Sign(t, call, todo) ==
    tabs' = [tabs EXCEPT ![t].stage = "wallet", ![t].call = call, ![t].todo = todo]

Preflight(t) ==
    /\ tabs[t].stage = "preflight"
    /\ IF Blocked(tabs[t].ceiling) THEN Stop(t, FALSE)
       ELSE IF ApprovalMissing THEN Sign(t, "approve", <<>>)
       ELSE Sign(t, Head(Calls), Tail(Calls))
    /\ UNCHANGED <<kind, told, records, txs, indexed, ledger, time, mishaps, broken>>

\* After the approval nothing but an answer that asks for none will do.
PreflightAgain(t) ==
    /\ tabs[t].stage = "preflight again"
    /\ IF ApprovalMissing
       THEN tabs' = [tabs EXCEPT ![t] = [Idle EXCEPT !.look = tabs[t].look, !.refused = TRUE,
                                                     !.waiting = tabs[t].waiting]]
       ELSE IF Blocked(tabs[t].ceiling) THEN Stop(t, FALSE)
       ELSE Sign(t, Head(Calls), Tail(Calls))
    /\ UNCHANGED <<kind, told, records, txs, indexed, ledger, time, mishaps, broken>>

\* The API fails, the quote is too old, or the user rejects the signature.
GiveUp(t) ==
    /\ tabs[t].stage \in {"preflight", "preflight again", "wallet"}
    /\ Stop(t, FALSE)
    /\ UNCHANGED <<kind, told, records, txs, indexed, ledger, time, mishaps, broken>>

\* eth_sendTransaction, whose hash has not come back yet.
WalletSends(t) ==
    LET amount == IF tabs[t].call = "approve" THEN Needed ELSE tabs[t].ceiling IN
    /\ tabs[t].stage = "wallet"
    /\ Len(txs) < MaxTxs
    /\ txs' = Append(txs, Tx(tabs[t].call, amount))
    /\ tabs' = [tabs EXCEPT ![t].stage = "handed over", ![t].hash = Len(txs) + 1]
    /\ UNCHANGED <<kind, told, records, indexed, ledger, time, mishaps, broken>>

\* The hashes to be indexed: the calls, not the approval.
Made(t) ==
    IF tabs[t].call = "approve" THEN {} ELSE tabs[t].made \union {tabs[t].hash}

\* Deviation: the approval is recorded as the calls are.
RecordAlike(t) == Submitted(tabs[t].hash, tabs[t].made \union {tabs[t].hash}, tabs[t].todo = <<>>)

\* onSubmitted
Record(t) ==
    Submitted(tabs[t].hash, Made(t), tabs[t].call # "approve" /\ tabs[t].todo = <<>>)

Persist(t) ==
    /\ tabs[t].stage = "handed over"
    /\ records' = Upsert(records, Record(t))
    /\ Goto(t, "sent")
    /\ UNCHANGED <<kind, told, txs, indexed, ledger, time, mishaps, broken>>

\* The receipt of a call, or after that of the last one the wait for the indexer.
Confirmed(t) ==
    LET rest == Without(records, Record(t)) IN
    /\ tabs[t].stage = "sent" /\ Status(tabs[t].hash) = "ok"
    /\ IF tabs[t].call = "approve"
       THEN Goto(t, "preflight again") /\ records' = rest
       ELSE IF tabs[t].todo # <<>>
       THEN /\ tabs' = [tabs EXCEPT ![t].stage = "wallet", ![t].made = Made(t),
                                    ![t].call = Head(tabs[t].todo), ![t].todo = Tail(tabs[t].todo)]
            /\ records' = rest
       ELSE /\ tabs' = [tabs EXCEPT ![t].stage = "indexing", ![t].made = Made(t)]
            /\ records' = Upsert(rest, Indexing(Made(t)))
    /\ UNCHANGED <<kind, told, txs, indexed, ledger, time, mishaps, broken>>

Reverted(t) ==
    /\ tabs[t].stage = "sent" /\ Status(tabs[t].hash) = "reverted"
    /\ records' = Without(records, Record(t))
    /\ Stop(t, FALSE)
    /\ UNCHANGED <<kind, told, txs, indexed, ledger, time, mishaps, broken>>

\* No receipt in time: the action stays locked.
ReceiptUnknown(t) ==
    /\ tabs[t].stage = "sent" /\ Status(tabs[t].hash) \notin {"ok", "reverted"}
    /\ Stop(t, TRUE)
    /\ UNCHANGED <<kind, told, records, txs, indexed, ledger, time, mishaps, broken>>

\* The user hears of success; the page is free again once no record is left.
Finish(t, hashes, tab) ==
    LET rest == Without(records, Indexing(hashes)) IN
    /\ records' = rest
    /\ told' = TRUE
    /\ tabs' = [tabs EXCEPT ![t] = [tab EXCEPT !.busy = @ /\ rest # <<>>]]

IndexedInTime(t) ==
    /\ tabs[t].stage = "indexing" /\ tabs[t].made \subseteq indexed
    /\ records' = Without(records, Indexing(tabs[t].made))
    /\ told' = TRUE
    /\ Stop(t, FALSE)
    /\ UNCHANGED <<kind, txs, indexed, ledger, time, mishaps, broken>>

WaitInBackground(t) ==
    /\ tabs[t].stage = "indexing" /\ ~(tabs[t].made \subseteq indexed)
    /\ tabs' = [tabs EXCEPT ![t] = [Idle EXCEPT !.look = tabs[t].look, !.busy = TRUE,
                                                !.waiting = tabs[t].made]]
    /\ UNCHANGED <<kind, told, records, txs, indexed, ledger, time, mishaps, broken>>

IndexedLater(t) ==
    LET hashes == tabs[t].waiting IN
    /\ hashes # {} /\ hashes \subseteq indexed
    /\ Finish(t, hashes, [tabs[t] EXCEPT !.waiting = {}])
    /\ UNCHANGED <<kind, txs, indexed, ledger, time, mishaps, broken>>

-----------------------------------------------------------------------------
(* reconcilePendingV2: every five seconds in a tab that executes nothing,   *)
(* the first record is looked at, and judged when the answer is there.      *)

Look(t) ==
    /\ tabs[t].stage = "idle" /\ tabs[t].look = NoRecord
    /\ ~Unlocked
    /\ tabs' = [tabs EXCEPT ![t].look = Head(records), ![t].busy = TRUE]
    /\ UNCHANGED <<kind, told, records, txs, indexed, ledger, time, mishaps, broken>>

LookedAway(t) == [tabs[t] EXCEPT !.look = NoRecord]

\* Whether the confirmed transaction of a record was the last of its action.
Completes(r) == r.completes

JudgeReceipt(t) ==
    LET r == tabs[t].look
        rest == Without(records, r)
    IN  /\ r # NoRecord /\ r.phase = "submitted"
        /\ CASE Status(r.hash) \notin {"ok", "reverted"} ->
                    /\ tabs' = [tabs EXCEPT ![t] = LookedAway(t)]
                    /\ UNCHANGED records
             [] Status(r.hash) = "ok" /\ Completes(r) ->
                    /\ tabs' = [tabs EXCEPT ![t] = LookedAway(t)]
                    /\ records' = Upsert(rest, Indexing(r.hashes))
             [] OTHER ->
                    /\ tabs' = [tabs EXCEPT ![t] = [LookedAway(t) EXCEPT !.busy = @ /\ rest # <<>>]]
                    /\ records' = rest
        /\ UNCHANGED <<kind, told, txs, indexed, ledger, time, mishaps, broken>>

JudgeIndex(t) ==
    LET r == tabs[t].look IN
    /\ r # NoRecord /\ r.phase = "indexing"
    /\ IF r.hashes \subseteq indexed
       THEN Finish(t, r.hashes, LookedAway(t))
       ELSE /\ tabs' = [tabs EXCEPT ![t] = LookedAway(t)]
            /\ UNCHANGED <<told, records>>
    /\ UNCHANGED <<kind, txs, indexed, ledger, time, mishaps, broken>>

-----------------------------------------------------------------------------
(* Mishaps.                                                                 *)

Mishap(breaks) ==
    /\ mishaps < MaxMishaps
    /\ mishaps' = mishaps + 1
    /\ broken' = broken \union breaks
    /\ UNCHANGED <<kind, told, indexed, ledger, time>>

\* A reload forgets everything but the storage; a hash on its way is lost.
Reload(t) ==
    /\ tabs[t] # Idle
    /\ Mishap(IF tabs[t].stage = "handed over" THEN {"hash lost"} ELSE {})
    /\ tabs' = [tabs EXCEPT ![t] = Idle]
    /\ UNCHANGED <<records, txs>>

\* The status of a transaction or of its indexing cannot be read: no judgement.
ReadFails(t) ==
    /\ tabs[t].look # NoRecord
    /\ Mishap({})
    /\ tabs' = [tabs EXCEPT ![t] = LookedAway(t)]
    /\ UNCHANGED <<records, txs>>

\* The record cannot be stored.  A second attempt stores it as an unfinished step, or fails.
PersistFails(t) ==
    /\ tabs[t].stage = "handed over"
    /\ Mishap({"storage"})
    /\ records' \in {records, Upsert(records, Submitted(tabs[t].hash, {tabs[t].hash}, FALSE))}
    /\ Stop(t, TRUE)
    /\ UNCHANGED txs

\* The user speeds the transaction up in the wallet: the same call under another hash.
SpeedUp(hash) ==
    /\ Status(hash) = "pool" /\ Len(txs) < MaxTxs
    /\ Mishap({"hash replaced"})
    /\ txs' = Append([txs EXCEPT ![hash].status = "replaced"], txs[hash])
    /\ UNCHANGED <<tabs, records>>

-----------------------------------------------------------------------------

TabStep(t) ==
    \/ Persist(t) \/ Confirmed(t) \/ Reverted(t)
    \/ IndexedInTime(t) \/ IndexedLater(t)
    \/ Look(t) \/ JudgeReceipt(t) \/ JudgeIndex(t)

\* What the user, the wallet or a timeout may do and need not.
Chosen(t) ==
    \/ Start(t) \/ Preflight(t) \/ PreflightAgain(t) \/ GiveUp(t) \/ WalletSends(t)
    \/ ReceiptUnknown(t) \/ WaitInBackground(t)

Mishaps ==
    \/ \E t \in Tab : Reload(t) \/ ReadFails(t) \/ PersistFails(t)
    \/ \E hash \in DOMAIN txs : SpeedUp(hash)

Next ==
    \/ \E t \in Tab : TabStep(t) \/ Chosen(t)
    \/ \E hash \in DOMAIN txs : Mine(hash) \/ Index(hash)
    \/ Tick
    \/ Mishaps

Spec == Init /\ [][Next]_vars

\* Transactions are mined and indexed, and the timers of open tabs run.
FairSpec ==
    /\ Spec
    /\ WF_vars(\E hash \in DOMAIN txs : Mine(hash))
    /\ WF_vars(\E hash \in DOMAIN txs : Index(hash))
    /\ WF_vars(\E t \in Tab : TabStep(t))

-----------------------------------------------------------------------------
(* What the client promises.                                                *)

(***************************************************************************)
(* An action is not executed twice, although its user repeats it until     *)
(* told that it is done: through reloads, unknown receipts, failing reads, *)
(* a slow indexer and a second tab that resolves the first one's records.  *)
(* Two things are beyond the client: a hash the wallet never delivered     *)
(* because the page was gone, and a storage that refuses the record.       *)
(***************************************************************************)
NothingTwice == broken \cap {"hash lost", "storage"} = {} => ledger.done <= 1

(***************************************************************************)
(* The lock against duplicate submission is always released again, so that *)
(* a crash or a slow indexer never bars a wallet from its exits; except    *)
(* after a transaction was replaced in the wallet, whose hash never gets a *)
(* receipt.                                                                *)
(***************************************************************************)
LockIsReleased == ~Unlocked ~> (Unlocked \/ "hash replaced" \in broken)

(***************************************************************************)
(* Whoever hears of success has the action done, and finally so.           *)
(***************************************************************************)
SuccessIsReal == told => ledger.done > 0

\* Across all of that an action is done once, and not before its user is told.
DoneOnce == NothingTwice /\ SuccessIsReal
=============================================================================
