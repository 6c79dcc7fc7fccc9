------------------------ MODULE WalletSessionProofs ------------------------
(***************************************************************************)
(* The client does an action once and tells of nothing else, for any       *)
(* number of tabs, transactions and mishaps.                               *)
(***************************************************************************)
EXTENDS WalletSession, SequenceTheorems, TLAPS

CallNames == {"approve", "deposit", "offer", "fill", "repay"}
Stages == {"idle", "preflight", "preflight again", "wallet", "handed over", "sent", "indexing"}

Transactions == [call: CallNames, amount: Int, status: {"pool", "ok", "reverted", "replaced"}]
Pending == [phase: {"submitted", "indexing"}, hash: Nat, hashes: SUBSET Nat, completes: BOOLEAN]
Tabs == [stage: Stages, busy: BOOLEAN, ceiling: Int, call: CallNames \cup {"none"},
         todo: {<<>>, <<"offer">>}, hash: Nat, made: SUBSET Nat, look: Pending,
         waiting: SUBSET Nat, refused: BOOLEAN]

WalletTypeOK ==
    /\ kind \in {"fill", "create-offer", "repay"} /\ told \in BOOLEAN
    /\ tabs \in [Tab -> Tabs]
    /\ records \in Seq(Pending)
    /\ txs \in Seq(Transactions)
    /\ ledger \in [allowance: Int, free: Int, done: Nat]
    /\ time \in Nat

-----------------------------------------------------------------------------
(* The call that does an action, and what stands for it.                    *)

Final == {"offer", "fill", "repay"}
IsFinal(hash) == hash \in DOMAIN txs /\ txs[hash].call \in Final
DoneBy(hash) == IsFinal(hash) /\ Status(hash) = "ok"

\* A final call that has been done or still may be.
Live(hash) == IsFinal(hash) /\ Status(hash) \in {"pool", "ok"}

\* The hash of a final call that is live, or was until it was replaced in the wallet.
Holding(hash) == IsFinal(hash) /\ Status(hash) \in {"pool", "ok", "replaced"}

\* A record that will not be taken away before the user is told.
Locks(r) == (r.phase = "indexing") \/ Holding(r.hash)

\* No hash was lost and every one could be recorded.
Kept == broken \cap {"hash lost", "storage"} = {}

\* What is waited for in the indexer did the action.
DidIt(hashes) == \E hash \in hashes : DoneBy(hash)

\* A record calls complete only a final call; and every one of them, if nothing failed.
WellFormed(r) ==
    /\ r.phase = "submitted" =>
          /\ r.hash \in DOMAIN txs
          /\ r.completes => IsFinal(r.hash) /\ r.hash \in r.hashes
    /\ r.phase = "indexing" => DidIt(r.hashes)
Judged(r) == r.phase = "submitted" /\ IsFinal(r.hash) => r.completes

\* An execution whose next final call is yet to be made.
BeforeFinal(tab) ==
    \/ tab.stage \in {"preflight", "preflight again", "wallet"}
    \/ tab.stage \in {"handed over", "sent"} /\ tab.call \notin Final

\* What a tab remembers of its execution and of what it reconciles.
TabSound(tab) ==
    /\ tab.stage \in {"wallet", "handed over", "sent"} =>
          /\ tab.call \in CallNames
          /\ (tab.call \in Final) <=> (tab.call # "approve" /\ tab.todo = <<>>)
    /\ tab.stage \in {"handed over", "sent"} =>
          tab.hash \in DOMAIN txs /\ txs[tab.hash].call = tab.call
    /\ tab.stage = "indexing" => DidIt(tab.made)
    /\ tab.waiting # {} => DidIt(tab.waiting)
    /\ tab.look # NoRecord => WellFormed(tab.look)
TabJudged(tab) == tab.look # NoRecord => Judged(tab.look)

OneAtATime == \A t, u \in Tab : tabs[t].stage # "idle" /\ tabs[u].stage # "idle" => t = u

\* The storage, and what of it locks the page.
OneRecordPerId(list) == \A i, j \in DOMAIN list : SameId(list[i], list[j]) => i = j
StorageSound(list) == OneRecordPerId(list) /\ \A i \in DOMAIN list : WellFormed(list[i])
StorageJudged(list) == \A i \in DOMAIN list : Judged(list[i])
Locked(list) == \E i \in DOMAIN list : Locks(list[i])

\* The page, or a record, holds on to a final call.
HandsOver(tab) == tab.stage = "handed over" /\ Holding(tab.hash)
Guarded ==
    \/ Locked(records)
    \/ \E t \in Tab : HandsOver(tabs[t])

Sound ==
    /\ StorageSound(records)
    /\ \A t \in Tab : TabSound(tabs[t])
    /\ \A hash \in DOMAIN txs : DoneBy(hash) => ledger.done > 0
    /\ told => ledger.done > 0

(***************************************************************************)
(* One final call at most is live; until the user is told, something holds *)
(* on to it, and no execution is still before its own.                     *)
(***************************************************************************)
Once ==
    /\ StorageJudged(records)
    /\ \A t \in Tab : TabJudged(tabs[t])
    /\ \A g, h \in DOMAIN txs : Live(g) /\ Live(h) => g = h
    /\ \/ ledger.done = 0
       \/ ledger.done = 1 /\ \E h \in DOMAIN txs : DoneBy(h)
    /\ \A h \in DOMAIN txs : Live(h) =>
          /\ told \/ Guarded
          /\ \A t \in Tab : ~BeforeFinal(tabs[t])

WInv == WalletTypeOK /\ OneAtATime /\ Sound /\ (Kept => Once)

-----------------------------------------------------------------------------
(* The storage.                                                             *)

LEMMA SameIdIsEquivalence ==
    ASSUME NEW p, NEW q, NEW r
    PROVE  /\ SameId(p, p)
           /\ SameId(p, q) => SameId(q, p)
           /\ SameId(p, q) /\ SameId(q, r) => SameId(p, r)
BY DEF SameId

\* Taking out the k-th moves up what follows it.
LEMMA RemovedAt ==
    ASSUME NEW list \in Seq(Pending), NEW k \in DOMAIN list
    PROVE  /\ RemoveAt(list, k) \in Seq(Pending)
           /\ Len(RemoveAt(list, k)) = Len(list) - 1
           /\ \A i \in 1..(Len(list) - 1) :
                 RemoveAt(list, k)[i] = IF i < k THEN list[i] ELSE list[i + 1]
<1>1. k \in 1..Len(list) /\ Len(list) \in Nat
    OBVIOUS
<1>2. PICK before, after : before = SubSeq(list, 1, k - 1) /\ after = SubSeq(list, k + 1, Len(list))
    OBVIOUS
<1>3. /\ before \in Seq(Pending) /\ Len(before) = k - 1
      /\ \A i \in 1..(k - 1) : before[i] = list[i]
    BY <1>1, <1>2
<1>4. /\ after \in Seq(Pending) /\ Len(after) = Len(list) - k
      /\ \A i \in 1..(Len(list) - k) : after[i] = list[k + i]
    BY <1>1, <1>2
<1>5. RemoveAt(list, k) = before \o after
    BY <1>2 DEF RemoveAt
<1>6. /\ RemoveAt(list, k) \in Seq(Pending) /\ Len(RemoveAt(list, k)) = Len(list) - 1
    BY <1>1, <1>3, <1>4, <1>5
<1>7. ASSUME NEW i \in 1..(Len(list) - 1)
      PROVE  RemoveAt(list, k)[i] = IF i < k THEN list[i] ELSE list[i + 1]
  <2>1. CASE i < k
    BY <1>1, <1>3, <1>4, <1>5, <2>1
  <2>2. CASE ~(i < k)
    <3>1. i - (k - 1) \in 1..(Len(list) - k) /\ k + (i - (k - 1)) = i + 1
      BY <1>1, <2>2
    <3>2. (before \o after)[i] = after[i - (k - 1)]
      <4>1. /\ Len(before) + Len(after) = Len(list) - 1 /\ i > Len(before) /\ i \in Nat
            /\ i \in 1..(Len(before) + Len(after))
        BY <1>1, <1>3, <1>4, <2>2
      <4>2. (before \o after)[i] = after[i - Len(before)]
        BY <1>3, <1>4, <4>1
      <4> QED
        BY <1>3, <4>2
    <3> QED
      BY <1>4, <1>5, <2>2, <3>1, <3>2
  <2> QED
    BY <2>1, <2>2
<1> QED
    BY <1>6, <1>7

\* removePendingExecution keeps every other record, and nothing else.
LEMMA WithoutOne ==
    ASSUME NEW list \in Seq(Pending), NEW r, NEW rest, rest = Without(list, r)
    PROVE  /\ rest \in Seq(Pending)
           /\ \A i \in DOMAIN rest : \E j \in DOMAIN list : rest[i] = list[j]
           /\ \A j \in DOMAIN list : ~SameId(list[j], r) => \E i \in DOMAIN rest : rest[i] = list[j]
           /\ OneRecordPerId(list) => OneRecordPerId(rest)
<1>1. CASE ~\E i \in DOMAIN list : SameId(list[i], r)
    BY <1>1 DEF Without
<1>2. CASE \E i \in DOMAIN list : SameId(list[i], r)
  <2>1. PICK k \in DOMAIN list : SameId(list[k], r) /\ rest = RemoveAt(list, k)
    BY <1>2 DEF Without
  <2>2. /\ rest \in Seq(Pending) /\ Len(rest) = Len(list) - 1
        /\ \A i \in 1..(Len(list) - 1) : rest[i] = IF i < k THEN list[i] ELSE list[i + 1]
    BY <2>1, RemovedAt
  <2>3. /\ DOMAIN rest = 1..(Len(list) - 1) /\ DOMAIN list = 1..Len(list) /\ Len(list) \in Nat
        /\ k \in 1..Len(list)
    BY <2>2
  <2>4. \A i \in DOMAIN rest : \E j \in DOMAIN list : rest[i] = list[j]
    BY <2>2, <2>3
  <2>5. ASSUME NEW j \in DOMAIN list, ~SameId(list[j], r)
        PROVE  \E i \in DOMAIN rest : rest[i] = list[j]
    <3>1. j # k
      BY <2>1, <2>5
    <3>2. CASE j < k
      BY <2>2, <2>3, <3>2
    <3>3. CASE j > k
      <4>1. j - 1 \in DOMAIN rest /\ ~(j - 1 < k) /\ (j - 1) + 1 = j
        BY <2>3, <3>3
      <4> QED
        BY <2>2, <2>3, <4>1
    <3> QED
      BY <2>3, <3>1, <3>2, <3>3
  <2>6. ASSUME OneRecordPerId(list), NEW i \in DOMAIN rest, NEW j \in DOMAIN rest,
               SameId(rest[i], rest[j])
        PROVE  i = j
    <3>1. PICK m \in DOMAIN list : m = IF i < k THEN i ELSE i + 1
      BY <2>3
    <3>2. PICK n \in DOMAIN list : n = IF j < k THEN j ELSE j + 1
      BY <2>3
    <3>3. rest[i] = list[m] /\ rest[j] = list[n]
      BY <2>2, <2>3, <3>1, <3>2
    <3>4. m = n
      BY <2>6, <3>3 DEF OneRecordPerId
    <3> QED
      BY <2>3, <3>1, <3>2, <3>4
  <2> QED
    BY <2>2, <2>4, <2>5, <2>6 DEF OneRecordPerId
<1> QED
    BY <1>1, <1>2

\* The record is stored, once, and the records of other ids are kept.
Stores(new, list, r) ==
    /\ new \in Seq(Pending)
    /\ \A i \in DOMAIN new : new[i] = r \/ \E j \in DOMAIN list : new[i] = list[j]
    /\ \E i \in DOMAIN new : new[i] = r
    /\ \A j \in DOMAIN list : ~SameId(list[j], r) => \E i \in DOMAIN new : new[i] = list[j]
    /\ OneRecordPerId(list) => OneRecordPerId(new)

\* upsertPendingExecution does so.
LEMMA UpsertedOne ==
    ASSUME NEW list \in Seq(Pending), NEW r \in Pending
    PROVE  Stores(Upsert(list, r), list, r)
<1> DEFINE new == Upsert(list, r)
<1> SUFFICES Stores(new, list, r)
    OBVIOUS
<1>1. CASE \E i \in DOMAIN list : SameId(list[i], r)
  <2>1. new = [i \in DOMAIN list |-> IF SameId(list[i], r) THEN r ELSE list[i]]
    BY <1>1 DEF Upsert
  <2> HIDE DEF new
  <2>2. new \in Seq(Pending) /\ DOMAIN new = DOMAIN list
    BY <2>1
  <2>3. ASSUME OneRecordPerId(list), NEW i \in DOMAIN new, NEW j \in DOMAIN new,
               SameId(new[i], new[j])
        PROVE  i = j
    <3>1. SameId(new[i], list[i]) /\ SameId(list[j], new[j])
      BY <2>1, <2>3, SameIdIsEquivalence
    <3>2. SameId(list[i], new[i])
      BY <3>1, SameIdIsEquivalence
    <3>3. SameId(list[i], new[j])
      BY <2>3, <3>2, SameIdIsEquivalence
    <3>4. SameId(new[j], list[j])
      BY <3>1, SameIdIsEquivalence
    <3>5. SameId(list[i], list[j])
      BY <3>3, <3>4, SameIdIsEquivalence
    <3> QED
      BY <2>2, <2>3, <3>5 DEF OneRecordPerId
  <2> QED
    BY <1>1, <2>1, <2>2, <2>3 DEF OneRecordPerId, Stores
<1>2. CASE ~\E i \in DOMAIN list : SameId(list[i], r)
  <2>1. new = Append(list, r)
    BY <1>2 DEF Upsert
  <2> HIDE DEF new
  <2>2. /\ new \in Seq(Pending) /\ Len(new) = Len(list) + 1 /\ new[Len(list) + 1] = r
        /\ \A i \in DOMAIN list : i \in DOMAIN new /\ new[i] = list[i]
        /\ DOMAIN new = 1..(Len(list) + 1) /\ DOMAIN list = 1..Len(list) /\ Len(list) \in Nat
    BY <2>1
  <2>3. \A i \in DOMAIN new : i \in DOMAIN list \/ i = Len(list) + 1
    BY <2>2
  <2>4. ASSUME OneRecordPerId(list), NEW i \in DOMAIN new, NEW j \in DOMAIN new,
               SameId(new[i], new[j])
        PROVE  i = j
    <3>1. CASE i \in DOMAIN list /\ j \in DOMAIN list
      BY <2>2, <2>4, <3>1 DEF OneRecordPerId
    <3>2. CASE i \in DOMAIN list /\ j = Len(list) + 1
      BY <1>2, <2>2, <2>4, <3>2
    <3>3. CASE i = Len(list) + 1 /\ j \in DOMAIN list
      BY <1>2, <2>2, <2>4, <3>3, SameIdIsEquivalence
    <3> QED
      BY <2>3, <3>1, <3>2, <3>3
  <2>5. Len(list) + 1 \in DOMAIN new
    BY <2>2
  <2> QED
    BY <1>2, <2>2, <2>3, <2>4, <2>5 DEF OneRecordPerId, Stores
<1> QED
    BY <1>1, <1>2

\* A record whose transaction holds nothing may go; one that is stored again locks as before.
LEMMA StorageWithout ==
    ASSUME NEW list \in Seq(Pending), StorageSound(list), NEW r, NEW rest,
           rest = Without(list, r)
    PROVE  /\ rest \in Seq(Pending) /\ StorageSound(rest)
           /\ StorageJudged(list) => StorageJudged(rest)
           /\ r.phase = "submitted" /\ ~Holding(r.hash) /\ Locked(list) => Locked(rest)
<1>1. /\ rest \in Seq(Pending)
      /\ \A i \in DOMAIN rest : \E j \in DOMAIN list : rest[i] = list[j]
      /\ \A j \in DOMAIN list : ~SameId(list[j], r) => \E i \in DOMAIN rest : rest[i] = list[j]
      /\ OneRecordPerId(rest)
    BY WithoutOne DEF StorageSound
<1>2. ASSUME r.phase = "submitted", ~Holding(r.hash), NEW j \in DOMAIN list, Locks(list[j])
      PROVE  Locked(rest)
  <2>1. ~SameId(list[j], r)
    BY <1>2 DEF SameId, Locks
  <2> QED
    BY <1>1, <1>2, <2>1 DEF Locked
<1> QED
    BY <1>1, <1>2 DEF StorageSound, StorageJudged, Locked

LEMMA StorageUpsert ==
    ASSUME NEW list \in Seq(Pending), StorageSound(list), NEW r \in Pending, WellFormed(r),
           NEW new, new = Upsert(list, r)
    PROVE  /\ new \in Seq(Pending) /\ StorageSound(new)
           /\ StorageJudged(list) /\ Judged(r) => StorageJudged(new)
           /\ Locks(r) \/ Locked(list) => Locked(new)
<1>0. OneRecordPerId(list)
    BY DEF StorageSound
<1>1. Stores(new, list, r)
    BY UpsertedOne
<1>2. Locks(r) => Locked(new)
    BY <1>1 DEF Locked, Stores
<1>3. ASSUME NEW j \in DOMAIN list, Locks(list[j])
      PROVE  Locked(new)
  <2>1. CASE SameId(list[j], r)
    <3>1. Locks(r)
      BY <1>3, <2>1 DEF SameId, Locks, Pending
    <3> QED
      BY <1>2, <3>1
  <2>2. CASE ~SameId(list[j], r)
    BY <1>1, <1>3, <2>2 DEF Locked, Stores
  <2> QED
    BY <2>1, <2>2
<1>4. \A i \in DOMAIN new : WellFormed(new[i])
    BY <1>1 DEF StorageSound, Stores
<1>5. StorageJudged(list) /\ Judged(r) => \A i \in DOMAIN new : Judged(new[i])
    BY <1>1 DEF StorageJudged, Stores
<1>6. Locked(list) => Locked(new)
    BY <1>3 DEF Locked
<1> QED
    BY <1>0, <1>1, <1>2, <1>4, <1>5, <1>6 DEF StorageSound, StorageJudged, Stores

-----------------------------------------------------------------------------
(* The chain moves, and the tabs and the storage stay.                      *)

\* Transactions are added, never taken back or changed into others.
Grown ==
    /\ txs' \in Seq(Transactions) /\ DOMAIN txs \subseteq DOMAIN txs'
    /\ \A h \in DOMAIN txs :
          /\ txs'[h].call = txs[h].call
          /\ txs[h].status = "ok" => txs'[h].status = "ok"

LEMMA StillSound ==
    ASSUME Grown
    PROVE  /\ \A h : DoneBy(h) => DoneBy(h)'
           /\ \A r : WellFormed(r) => WellFormed(r)'
           /\ \A r : WellFormed(r) /\ Judged(r) => Judged(r)'
           /\ \A tab : TabSound(tab) => TabSound(tab)'
           /\ \A tab : TabSound(tab) /\ TabJudged(tab) => TabJudged(tab)'
           /\ \A list : StorageSound(list) => StorageSound(list)'
           /\ \A list : StorageSound(list) /\ StorageJudged(list) => StorageJudged(list)'
<1>1. \A h : IsFinal(h) => IsFinal(h)'
    BY DEF Grown, IsFinal
<1>2. \A h : DoneBy(h) => DoneBy(h)'
    BY <1>1 DEF Grown, IsFinal, DoneBy, Status
<1>3. \A hashes : DidIt(hashes) => DidIt(hashes)'
    BY <1>2 DEF DidIt
<1>4. \A r : WellFormed(r) => WellFormed(r)'
    BY <1>1, <1>3 DEF WellFormed, Grown
<1>5. \A r : WellFormed(r) /\ Judged(r) => Judged(r)'
    BY DEF WellFormed, Judged, IsFinal, Grown
<1>6. \A tab : TabSound(tab) => TabSound(tab)'
    BY <1>3, <1>4 DEF TabSound, Grown
<1>7. \A tab : TabSound(tab) /\ TabJudged(tab) => TabJudged(tab)'
    BY <1>5 DEF TabSound, TabJudged
<1>8. \A list : StorageSound(list) => StorageSound(list)'
    BY <1>4 DEF StorageSound, OneRecordPerId
<1>9. \A list : StorageSound(list) /\ StorageJudged(list) => StorageJudged(list)'
    BY <1>5 DEF StorageSound, StorageJudged
<1> QED
    BY <1>2, <1>4, <1>5, <1>6, <1>7, <1>8, <1>9

\* What the chain must keep for the invariant to hold on.
LEMMA ChainStep ==
    ASSUME WInv, Grown, UNCHANGED <<kind, told, tabs, records>>, WalletTypeOK',
           ledger'.done >= ledger.done,
           \A h \in DOMAIN txs' : DoneBy(h)' => ledger'.done > 0,
           Kept' => Kept,
           Kept' /\ Once =>
              /\ \A g, h \in DOMAIN txs' : Live(g)' /\ Live(h)' => g = h
              /\ \/ ledger'.done = 0
                 \/ ledger'.done = 1 /\ \E h \in DOMAIN txs' : DoneBy(h)'
              /\ \A h \in DOMAIN txs' : Live(h)' =>
                    /\ \E g \in DOMAIN txs : Live(g)
                    /\ \A g \in DOMAIN txs : Holding(g) => Holding(g)'
    PROVE  WInv'
<1>1. Sound'
  <2>1. ledger'.done \in Nat /\ ledger.done \in Nat
    BY DEF WInv, WalletTypeOK
  <2> QED
    BY <2>1, StillSound DEF WInv, Sound
<1>2. OneAtATime'
    BY DEF WInv, OneAtATime
<1>3. ASSUME Kept'
      PROVE  Once'
  <2>1. Once
    BY <1>3 DEF WInv
  <2>2. StorageJudged(records)' /\ \A t \in Tab : TabJudged(tabs[t])'
    BY <2>1, StillSound DEF Once, WInv, Sound
  <2>3. ASSUME NEW h \in DOMAIN txs', Live(h)'
        PROVE  (told \/ Guarded)' /\ \A t \in Tab : ~BeforeFinal(tabs[t])'
    <3>1. PICK g \in DOMAIN txs : Live(g)
      BY <1>3, <2>1, <2>3
    <3>2. (told \/ Guarded) /\ \A t \in Tab : ~BeforeFinal(tabs[t])
      BY <2>1, <3>1 DEF Once
    <3>3. \A k \in DOMAIN txs : Holding(k) => Holding(k)'
      BY <1>3, <2>1, <2>3
    <3>4. \A k : Holding(k) => Holding(k)'
      BY <3>3 DEF Holding, IsFinal
    <3>5. Locked(records) => Locked(records)'
      BY <3>4 DEF Locked, Locks
    <3>6. \A t \in Tab : HandsOver(tabs[t]) => HandsOver(tabs[t])'
      BY <3>4 DEF HandsOver
    <3>7. Guarded => Guarded'
      BY <3>5, <3>6 DEF Guarded
    <3> QED
      BY <3>2, <3>7 DEF BeforeFinal
  <2> QED
    BY <1>3, <2>1, <2>2, <2>3 DEF Once
<1> QED
    BY <1>1, <1>2, <1>3 DEF WInv

LEMMA AmountsType ==
    ASSUME WalletTypeOK
    PROVE  Payoff \in Nat /\ Deficit \in Int /\ Needed \in Int
<1>1. Payoff \in Nat /\ Deficit \in Int
    BY WalletConstants DEF WalletTypeOK, Payoff, Deficit
<1> QED
    BY <1>1, WalletConstants DEF WalletTypeOK, Needed

\* Only a final call is counted.
LEMMA AfterType ==
    ASSUME WalletTypeOK, NEW tx \in Transactions
    PROVE  /\ After(tx) \in [allowance: Int, free: Int, done: Nat]
           /\ After(tx).done = IF tx.call \in Final THEN ledger.done + 1 ELSE ledger.done
<1>1. PICK amount, bid, payoff \in Int : amount = Amount /\ bid = tx.amount /\ payoff = Payoff
    BY AmountsType, WalletConstants DEF Transactions
<1>2. PICK a, f \in Int, d \in Nat : ledger = [allowance |-> a, free |-> f, done |-> d]
    BY DEF WalletTypeOK
<1>3. CASE tx.call = "approve"
  <2>1. After(tx) = [allowance |-> bid, free |-> f, done |-> d]
    BY <1>1, <1>2, <1>3 DEF After
  <2> QED
    BY <1>2, <1>3, <2>1 DEF Final
<1>4. CASE tx.call = "deposit"
  <2>1. After(tx) = [allowance |-> a - amount, free |-> f + amount, done |-> d]
    BY <1>1, <1>2, <1>4 DEF After
  <2> QED
    BY <1>2, <1>4, <2>1 DEF Final
<1>5. CASE tx.call = "offer"
  <2>1. After(tx) = [allowance |-> a, free |-> f - amount, done |-> d + 1]
    BY <1>1, <1>2, <1>5 DEF After
  <2> QED
    BY <1>2, <1>5, <2>1 DEF Final
<1>6. CASE tx.call = "fill"
  <2>1. After(tx) = [allowance |-> a - amount, free |-> f, done |-> d + 1]
    BY <1>1, <1>2, <1>6 DEF After
  <2> QED
    BY <1>2, <1>6, <2>1 DEF Final
<1>7. CASE tx.call = "repay"
  <2>1. After(tx) = [allowance |-> a - payoff, free |-> f, done |-> d + 1]
    BY <1>1, <1>2, <1>7 DEF After
  <2> QED
    BY <1>2, <1>7, <2>1 DEF Final
<1> QED
    BY <1>3, <1>4, <1>5, <1>6, <1>7 DEF Transactions, CallNames

\* The only live final call is the one that counts.
LEMMA MineStep ==
    ASSUME WInv, NEW hash \in DOMAIN txs, Mine(hash)
    PROVE  WInv'
<1> DEFINE tx == txs[hash]
<1>1. /\ WalletTypeOK /\ txs \in Seq(Transactions) /\ tx \in Transactions
      /\ ledger \in [allowance: Int, free: Int, done: Nat]
    BY DEF WInv, WalletTypeOK
<1>2. /\ tx.status = "pool"
      /\ UNCHANGED <<kind, told, tabs, records, indexed, time, mishaps, broken>>
    BY DEF Mine, Status
<1>3. PICK status \in {"ok", "reverted"} :
        /\ txs' = [txs EXCEPT ![hash].status = status]
        /\ ledger' = IF status = "ok" THEN After(tx) ELSE ledger
    BY DEF Mine
<1>4. /\ DOMAIN txs' = DOMAIN txs /\ Len(txs') = Len(txs) /\ txs' \in Seq(Transactions)
      /\ \A h \in DOMAIN txs : txs'[h].call = txs[h].call
      /\ txs'[hash].status = status
      /\ \A h \in DOMAIN txs \ {hash} : txs'[h] = txs[h]
    BY <1>1, <1>3 DEF Transactions
<1>5. Grown
    BY <1>2, <1>4 DEF Grown
<1>6. /\ After(tx) \in [allowance: Int, free: Int, done: Nat]
      /\ After(tx).done = IF tx.call \in Final THEN ledger.done + 1 ELSE ledger.done
    BY <1>1, AfterType
<1> HIDE DEF tx
<1>7. WalletTypeOK'
    BY <1>1, <1>2, <1>3, <1>4, <1>6 DEF WalletTypeOK
<1>8. PICK done, before \in Nat :
        /\ done = ledger'.done /\ before = ledger.done
        /\ done = IF status = "ok" /\ tx.call \in Final THEN before + 1 ELSE before
    BY <1>1, <1>3, <1>6
<1>9. \A h \in DOMAIN txs : h # hash => (DoneBy(h)' <=> DoneBy(h)) /\ (Live(h)' <=> Live(h))
    BY <1>4 DEF DoneBy, Live, IsFinal, Status
<1>10. /\ DoneBy(hash)' <=> status = "ok" /\ tx.call \in Final
       /\ Live(hash)' <=> status = "ok" /\ tx.call \in Final
       /\ Live(hash) <=> tx.call \in Final
       /\ ~DoneBy(hash)
    BY <1>2, <1>4 DEF tx, DoneBy, Live, IsFinal, Status
<1>11. ASSUME NEW h \in DOMAIN txs, DoneBy(h)'
       PROVE  done > 0
  <2>1. CASE h = hash
    BY <1>8, <1>10, <1>11, <2>1
  <2>2. CASE h # hash
    <3>1. before > 0
      BY <1>8, <1>9, <1>11, <2>2 DEF WInv, Sound
    <3> QED
      BY <1>8, <3>1
  <2> QED
    BY <2>1, <2>2
<1>12. ASSUME Once
       PROVE  /\ \A g, h \in DOMAIN txs : Live(g)' /\ Live(h)' => g = h
              /\ \/ done = 0
                 \/ done = 1 /\ \E h \in DOMAIN txs : DoneBy(h)'
              /\ \A h \in DOMAIN txs : Live(h)' =>
                    /\ \E g \in DOMAIN txs : Live(g)
                    /\ \A g \in DOMAIN txs : Holding(g) => Holding(g)'
  <2>1. \A g, h \in DOMAIN txs : Live(g) /\ Live(h) => g = h
    BY <1>12 DEF Once
  <2>2. \A h \in DOMAIN txs : Live(h)' => Live(h)
    BY <1>9, <1>10
  <2>3. ASSUME NEW h \in DOMAIN txs, Live(h)', NEW g \in DOMAIN txs, Holding(g)
        PROVE  Holding(g)'
    <3>1. CASE g # hash
      BY <1>4, <2>3, <3>1 DEF Holding, IsFinal, Status
    <3>2. CASE g = hash
      <4>1. tx.call \in Final /\ Live(hash)
        BY <1>10, <2>3, <3>2 DEF tx, Holding, IsFinal
      <4>2. h = hash
        BY <2>1, <2>2, <2>3, <4>1
      <4> QED
        BY <2>3, <3>2, <4>2 DEF Live, Holding
    <3> QED
      BY <3>1, <3>2
  <2>4. CASE status = "ok" /\ tx.call \in Final
    <3>1. \A h \in DOMAIN txs : ~DoneBy(h)
      BY <1>10, <2>1, <2>4 DEF DoneBy, Live
    <3>2. before = 0
      BY <1>8, <1>12, <3>1 DEF Once
    <3> QED
      BY <1>8, <1>10, <2>1, <2>2, <2>3, <2>4, <3>2
  <2>5. CASE ~(status = "ok" /\ tx.call \in Final)
    <3>1. done = before
      BY <1>8, <2>5
    <3>2. \A h \in DOMAIN txs : DoneBy(h) => DoneBy(h)'
      BY <1>9, <1>10
    <3>3. CASE before = 0
      BY <2>1, <2>2, <2>3, <3>1, <3>3
    <3>4. CASE before # 0
      <4>1. before = 1 /\ \E h \in DOMAIN txs : DoneBy(h)
        BY <1>8, <1>12, <3>4 DEF Once
      <4>2. PICK h \in DOMAIN txs : DoneBy(h)
        BY <4>1
      <4>3. done = 1 /\ DoneBy(h)'
        BY <3>1, <3>2, <4>1, <4>2
      <4> QED
        BY <2>1, <2>2, <2>3, <4>3
    <3> QED
      BY <3>3, <3>4
  <2> QED
    BY <2>4, <2>5
<1>13. UNCHANGED <<kind, told, tabs, records>> /\ (Kept' => Kept)
    BY <1>2 DEF Kept
<1>14. ledger'.done >= ledger.done
    BY <1>8
<1> QED
    BY <1>4, <1>5, <1>7, <1>8, <1>11, <1>12, <1>13, <1>14, ChainStep

\* The same call under another hash takes the place of the one that was live.
LEMMA SpeedUpStep ==
    ASSUME WInv, NEW hash \in DOMAIN txs, SpeedUp(hash)
    PROVE  WInv'
<1>1. WalletTypeOK /\ txs \in Seq(Transactions) /\ DOMAIN txs = 1..Len(txs) /\ Len(txs) \in Nat
    BY DEF WInv, WalletTypeOK
<1>2. /\ txs[hash].status = "pool"
      /\ UNCHANGED <<kind, told, tabs, records, ledger, time>>
      /\ broken' = broken \cup {"hash replaced"}
    BY DEF SpeedUp, Mishap, Status
<1>30. PICK n \in Nat : n = Len(txs) + 1
    BY <1>1
<1>3. PICK name \in CallNames, amount \in Int :
        txs[hash] = [call |-> name, amount |-> amount, status |-> "pool"]
  <2>1. txs[hash] \in Transactions
    BY <1>1
  <2>2. txs[hash].call \in CallNames /\ txs[hash].amount \in Int
    BY <2>1 DEF Transactions
  <2>3. txs[hash] = [call |-> txs[hash].call, amount |-> txs[hash].amount, status |-> "pool"]
    BY <1>2, <2>1 DEF Transactions
  <2> QED
    BY <2>2, <2>3
<1>31. PICK gone \in Transactions :
         /\ gone = [txs[hash] EXCEPT !.status = "replaced"]
         /\ gone.status = "replaced" /\ gone.call = txs[hash].call
  <2>1. [txs[hash] EXCEPT !.status = "replaced"]
           = [call |-> name, amount |-> amount, status |-> "replaced"]
    BY <1>3
  <2> QED
    BY <1>3, <2>1 DEF Transactions
<1>32. PICK old \in Seq(Transactions) :
        /\ old = [txs EXCEPT ![hash] = gone] /\ txs' = Append(old, txs[hash])
        /\ Len(old) = Len(txs) /\ DOMAIN old = DOMAIN txs
  <2> DEFINE new == [txs EXCEPT ![hash] = gone]
  <2>1. txs' = Append(new, txs[hash])
    BY <1>31 DEF SpeedUp
  <2>2. new \in Seq(Transactions) /\ Len(new) = Len(txs) /\ DOMAIN new = DOMAIN txs
    BY <1>1
  <2> QED
    BY <2>1, <2>2
<1>33. old[hash] = gone /\ \A h \in DOMAIN txs \ {hash} : old[h] = txs[h]
    BY <1>32
<1>4. /\ txs' \in Seq(Transactions) /\ DOMAIN txs' = DOMAIN txs \cup {n} /\ n \notin DOMAIN txs
      /\ txs'[n] = txs[hash] /\ \A h \in DOMAIN txs : txs'[h] = old[h]
  <2>1. DOMAIN txs' = 1..n /\ 1..n = (1..Len(txs)) \cup {n}
    BY <1>1, <1>30, <1>32
  <2> QED
    BY <1>1, <1>30, <1>32, <2>1
<1>5. Grown
  <2>1. \A h \in DOMAIN txs : txs'[h].call = txs[h].call
    BY <1>31, <1>33, <1>4
  <2>2. \A h \in DOMAIN txs : txs[h].status = "ok" => txs'[h].status = "ok"
    BY <1>2, <1>31, <1>33, <1>4
  <2> QED
    BY <1>4, <2>1, <2>2 DEF Grown
<1>6. WalletTypeOK'
    BY <1>1, <1>2, <1>4 DEF WalletTypeOK
<1>7. \A h \in DOMAIN txs : h # hash => (DoneBy(h)' <=> DoneBy(h)) /\ (Live(h)' <=> Live(h))
    BY <1>31, <1>33, <1>4 DEF DoneBy, Live, IsFinal, Status
<1>8. /\ ~Live(hash)' /\ ~DoneBy(hash)' /\ ~DoneBy(hash) /\ ~DoneBy(n)'
      /\ (Live(n)' <=> Live(hash))
    BY <1>2, <1>31, <1>33, <1>4 DEF DoneBy, Live, IsFinal, Status
<1>9. \A h \in DOMAIN txs : Holding(h) => Holding(h)'
    BY <1>31, <1>33, <1>4 DEF Holding, IsFinal, Status
<1>10. \A h \in DOMAIN txs' : DoneBy(h)' => ledger'.done > 0
  <2>1. \A h \in DOMAIN txs' : DoneBy(h)' => h \in DOMAIN txs /\ DoneBy(h)
    BY <1>4, <1>7, <1>8
  <2> QED
    BY <1>2, <2>1 DEF WInv, Sound
<1>11. ASSUME Once
       PROVE  /\ \A g, h \in DOMAIN txs' : Live(g)' /\ Live(h)' => g = h
              /\ \/ ledger'.done = 0
                 \/ ledger'.done = 1 /\ \E h \in DOMAIN txs' : DoneBy(h)'
              /\ \A h \in DOMAIN txs' : Live(h)' => \E g \in DOMAIN txs : Live(g)
  <2>1. \A g, h \in DOMAIN txs : Live(g) /\ Live(h) => g = h
    BY <1>11 DEF Once
  <2>2. \A h \in DOMAIN txs' :
           Live(h)' => (h = n /\ Live(hash)) \/ (h \in DOMAIN txs /\ Live(h) /\ h # hash)
    BY <1>4, <1>7, <1>8
  <2>3. \/ ledger.done = 0
        \/ ledger.done = 1 /\ \E h \in DOMAIN txs : DoneBy(h)
    BY <1>11 DEF Once
  <2>4. \A h \in DOMAIN txs : DoneBy(h) => DoneBy(h)'
    BY <1>7, <1>8
  <2> QED
    BY <1>2, <1>4, <2>1, <2>2, <2>3, <2>4
<1>12. Kept' => Kept
    BY <1>2 DEF Kept
<1>13. ledger'.done >= ledger.done
  <2>1. ledger.done \in Nat /\ ledger' = ledger
    BY <1>1, <1>2 DEF WalletTypeOK
  <2> QED
    BY <2>1
<1> QED
    BY <1>2, <1>5, <1>6, <1>9, <1>10, <1>11, <1>12, <1>13, ChainStep

LEMMA IndexAndTickSteps ==
    ASSUME WInv, Tick \/ \E hash \in DOMAIN txs : Index(hash)
    PROVE  WInv'
<1>1. /\ UNCHANGED <<kind, told, tabs, records, txs, ledger, broken>>
      /\ time' = time \/ time' = time + 1
    BY DEF Tick, Index
<1>2. WalletTypeOK'
    BY <1>1 DEF WInv, WalletTypeOK
<1>3. Sound' /\ OneAtATime' /\ (Kept' <=> Kept) /\ (Once' <=> Once)
  <2>1. Sound' /\ OneAtATime'
    BY <1>1 DEF WInv, Sound, OneAtATime, StorageSound, OneRecordPerId, WellFormed, TabSound,
                DidIt, DoneBy, IsFinal, Status
  <2>2. Kept' <=> Kept
    BY <1>1 DEF Kept
  <2>3. Once' <=> Once
    BY <1>1 DEF Once, StorageJudged, Judged, TabJudged, Live, DoneBy, IsFinal, Status, Guarded,
                Locked, Locks, Holding, HandsOver, BeforeFinal
  <2> QED
    BY <2>1, <2>2, <2>3
<1> QED
    BY <1>2, <1>3 DEF WInv

-----------------------------------------------------------------------------
(* A tab moves, and the chain stays.                                        *)

\* What a tab's step must keep for the invariant to hold on.
LEMMA TabMoves ==
    ASSUME WInv, NEW t \in Tab, NEW new \in Tabs, tabs' = [tabs EXCEPT ![t] = new],
           UNCHANGED <<kind, txs, ledger, time>>, told' \in BOOLEAN, told => told',
           told' => told \/ ledger.done > 0,
           new.stage = "idle" \/ tabs[t].stage # "idle" \/ \A u \in Tab : tabs[u].stage = "idle",
           TabSound(new), records' \in Seq(Pending), StorageSound(records'),
           Kept' => Kept,
           Kept' /\ Once =>
              /\ TabJudged(new) /\ StorageJudged(records')
              /\ BeforeFinal(new) => BeforeFinal(tabs[t]) \/ \A h \in DOMAIN txs : ~Live(h)
              /\ \/ told'
                 \/ /\ Locked(records) => Locked(records')
                    /\ HandsOver(tabs[t]) => HandsOver(new) \/ Locked(records')
    PROVE  WInv'
<1>0. PICK stored \in Seq(Pending) :
        /\ stored = records' /\ StorageSound(stored)
        /\ Kept' /\ Once => StorageJudged(stored)
    OBVIOUS
<1>1. /\ tabs \in [Tab -> Tabs] /\ tabs'[t] = new
      /\ \A u \in Tab \ {t} : tabs'[u] = tabs[u]
    BY DEF WInv, WalletTypeOK
<1>2. WalletTypeOK'
    BY DEF WInv, WalletTypeOK
<1>3. OneAtATime'
    BY <1>1 DEF WInv, OneAtATime
<1>4. \A h : /\ DoneBy(h)' <=> DoneBy(h)
             /\ Live(h)' <=> Live(h)
             /\ Holding(h)' <=> Holding(h)
    BY DEF DoneBy, Live, Holding, IsFinal, Status
<1>5. Grown
    BY DEF WInv, WalletTypeOK, Grown
<1>6. StorageSound(stored)' /\ (Kept' /\ Once => StorageJudged(stored)')
    BY <1>0, <1>5, StillSound
<1>7. TabSound(new)' /\ (Kept' /\ Once => TabJudged(new)')
    BY <1>5, StillSound
<1>8. ASSUME NEW u \in Tab, u # t
      PROVE  TabSound(tabs[u])' /\ (Kept' /\ Once => TabJudged(tabs[u])')
  <2>1. PICK tab \in Tabs : tab = tabs[u] /\ tab = tabs'[u]
    BY <1>1, <1>8
  <2>2. TabSound(tab) /\ (Kept' /\ Once => TabJudged(tab))
    BY <2>1 DEF WInv, Sound, Once
  <2>3. TabSound(tab)' /\ (Kept' /\ Once => TabJudged(tab)')
    BY <1>5, <2>2, StillSound
  <2> QED
    BY <2>1, <2>3
<1>9. Sound'
  <2>1. (told' => ledger'.done > 0) /\ \A h \in DOMAIN txs' : DoneBy(h)' => ledger'.done > 0
    BY <1>4 DEF WInv, Sound
  <2> QED
    BY <1>0, <1>1, <1>6, <1>7, <1>8, <2>1 DEF Sound
<1>10. ASSUME Kept'
       PROVE  Once'
  <2>1. Once
    BY <1>10 DEF WInv
  <2>2. StorageJudged(records)' /\ \A u \in Tab : TabJudged(tabs[u])'
    BY <1>0, <1>1, <1>6, <1>7, <1>8, <1>10, <2>1
  <2>3. \A g, h \in DOMAIN txs' : Live(g)' /\ Live(h)' => g = h
    BY <1>4, <2>1 DEF Once
  <2>4. \/ ledger'.done = 0
        \/ ledger'.done = 1 /\ \E h \in DOMAIN txs' : DoneBy(h)'
    BY <1>4, <2>1 DEF Once
  <2>5. ASSUME NEW h \in DOMAIN txs', Live(h)'
        PROVE  (told \/ Guarded)' /\ \A u \in Tab : ~BeforeFinal(tabs[u])'
    <3>1. Live(h) /\ h \in DOMAIN txs
      BY <1>4, <2>5
    <3>2. (told \/ Guarded) /\ \A u \in Tab : ~BeforeFinal(tabs[u])
      BY <2>1, <3>1 DEF Once
    <3>3. ASSUME NEW u \in Tab
          PROVE  ~BeforeFinal(tabs[u])'
      <4>1. ~BeforeFinal(new)
        BY <1>10, <2>1, <3>1, <3>2
      <4>2. ~BeforeFinal(tabs'[u])
        BY <1>1, <3>2, <4>1
      <4> QED
        BY <4>2 DEF BeforeFinal
    <3>4. \/ told'
          \/ /\ Locked(records) => Locked(stored)
             /\ HandsOver(tabs[t]) => HandsOver(new) \/ Locked(stored)
      BY <1>0, <1>10, <2>1
    <3>5. Locked(stored) => Locked(records)'
      BY <1>0, <1>4 DEF Locked, Locks
    <3>6. HandsOver(new) => HandsOver(tabs[t])'
      BY <1>1, <1>4 DEF HandsOver
    <3>7. \A u \in Tab \ {t} : HandsOver(tabs[u]) => HandsOver(tabs[u])'
      BY <1>1, <1>4 DEF HandsOver
    <3>8. ASSUME ~told'
          PROVE  Guarded'
      <4>1. CASE Locked(records)
        BY <3>4, <3>5, <3>8, <4>1 DEF Guarded
      <4>2. CASE ~Locked(records)
        <5>1. PICK u \in Tab : HandsOver(tabs[u])
          BY <3>2, <3>8, <4>2 DEF Guarded
        <5> QED
          BY <3>4, <3>5, <3>6, <3>7, <3>8, <5>1 DEF Guarded
      <4> QED
        BY <4>1, <4>2
    <3> QED
      BY <3>3, <3>8
  <2> QED
    BY <2>2, <2>3, <2>4, <2>5 DEF Once
<1> QED
    BY <1>2, <1>3, <1>9, <1>10 DEF WInv

LEMMA TabFacts ==
    ASSUME WInv, NEW t \in Tab
    PROVE  /\ tabs \in [Tab -> Tabs] /\ tabs[t] \in Tabs /\ TabSound(tabs[t])
           /\ Once => TabJudged(tabs[t])
           /\ records \in Seq(Pending) /\ StorageSound(records)
           /\ Once => StorageJudged(records)
           /\ tabs[t].look \in Pending /\ tabs[t].waiting \in SUBSET Nat /\ tabs[t].busy \in BOOLEAN
           /\ tabs[t].waiting # {} => DidIt(tabs[t].waiting)
BY DEF WInv, WalletTypeOK, Sound, Once, TabSound, Tabs

LEMMA IdleIsATab ==
    Idle \in Tabs /\ Idle.stage = "idle"
<1>1. NoRecord \in Pending
    BY DEF NoRecord, Submitted, Pending
<1> QED
    BY <1>1 DEF Idle, Tabs, Stages

\* A tab that executes nothing keeps what it looks at, and waits for what was done.
Rests(new, t) ==
    /\ new \in Tabs /\ new.stage = "idle" /\ new.look = tabs[t].look
    /\ new.waiting # {} => DidIt(new.waiting)

LEMMA StopRests ==
    ASSUME WInv, NEW t \in Tab, NEW busy \in BOOLEAN, Stop(t, busy)
    PROVE  \E new : Rests(new, t) /\ tabs' = [tabs EXCEPT ![t] = new]
<1>1. PICK look \in Pending, waiting \in SUBSET Nat :
        /\ look = tabs[t].look /\ waiting = tabs[t].waiting
        /\ waiting # {} => DidIt(waiting)
    BY TabFacts
<1> DEFINE new == [Idle EXCEPT !.look = look, !.busy = busy, !.waiting = waiting]
<1>2. new \in Tabs /\ new.stage = "idle" /\ new.look = look /\ new.waiting = waiting
    BY IdleIsATab DEF Tabs
<1>3. tabs' = [tabs EXCEPT ![t] = new]
    BY <1>1 DEF Stop
<1> QED
    BY <1>1, <1>2, <1>3 DEF Rests

\* An execution that ends without a word leaves nothing that still has its final call to make.
LEMMA StopStep ==
    ASSUME WInv, NEW t \in Tab, NEW new, Rests(new, t), tabs' = [tabs EXCEPT ![t] = new],
           UNCHANGED <<kind, told, txs, ledger, time, broken>>,
           tabs[t].stage # "handed over",
           records' \in Seq(Pending), StorageSound(records'),
           StorageJudged(records) => StorageJudged(records'),
           Locked(records) => Locked(records')
    PROVE  WInv'
<1>1. new \in Tabs /\ new.stage = "idle"
    BY DEF Rests
<1>2. TabSound(new) /\ (Once => TabJudged(new))
    BY TabFacts DEF Rests, TabSound, TabJudged
<1>3. ~BeforeFinal(new) /\ ~HandsOver(new) /\ ~HandsOver(tabs[t])
    BY <1>1 DEF BeforeFinal, HandsOver
<1>4. told \in BOOLEAN /\ (Kept' => Kept)
    BY DEF WInv, WalletTypeOK, Kept
<1> QED
    BY <1>1, <1>2, <1>3, <1>4, TabFacts, TabMoves DEF Once

LEMMA GiveUpSteps ==
    ASSUME WInv, NEW t \in Tab, GiveUp(t) \/ ReceiptUnknown(t)
    PROVE  WInv'
<1>1. /\ tabs[t].stage # "handed over"
      /\ UNCHANGED <<kind, told, records, txs, ledger, time, broken>>
      /\ \E busy \in BOOLEAN : Stop(t, busy)
    BY DEF GiveUp, ReceiptUnknown
<1>2. PICK new : Rests(new, t) /\ tabs' = [tabs EXCEPT ![t] = new]
    BY <1>1, StopRests
<1> QED
    BY <1>1, <1>2, TabFacts, StopStep

LEMMA RevertedStep ==
    ASSUME WInv, NEW t \in Tab, Reverted(t)
    PROVE  WInv'
<1>1. /\ tabs[t].stage = "sent" /\ records' = Without(records, Record(t)) /\ Stop(t, FALSE)
      /\ UNCHANGED <<kind, told, txs, ledger, time, broken>>
    BY DEF Reverted
<1>2. Record(t).phase = "submitted" /\ ~Holding(Record(t).hash)
    BY DEF Reverted, Record, Submitted, Holding, Status
<1>3. /\ records' \in Seq(Pending) /\ StorageSound(records')
      /\ StorageJudged(records) => StorageJudged(records')
      /\ Locked(records) => Locked(records')
    BY <1>1, <1>2, TabFacts, StorageWithout
<1>4. PICK new : Rests(new, t) /\ tabs' = [tabs EXCEPT ![t] = new]
    BY <1>1, StopRests
<1> QED
    BY <1>1, <1>3, <1>4, StopStep

LEMMA WaitInBackgroundStep ==
    ASSUME WInv, NEW t \in Tab, WaitInBackground(t)
    PROVE  WInv'
<1>1. PICK look \in Pending, made \in SUBSET Nat :
        /\ look = tabs[t].look /\ made = tabs[t].made /\ DidIt(made)
        /\ tabs' = [tabs EXCEPT ![t] = [Idle EXCEPT !.look = look, !.busy = TRUE,
                                                    !.waiting = made]]
  <2>1. tabs[t].made \in SUBSET Nat
    BY TabFacts DEF Tabs
  <2>2. DidIt(tabs[t].made)
    BY TabFacts DEF WaitInBackground, TabSound
  <2> QED
    BY <2>1, <2>2, TabFacts DEF WaitInBackground
<1> DEFINE new == [Idle EXCEPT !.look = look, !.busy = TRUE, !.waiting = made]
<1>2. new \in Tabs /\ new.stage = "idle" /\ new.look = look /\ new.waiting = made
    BY IdleIsATab DEF Tabs
<1>3. Rests(new, t) /\ tabs' = [tabs EXCEPT ![t] = new]
    BY <1>1, <1>2 DEF Rests
<1>4. /\ tabs[t].stage = "indexing" /\ UNCHANGED <<kind, told, records, txs, ledger, time, broken>>
    BY DEF WaitInBackground
<1> QED
    BY <1>3, <1>4, TabFacts, StopStep

-----------------------------------------------------------------------------
(* An execution goes on to its final call.                                  *)

\* A first call that is the last one too is final.
LEMMA NextCall ==
    ASSUME WalletTypeOK
    PROVE  /\ Head(Calls) \in CallNames /\ Tail(Calls) \in {<<>>, <<"offer">>}
           /\ Head(Calls) # "approve"
           /\ Head(Calls) \in Final <=> Tail(Calls) = <<>>
<1>1. CASE kind = "fill"
  <2>1. Calls = <<"fill">>
    BY <1>1 DEF Calls
  <2> QED
    BY <2>1 DEF CallNames, Final
<1>2. CASE kind = "repay"
  <2>1. Calls = <<"repay">>
    BY <1>2 DEF Calls
  <2> QED
    BY <2>1 DEF CallNames, Final
<1>3. CASE kind = "create-offer" /\ Deficit > 0
  <2>1. Calls = <<"deposit">> \o <<"offer">>
    BY <1>3, Zenon DEF Calls
  <2>2. /\ <<"deposit">> \in Seq(CallNames) /\ <<"offer">> \in Seq(CallNames)
        /\ Len(<<"deposit">>) = 1 /\ Len(<<"offer">>) = 1
        /\ <<"deposit">>[1] = "deposit" /\ <<"offer">>[1] = "offer"
    BY DEF CallNames
  <2>3. /\ Calls \in Seq(CallNames) /\ Len(Calls) = 2
        /\ Calls[1] = "deposit" /\ Calls[2] = "offer"
    BY <2>1, <2>2, ConcatProperties
  <2>4. /\ Head(Calls) = "deposit" /\ Tail(Calls) \in Seq(CallNames)
        /\ Len(Tail(Calls)) = 1 /\ Tail(Calls)[1] = "offer"
    BY <2>3, HeadTailProperties
  <2>5. Tail(Calls) = <<"offer">>
    <3>1. PICK rest \in Seq(CallNames), offer \in Seq(CallNames) :
            /\ rest = Tail(Calls) /\ offer = <<"offer">> /\ Len(rest) = 1 /\ Len(offer) = 1
            /\ rest[1] = "offer" /\ offer[1] = "offer"
      BY <2>2, <2>4
    <3>2. \A i \in 1..Len(rest) : rest[i] = offer[i]
      BY <3>1
    <3>3. rest = offer
      BY <3>1, <3>2, SeqEqual
    <3> QED
      BY <3>1, <3>3
  <2> QED
    BY <2>4, <2>5 DEF CallNames, Final
<1>4. CASE kind = "create-offer" /\ ~(Deficit > 0)
  <2>1. Calls = <<"offer">>
    BY <1>4 DEF Calls
  <2> QED
    BY <2>1 DEF CallNames, Final
<1> QED
    BY <1>1, <1>2, <1>3, <1>4 DEF WalletTypeOK

LEMMA SignStep ==
    ASSUME WInv, NEW t \in Tab, tabs[t].stage \in {"preflight", "preflight again"},
           NEW call \in CallNames, NEW todo \in {<<>>, <<"offer">>},
           call \in Final <=> call # "approve" /\ todo = <<>>,
           Sign(t, call, todo),
           UNCHANGED <<kind, told, records, txs, ledger, time, broken>>
    PROVE  WInv'
<1>1. PICK tab \in Tabs : tab = tabs[t]
    BY TabFacts
<1>2. PICK new \in Tabs :
        /\ tabs' = [tabs EXCEPT ![t] = new]
        /\ new.stage = "wallet" /\ new.call = call /\ new.todo = todo
        /\ new.look = tab.look /\ new.waiting = tab.waiting
  <2> DEFINE new == [tab EXCEPT !.stage = "wallet", !.call = call, !.todo = todo]
  <2>1. tabs' = [tabs EXCEPT ![t] = new]
    BY <1>1 DEF Sign
  <2>2. /\ new \in Tabs
        /\ new.stage = "wallet" /\ new.call = call /\ new.todo = todo
        /\ new.look = tab.look /\ new.waiting = tab.waiting
    BY DEF Tabs, Stages
  <2> QED
    BY <2>1, <2>2
<1>3. TabSound(new) /\ (Once => TabJudged(new))
    BY <1>1, <1>2, TabFacts DEF TabSound, TabJudged
<1>4. BeforeFinal(tabs[t]) /\ ~HandsOver(tabs[t]) /\ tabs[t].stage # "idle"
    BY DEF BeforeFinal, HandsOver
<1>5. told \in BOOLEAN /\ (Kept' => Kept)
    BY DEF WInv, WalletTypeOK, Kept
<1> QED
    BY <1>2, <1>3, <1>4, <1>5, TabFacts, TabMoves DEF Once

LEMMA PreflightSteps ==
    ASSUME WInv, NEW t \in Tab, Preflight(t) \/ PreflightAgain(t)
    PROVE  WInv'
<1>1. /\ tabs[t].stage \in {"preflight", "preflight again"}
      /\ UNCHANGED <<kind, told, records, txs, ledger, time, broken>>
    BY DEF Preflight, PreflightAgain
<1>2. CASE Stop(t, FALSE)
  <2>1. PICK new : Rests(new, t) /\ tabs' = [tabs EXCEPT ![t] = new]
    BY <1>2, StopRests
  <2> QED
    BY <1>1, <2>1, TabFacts, StopStep
<1>3. CASE Sign(t, "approve", <<>>)
    BY <1>1, <1>3, SignStep DEF CallNames, Final
<1>4. CASE Sign(t, Head(Calls), Tail(Calls))
    BY <1>1, <1>4, NextCall, SignStep DEF WInv
<1>5. CASE tabs' = [tabs EXCEPT ![t] = [Idle EXCEPT !.look = tabs[t].look, !.refused = TRUE,
                                                    !.waiting = tabs[t].waiting]]
  <2>1. PICK look \in Pending, waiting \in SUBSET Nat :
          look = tabs[t].look /\ waiting = tabs[t].waiting /\ (waiting # {} => DidIt(waiting))
    BY TabFacts
  <2> DEFINE new == [Idle EXCEPT !.look = look, !.refused = TRUE, !.waiting = waiting]
  <2>2. new \in Tabs /\ new.stage = "idle" /\ new.look = look /\ new.waiting = waiting
    BY IdleIsATab DEF Tabs
  <2>3. Rests(new, t) /\ tabs' = [tabs EXCEPT ![t] = new]
    BY <1>5, <2>1, <2>2 DEF Rests
  <2> QED
    BY <1>1, <2>3, TabFacts, StopStep
<1> QED
    BY <1>2, <1>3, <1>4, <1>5 DEF Preflight, PreflightAgain

\* Whoever may start has no record, and so no final call that is live.
LEMMA StartStep ==
    ASSUME WInv, NEW t \in Tab, Start(t)
    PROVE  WInv'
<1>1. /\ \A u \in Tab : tabs[u].stage = "idle"
      /\ ~told /\ records = <<>> /\ UNCHANGED <<kind, told, records, txs, ledger, time, broken>>
    BY DEF Start, Unlocked
<1>2. PICK tab \in Tabs : tab = tabs[t]
    BY TabFacts
<1>3. PICK ceiling \in Int : ceiling = Payoff + DriftBuffer
    BY AmountsType, WalletConstants DEF WInv
<1>4. PICK new \in Tabs :
        /\ tabs' = [tabs EXCEPT ![t] = new]
        /\ new.stage = "preflight" /\ new.look = tab.look /\ new.waiting = tab.waiting
  <2> DEFINE new == [tab EXCEPT !.stage = "preflight", !.busy = TRUE, !.refused = FALSE,
                                !.ceiling = ceiling]
  <2>1. tabs' = [tabs EXCEPT ![t] = new]
    BY <1>2, <1>3 DEF Start
  <2>2. /\ new \in Tabs
        /\ new.stage = "preflight" /\ new.look = tab.look /\ new.waiting = tab.waiting
    BY DEF Tabs, Stages
  <2> QED
    BY <2>1, <2>2
<1>5. TabSound(new) /\ (Once => TabJudged(new))
    BY <1>2, <1>4, TabFacts DEF TabSound, TabJudged
<1>6. Once => \A h \in DOMAIN txs : ~Live(h)
  <2>1. ~Locked(records)
    BY <1>1 DEF Locked
  <2>2. \A u \in Tab : ~HandsOver(tabs[u])
    BY <1>1 DEF HandsOver
  <2> QED
    BY <1>1, <2>1, <2>2 DEF Once, Guarded
<1>7. ~HandsOver(tabs[t])
    BY <1>1 DEF HandsOver
<1>8. told \in BOOLEAN /\ (Kept' => Kept)
    BY <1>1 DEF WInv, WalletTypeOK, Kept
<1> QED
    BY <1>1, <1>4, <1>5, <1>6, <1>7, <1>8, TabFacts, TabMoves DEF Once

\* A final call is made only where none is live, and the page holds on to it.
LEMMA WalletSendsStep ==
    ASSUME WInv, NEW t \in Tab, WalletSends(t)
    PROVE  WInv'
<1>1. /\ WalletTypeOK /\ txs \in Seq(Transactions) /\ DOMAIN txs = 1..Len(txs)
      /\ Len(txs) \in Nat
    BY DEF WInv, WalletTypeOK
<1>2. PICK tab \in Tabs : tab = tabs[t] /\ tab.stage = "wallet" /\ TabSound(tab)
    BY TabFacts DEF WalletSends
<1>3. tab.call \in CallNames
    BY <1>2 DEF TabSound
<1>4. PICK n \in Nat, tx \in Transactions :
        /\ n = Len(txs) + 1 /\ txs' = Append(txs, tx) /\ tx.call = tab.call /\ tx.status = "pool"
  <2>1. PICK amount \in Int : txs' = Append(txs, Tx(tab.call, amount))
    BY <1>1, <1>2, AmountsType DEF WalletSends, Tabs
  <2>2. /\ Tx(tab.call, amount) \in Transactions
        /\ Tx(tab.call, amount).call = tab.call /\ Tx(tab.call, amount).status = "pool"
    BY <1>3 DEF Tx, Transactions
  <2> QED
    BY <1>1, <2>1, <2>2
<1>5. /\ txs' \in Seq(Transactions) /\ DOMAIN txs' = DOMAIN txs \cup {n} /\ n \notin DOMAIN txs
      /\ txs'[n] = tx /\ \A h \in DOMAIN txs : txs'[h] = txs[h]
  <2>1. DOMAIN txs' = 1..n /\ 1..n = (1..Len(txs)) \cup {n}
    BY <1>1, <1>4
  <2> QED
    BY <1>1, <1>4, <2>1
<1>6. Grown
    BY <1>5 DEF Grown
<1>7. PICK new \in Tabs :
        /\ tabs' = [tabs EXCEPT ![t] = new]
        /\ new.stage = "handed over" /\ new.hash = n
        /\ new.call = tab.call /\ new.todo = tab.todo /\ new.look = tab.look
        /\ new.waiting = tab.waiting
  <2> DEFINE new == [tab EXCEPT !.stage = "handed over", !.hash = n]
  <2>1. tabs' = [tabs EXCEPT ![t] = new]
    BY <1>2, <1>4 DEF WalletSends
  <2>2. /\ new \in Tabs /\ new.stage = "handed over" /\ new.hash = n
        /\ new.call = tab.call /\ new.todo = tab.todo /\ new.look = tab.look
        /\ new.waiting = tab.waiting
    BY DEF Tabs, Stages
  <2> QED
    BY <2>1, <2>2
<1>8. UNCHANGED <<kind, told, records, ledger, time, broken>>
    BY DEF WalletSends
<1>9. /\ tabs \in [Tab -> Tabs] /\ tabs'[t] = new
      /\ \A u \in Tab \ {t} : tabs'[u] = tabs[u]
    BY <1>7, TabFacts
<1>10. WalletTypeOK'
    BY <1>1, <1>5, <1>7, <1>8 DEF WalletTypeOK
<1>11. OneAtATime'
    BY <1>2, <1>7, <1>9 DEF WInv, OneAtATime
<1>12. /\ \A h \in DOMAIN txs : DoneBy(h)' <=> DoneBy(h)
       /\ \A h \in DOMAIN txs : Live(h)' <=> Live(h)
       /\ ~DoneBy(n)' /\ (Live(n)' <=> tab.call \in Final)
    BY <1>4, <1>5 DEF DoneBy, Live, IsFinal, Status
<1>13. TabSound(new)' /\ (Once => TabJudged(new)')
  <2>1. /\ DidIt(tab.waiting) => DidIt(tab.waiting)'
        /\ \A r : WellFormed(r) => WellFormed(r)'
        /\ \A r : WellFormed(r) /\ Judged(r) => Judged(r)'
    BY <1>6, StillSound DEF DidIt
  <2>2. tab.call \in Final <=> tab.call # "approve" /\ tab.todo = <<>>
    BY <1>2 DEF TabSound
  <2>3. TabSound(new)'
    BY <1>2, <1>3, <1>4, <1>5, <1>7, <2>1, <2>2 DEF TabSound
  <2>4. Once => TabJudged(tab)
    BY <1>2 DEF Once
  <2>5. Once => TabJudged(new)'
    BY <1>2, <1>7, <2>1, <2>4 DEF TabJudged, TabSound
  <2> QED
    BY <2>3, <2>5
<1>14. ASSUME NEW u \in Tab
       PROVE  TabSound(tabs[u])' /\ (Once => TabJudged(tabs[u])')
  <2>1. CASE u = t
    BY <1>9, <1>13, <2>1
  <2>2. CASE u # t
    <3>1. PICK other : other = tabs[u] /\ other = tabs'[u]
      BY <1>9, <2>2
    <3>2. TabSound(other) /\ (Once => TabJudged(other))
      BY <3>1 DEF WInv, Sound, Once
    <3>3. TabSound(other)' /\ (Once => TabJudged(other)')
      BY <1>6, <3>2, StillSound
    <3> QED
      BY <3>1, <3>3
  <2> QED
    BY <2>1, <2>2
<1>15. StorageSound(records)' /\ (Once => StorageJudged(records)')
  <2>1. PICK stored : stored = records /\ stored = records'
    BY <1>8
  <2>2. StorageSound(stored)' /\ (Once => StorageJudged(stored)')
    BY <1>6, <2>1, StillSound DEF WInv, Sound, Once
  <2> QED
    BY <2>1, <2>2
<1>16. Sound'
  <2>1. (told' => ledger'.done > 0) /\ \A h \in DOMAIN txs' : DoneBy(h)' => ledger'.done > 0
    BY <1>5, <1>8, <1>12 DEF WInv, Sound
  <2> QED
    BY <1>14, <1>15, <2>1 DEF Sound
<1>17. ASSUME Kept'
       PROVE  Once'
  <2>1. Once
    BY <1>8, <1>17 DEF WInv, Kept
  <2>2. \A h \in DOMAIN txs : ~Live(h)
    BY <1>2, <2>1 DEF Once, BeforeFinal
  <2>3. \A g, h \in DOMAIN txs' : Live(g)' /\ Live(h)' => g = h
    BY <1>5, <1>12, <2>2
  <2>4. ledger'.done = 0
    BY <1>8, <2>1, <2>2 DEF Once, DoneBy, Live
  <2>5. ASSUME NEW h \in DOMAIN txs', Live(h)'
        PROVE  (told \/ Guarded)' /\ \A u \in Tab : ~BeforeFinal(tabs[u])'
    <3>1. h = n /\ tab.call \in Final
      BY <1>5, <1>12, <2>2, <2>5
    <3>2. HandsOver(tabs[t])'
      BY <1>7, <1>9, <2>5, <3>1 DEF HandsOver, Holding, Live
    <3>3. \A u \in Tab : ~BeforeFinal(tabs[u])'
      <4>1. ~BeforeFinal(new)
        BY <1>7, <3>1 DEF BeforeFinal
      <4>2. \A u \in Tab \ {t} : tabs[u].stage = "idle"
        BY <1>2 DEF WInv, OneAtATime
      <4> QED
        BY <1>9, <4>1, <4>2 DEF BeforeFinal
    <3> QED
      BY <3>2, <3>3 DEF Guarded
  <2> QED
    BY <1>14, <1>15, <2>1, <2>3, <2>4, <2>5 DEF Once
<1> QED
    BY <1>10, <1>11, <1>16, <1>17 DEF WInv

-----------------------------------------------------------------------------
(* A transaction is recorded, and its record taken up or away.              *)

\* The record of a transaction that was handed over calls complete what is final.
LEMMA RecordIsSound ==
    ASSUME WInv, NEW t \in Tab, tabs[t].stage \in {"handed over", "sent"}
    PROVE  /\ Record(t) \in Pending /\ Record(t).phase = "submitted"
           /\ Record(t).hash = tabs[t].hash
           /\ WellFormed(Record(t)) /\ Judged(Record(t))
           /\ Made(t) \in SUBSET Nat
           /\ IsFinal(tabs[t].hash) <=> tabs[t].call \in Final
           /\ tabs[t].call \in Final <=> tabs[t].call # "approve" /\ tabs[t].todo = <<>>
           /\ tabs[t].call \in Final => tabs[t].hash \in Made(t)
<1>1. PICK tab \in Tabs : tab = tabs[t] /\ TabSound(tab) /\ tab.stage \in {"handed over", "sent"}
    BY TabFacts
<1>2. /\ tab.hash \in Nat /\ tab.made \in SUBSET Nat /\ tab.hash \in DOMAIN txs
      /\ tab.call \in Final <=> tab.call # "approve" /\ tab.todo = <<>>
      /\ IsFinal(tab.hash) <=> tab.call \in Final
    BY <1>1 DEF Tabs, TabSound, IsFinal
<1>3. /\ Made(t) \in SUBSET Nat
      /\ tab.call # "approve" => tab.hash \in Made(t)
    BY <1>1, <1>2 DEF Made
<1>4. PICK completes \in BOOLEAN :
        /\ completes <=> tab.call # "approve" /\ tab.todo = <<>>
        /\ Record(t) = Submitted(tab.hash, Made(t), completes)
  <2>1. Record(t) = Submitted(tab.hash, Made(t), tab.call # "approve" /\ tab.todo = <<>>)
    BY <1>1 DEF Record
  <2> QED
    BY <2>1, Zenon
<1>5. PICK r \in Pending :
        /\ r = Record(t) /\ r.phase = "submitted" /\ r.hash = tab.hash
        /\ r.hashes = Made(t) /\ r.completes = completes
  <2>1. PICK made \in SUBSET Nat : made = Made(t)
    BY <1>3
  <2>2. Submitted(tab.hash, made, completes) \in Pending
    BY <1>2 DEF Submitted, Pending
  <2> QED
    BY <1>4, <2>1, <2>2 DEF Submitted
<1>6. WellFormed(r) /\ Judged(r)
    BY <1>2, <1>3, <1>4, <1>5 DEF WellFormed, Judged
<1> QED
    BY <1>1, <1>2, <1>3, <1>5, <1>6

LEMMA IndexingIsSound ==
    ASSUME NEW hashes \in SUBSET Nat, DidIt(hashes)
    PROVE  /\ Indexing(hashes) \in Pending /\ WellFormed(Indexing(hashes))
           /\ Judged(Indexing(hashes)) /\ Locks(Indexing(hashes))
<1>1. /\ Indexing(hashes) \in Pending
      /\ Indexing(hashes).phase = "indexing" /\ Indexing(hashes).hashes = hashes
    BY DEF Indexing, Pending
<1> QED
    BY <1>1 DEF WellFormed, Judged, Locks

\* onSubmitted: the record holds on to what the page held on to.
LEMMA PersistStep ==
    ASSUME WInv, NEW t \in Tab, Persist(t)
    PROVE  WInv'
<1>1. PICK tab \in Tabs : tab = tabs[t] /\ TabSound(tab) /\ tab.stage = "handed over"
    BY TabFacts DEF Persist
<1>2. /\ records' = Upsert(records, Record(t))
      /\ UNCHANGED <<kind, told, txs, ledger, time, broken>>
    BY DEF Persist
<1>3. /\ records' \in Seq(Pending) /\ StorageSound(records')
      /\ Once => StorageJudged(records')
      /\ Locks(Record(t)) \/ Locked(records) => Locked(records')
    BY <1>1, <1>2, RecordIsSound, StorageUpsert, TabFacts
<1>4. PICK new \in Tabs :
        /\ tabs' = [tabs EXCEPT ![t] = new]
        /\ new.stage = "sent" /\ new.hash = tab.hash /\ new.call = tab.call
        /\ new.todo = tab.todo /\ new.look = tab.look /\ new.waiting = tab.waiting
  <2> DEFINE new == [tab EXCEPT !.stage = "sent"]
  <2>1. tabs' = [tabs EXCEPT ![t] = new]
    BY <1>1 DEF Persist, Goto
  <2>2. /\ new \in Tabs
        /\ new.stage = "sent" /\ new.hash = tab.hash /\ new.call = tab.call
        /\ new.todo = tab.todo /\ new.look = tab.look /\ new.waiting = tab.waiting
    BY DEF Tabs, Stages
  <2> QED
    BY <2>1, <2>2
<1>5. TabSound(new) /\ (Once => TabJudged(new))
    BY <1>1, <1>4, TabFacts DEF TabSound, TabJudged
<1>6. /\ HandsOver(tabs[t]) => Locked(records')
      /\ BeforeFinal(new) => BeforeFinal(tabs[t])
      /\ tabs[t].stage # "idle"
    BY <1>1, <1>3, <1>4, RecordIsSound DEF HandsOver, Locks, BeforeFinal
<1>7. told \in BOOLEAN /\ (Kept' => Kept)
    BY <1>2 DEF WInv, WalletTypeOK, Kept
<1> QED
    BY <1>2, <1>3, <1>4, <1>5, <1>6, <1>7, TabMoves

\* A confirmed call that is not the last gives way to the next; the last one to its indexing.
LEMMA ConfirmedStep ==
    ASSUME WInv, NEW t \in Tab, Confirmed(t)
    PROVE  WInv'
<1> DEFINE rest == Without(records, Record(t))
<1>1. PICK tab \in Tabs :
        /\ tab = tabs[t] /\ TabSound(tab) /\ tab.stage = "sent"
        /\ txs[tab.hash].status = "ok"
    BY TabFacts DEF Confirmed, Status
<1>2. UNCHANGED <<kind, told, txs, ledger, time, broken>>
    BY DEF Confirmed
<1>3. PICK made \in SUBSET Nat : made = Made(t)
    BY <1>1, RecordIsSound
<1>4. /\ rest \in Seq(Pending) /\ StorageSound(rest)
      /\ Once => StorageJudged(rest)
      /\ tab.call \notin Final /\ Locked(records) => Locked(rest)
    BY <1>1, RecordIsSound, StorageWithout, TabFacts DEF Holding
<1>5. ~HandsOver(tabs[t]) /\ tabs[t].stage # "idle" /\ told \in BOOLEAN /\ (Kept' => Kept)
    BY <1>1, <1>2 DEF HandsOver, WInv, WalletTypeOK, Kept
<1>6. CASE tab.call = "approve"
  <2>1. PICK new \in Tabs :
          /\ tabs' = [tabs EXCEPT ![t] = new]
          /\ new.stage = "preflight again" /\ new.look = tab.look /\ new.waiting = tab.waiting
    <3> DEFINE new == [tab EXCEPT !.stage = "preflight again"]
    <3>1. tabs' = [tabs EXCEPT ![t] = new]
      BY <1>1, <1>6 DEF Confirmed, Goto
    <3>2. /\ new \in Tabs
          /\ new.stage = "preflight again" /\ new.look = tab.look /\ new.waiting = tab.waiting
      BY DEF Tabs, Stages
    <3> QED
      BY <3>1, <3>2
  <2>2. TabSound(new) /\ (Once => TabJudged(new))
    BY <1>1, <2>1, TabFacts DEF TabSound, TabJudged
  <2>3. records' = rest /\ tab.call \notin Final /\ BeforeFinal(tabs[t])
    BY <1>1, <1>6 DEF Confirmed, Final, BeforeFinal
  <2> HIDE DEF rest
  <2> QED
    BY <1>2, <1>4, <1>5, <2>1, <2>2, <2>3, TabMoves
<1>7. CASE tab.call # "approve" /\ tab.todo # <<>>
  <2>1. tab.todo = <<"offer">> /\ Head(tab.todo) = "offer" /\ Tail(tab.todo) = <<>>
    <3>1. tab.todo = <<"offer">>
      BY <1>7 DEF Tabs
    <3> QED
      BY <3>1
  <2>2. PICK new \in Tabs :
          /\ tabs' = [tabs EXCEPT ![t] = new]
          /\ new.stage = "wallet" /\ new.call = "offer" /\ new.todo = <<>>
          /\ new.look = tab.look /\ new.waiting = tab.waiting
    <3> DEFINE new == [tab EXCEPT !.stage = "wallet", !.made = made, !.call = "offer",
                                  !.todo = <<>>]
    <3>1. tabs' = [tabs EXCEPT ![t] = new]
      BY <1>1, <1>3, <1>7, <2>1 DEF Confirmed
    <3>2. /\ new \in Tabs
          /\ new.stage = "wallet" /\ new.call = "offer" /\ new.todo = <<>>
          /\ new.look = tab.look /\ new.waiting = tab.waiting
      BY DEF Tabs, Stages, CallNames
    <3> QED
      BY <3>1, <3>2
  <2>3. TabSound(new) /\ (Once => TabJudged(new))
    BY <1>1, <2>2, TabFacts DEF TabSound, TabJudged, CallNames, Final
  <2>4. records' = rest /\ tab.call \notin Final /\ BeforeFinal(tabs[t])
    BY <1>1, <1>7 DEF Confirmed, BeforeFinal, TabSound
  <2> HIDE DEF rest
  <2> QED
    BY <1>2, <1>4, <1>5, <2>2, <2>3, <2>4, TabMoves
<1>8. CASE tab.call # "approve" /\ tab.todo = <<>>
  <2>1. DidIt(made)
    BY <1>1, <1>3, <1>8, RecordIsSound DEF DidIt, DoneBy, Status
  <2>2. PICK r \in Pending : r = Indexing(made) /\ WellFormed(r) /\ Judged(r) /\ Locks(r)
    BY <2>1, IndexingIsSound
  <2>3. PICK new \in Tabs :
          /\ tabs' = [tabs EXCEPT ![t] = new]
          /\ new.stage = "indexing" /\ new.made = made
          /\ new.look = tab.look /\ new.waiting = tab.waiting
    <3> DEFINE new == [tab EXCEPT !.stage = "indexing", !.made = made]
    <3>1. tabs' = [tabs EXCEPT ![t] = new]
      BY <1>1, <1>3, <1>8 DEF Confirmed
    <3>2. /\ new \in Tabs /\ new.stage = "indexing" /\ new.made = made
          /\ new.look = tab.look /\ new.waiting = tab.waiting
      BY DEF Tabs, Stages
    <3> QED
      BY <3>1, <3>2
  <2>4. TabSound(new) /\ (Once => TabJudged(new)) /\ ~BeforeFinal(new)
    BY <1>1, <2>1, <2>3, TabFacts DEF TabSound, TabJudged, BeforeFinal
  <2>5. records' = Upsert(rest, r)
    BY <1>1, <1>3, <1>8, <2>2 DEF Confirmed
  <2> HIDE DEF rest
  <2>6. /\ records' \in Seq(Pending) /\ StorageSound(records')
        /\ Once => StorageJudged(records')
        /\ Locked(records')
    BY <1>4, <2>2, <2>5, StorageUpsert
  <2> QED
    BY <1>2, <1>5, <2>3, <2>4, <2>6, TabMoves
<1> QED
    BY <1>6, <1>7, <1>8

-----------------------------------------------------------------------------
(* The user is told.                                                        *)

LEMMA ToldOfWhatIsDone ==
    ASSUME WInv, NEW hashes, DidIt(hashes)
    PROVE  ledger.done > 0
BY DEF WInv, Sound, DidIt, DoneBy, IsFinal

\* Once the user is told, nothing has to hold on to anything.
LEMMA ToldStep ==
    ASSUME WInv, NEW t \in Tab, NEW new \in Tabs, tabs' = [tabs EXCEPT ![t] = new],
           NEW hashes, DidIt(hashes), NEW r, records' = Without(records, r), told' = TRUE,
           UNCHANGED <<kind, txs, ledger, time, broken>>,
           new.look = NoRecord \/ new.look = tabs[t].look,
           new.waiting = {} \/ new.waiting = tabs[t].waiting,
           new.stage = "idle" \/ /\ new.stage = tabs[t].stage /\ new.call = tabs[t].call
                                 /\ new.todo = tabs[t].todo /\ new.hash = tabs[t].hash
                                 /\ new.made = tabs[t].made
    PROVE  WInv'
<1>1. ledger.done > 0
    BY ToldOfWhatIsDone
<1>2. /\ records' \in Seq(Pending) /\ StorageSound(records')
      /\ Once => StorageJudged(records')
    BY StorageWithout, TabFacts
<1>3. TabSound(new) /\ (Once => TabJudged(new))
    BY TabFacts DEF TabSound, TabJudged
<1>4. BeforeFinal(new) => BeforeFinal(tabs[t])
    BY DEF BeforeFinal
<1>5. /\ told' \in BOOLEAN /\ (Kept' => Kept)
      /\ new.stage = "idle" \/ tabs[t].stage # "idle" \/ \A u \in Tab : tabs[u].stage = "idle"
  <2>1. ASSUME new.stage # "idle"
        PROVE  tabs[t].stage # "idle"
    BY <2>1
  <2> QED
    BY <2>1 DEF Kept
<1> QED
    BY <1>1, <1>2, <1>3, <1>4, <1>5, TabMoves

LEMMA IndexedInTimeStep ==
    ASSUME WInv, NEW t \in Tab, IndexedInTime(t)
    PROVE  WInv'
<1>1. PICK new : Rests(new, t) /\ tabs' = [tabs EXCEPT ![t] = new]
    BY StopRests DEF IndexedInTime
<1>2. DidIt(tabs[t].made)
    BY TabFacts DEF IndexedInTime, TabSound
<1>3. /\ told' = TRUE /\ UNCHANGED <<kind, txs, ledger, time, broken>>
      /\ records' = Without(records, Indexing(tabs[t].made)) /\ tabs[t].stage = "indexing"
    BY DEF IndexedInTime
<1>4. /\ records' \in Seq(Pending) /\ StorageSound(records')
      /\ Once => StorageJudged(records')
    BY <1>3, StorageWithout, TabFacts
<1>5. new \in Tabs /\ new.stage = "idle" /\ TabSound(new) /\ (Once => TabJudged(new))
    BY <1>1, TabFacts DEF Rests, TabSound, TabJudged
<1>6. ~BeforeFinal(new) /\ ledger.done > 0 /\ (Kept' => Kept)
    BY <1>2, <1>3, <1>5, ToldOfWhatIsDone DEF BeforeFinal, Kept
<1> QED
    BY <1>1, <1>3, <1>4, <1>5, <1>6, TabMoves

LEMMA IndexedLaterStep ==
    ASSUME WInv, NEW t \in Tab, IndexedLater(t)
    PROVE  WInv'
<1>1. PICK tab \in Tabs : tab = tabs[t]
    BY TabFacts
<1>2. PICK busy \in BOOLEAN :
        busy = (tab.busy /\ Without(records, Indexing(tab.waiting)) # <<>>)
    OBVIOUS
<1>3. /\ DidIt(tab.waiting) /\ told' = TRUE /\ UNCHANGED <<kind, txs, ledger, time, broken>>
      /\ records' = Without(records, Indexing(tab.waiting))
    BY <1>1, TabFacts DEF IndexedLater, Finish
<1>4. PICK new \in Tabs :
        /\ tabs' = [tabs EXCEPT ![t] = new]
        /\ new.stage = tab.stage /\ new.call = tab.call /\ new.todo = tab.todo
        /\ new.hash = tab.hash /\ new.made = tab.made /\ new.look = tab.look /\ new.waiting = {}
  <2> DEFINE new == [tab EXCEPT !.waiting = {}, !.busy = busy]
  <2>1. tabs' = [tabs EXCEPT ![t] = new]
    BY <1>1, <1>2 DEF IndexedLater, Finish, Tabs
  <2>2. /\ new \in Tabs
        /\ new.stage = tab.stage /\ new.call = tab.call /\ new.todo = tab.todo
        /\ new.hash = tab.hash /\ new.made = tab.made /\ new.look = tab.look /\ new.waiting = {}
    BY DEF Tabs
  <2> QED
    BY <2>1, <2>2
<1> QED
    BY <1>1, <1>3, <1>4, ToldStep

-----------------------------------------------------------------------------
(* reconcilePendingV2: a record is looked at and judged beside whatever the *)
(* tab executes.                                                            *)

SameExecution(new, tab) ==
    /\ new.stage = tab.stage /\ new.call = tab.call /\ new.todo = tab.todo
    /\ new.hash = tab.hash /\ new.made = tab.made /\ new.waiting = tab.waiting

LEMMA ReconcileStep ==
    ASSUME WInv, NEW t \in Tab, NEW new \in Tabs, tabs' = [tabs EXCEPT ![t] = new],
           SameExecution(new, tabs[t]),
           new.look = NoRecord \/ WellFormed(new.look),
           Once => new.look = NoRecord \/ Judged(new.look),
           UNCHANGED <<kind, told, txs, ledger, time>>, Kept' => Kept,
           records' \in Seq(Pending), StorageSound(records'), Once => StorageJudged(records'),
           Once /\ Locked(records) => Locked(records')
    PROVE  WInv'
<1>1. TabSound(new) /\ (Once => TabJudged(new))
    BY TabFacts DEF TabSound, TabJudged, SameExecution
<1>2. /\ BeforeFinal(new) => BeforeFinal(tabs[t])
      /\ HandsOver(tabs[t]) => HandsOver(new)
    BY DEF BeforeFinal, HandsOver, SameExecution
<1>3. new.stage = "idle" \/ tabs[t].stage # "idle"
    BY DEF SameExecution
<1>4. told \in BOOLEAN
    BY DEF WInv, WalletTypeOK
<1> QED
    BY <1>1, <1>2, <1>3, <1>4, TabMoves

\* What remains of a tab that has judged its record, or could not.
Judging(new, tab) == new \in Tabs /\ new.look = NoRecord /\ SameExecution(new, tab)

LEMMA LooksAway ==
    ASSUME WInv, NEW t \in Tab
    PROVE  /\ Judging(LookedAway(t), tabs[t])
           /\ \A busy \in BOOLEAN : Judging([LookedAway(t) EXCEPT !.busy = busy], tabs[t])
<1>1. PICK tab \in Tabs : tab = tabs[t]
    BY TabFacts
<1>2. NoRecord \in Pending
    BY DEF NoRecord, Submitted, Pending
<1>3. PICK none \in Pending : none = NoRecord
    BY <1>2
<1> DEFINE new == [tab EXCEPT !.look = none]
<1>4. /\ new \in Tabs /\ new.look = none
      /\ new.stage = tab.stage /\ new.call = tab.call /\ new.todo = tab.todo
      /\ new.hash = tab.hash /\ new.made = tab.made /\ new.waiting = tab.waiting
    BY DEF Tabs
<1>5. LookedAway(t) = new
    BY <1>1, <1>3 DEF LookedAway
<1> HIDE DEF new
<1>6. ASSUME NEW busy \in BOOLEAN
      PROVE  Judging([new EXCEPT !.busy = busy], tab)
  <2> DEFINE other == [new EXCEPT !.busy = busy]
  <2>1. /\ other \in Tabs /\ other.look = new.look
        /\ other.stage = new.stage /\ other.call = new.call /\ other.todo = new.todo
        /\ other.hash = new.hash /\ other.made = new.made /\ other.waiting = new.waiting
    BY <1>4 DEF Tabs
  <2> HIDE DEF other
  <2>2. Judging(other, tab)
    BY <1>3, <1>4, <2>1 DEF Judging, SameExecution
  <2> QED
    BY <2>2 DEF other
<1> QED
    BY <1>1, <1>3, <1>4, <1>5, <1>6 DEF Judging, SameExecution

LEMMA LookSteps ==
    ASSUME WInv, NEW t \in Tab, Look(t) \/ ReadFails(t)
    PROVE  WInv'
<1>1. /\ UNCHANGED <<kind, told, records, txs, ledger, time>> /\ (Kept' => Kept)
    BY DEF Look, ReadFails, Mishap, Kept
<1>2. CASE Look(t)
  <2>1. PICK tab \in Tabs : tab = tabs[t]
    BY TabFacts
  <2>2. PICK r \in Pending : r = Head(records) /\ WellFormed(r) /\ (Once => Judged(r))
    <3>1. records # <<>> /\ records \in Seq(Pending)
      BY <1>2, TabFacts DEF Look, Unlocked
    <3>2. Head(records) = records[1] /\ 1 \in DOMAIN records /\ records[1] \in Pending
      BY <3>1
    <3> QED
      BY <3>2, TabFacts DEF StorageSound, StorageJudged
  <2>3. PICK new \in Tabs :
          tabs' = [tabs EXCEPT ![t] = new] /\ new.look = r /\ SameExecution(new, tab)
    <3> DEFINE new == [tab EXCEPT !.look = r, !.busy = TRUE]
    <3>1. tabs' = [tabs EXCEPT ![t] = new]
      BY <1>2, <2>1, <2>2 DEF Look
    <3>2. /\ new \in Tabs /\ new.look = r
          /\ new.stage = tab.stage /\ new.call = tab.call /\ new.todo = tab.todo
          /\ new.hash = tab.hash /\ new.made = tab.made /\ new.waiting = tab.waiting
      BY DEF Tabs
    <3> QED
      BY <3>1, <3>2 DEF SameExecution
  <2> QED
    BY <1>1, <2>1, <2>2, <2>3, ReconcileStep, TabFacts
<1>3. CASE ReadFails(t)
  <2>1. tabs' = [tabs EXCEPT ![t] = LookedAway(t)]
    BY <1>3 DEF ReadFails
  <2> QED
    BY <1>1, <2>1, LooksAway, ReconcileStep, TabFacts DEF Judging
<1> QED
    BY <1>2, <1>3

\* A record is taken away only with a transaction that holds nothing.
LEMMA JudgeReceiptStep ==
    ASSUME WInv, NEW t \in Tab, JudgeReceipt(t)
    PROVE  WInv'
<1>1. PICK r \in Pending :
        /\ r = tabs[t].look /\ r # NoRecord /\ r.phase = "submitted"
        /\ WellFormed(r) /\ (Once => Judged(r))
    BY TabFacts DEF JudgeReceipt, TabSound, TabJudged
<1>2. PICK rest : rest = Without(records, r)
    OBVIOUS
<1>3. /\ rest \in Seq(Pending) /\ StorageSound(rest)
      /\ Once => StorageJudged(rest)
      /\ ~Holding(r.hash) /\ Locked(records) => Locked(rest)
    BY <1>1, <1>2, StorageWithout, TabFacts
<1>4. UNCHANGED <<kind, told, txs, ledger, time>> /\ (Kept' => Kept)
    BY DEF JudgeReceipt, Kept
<1>5. PICK busy \in BOOLEAN : busy = (tabs[t].busy /\ rest # <<>>)
    OBVIOUS
<1>6. CASE /\ tabs' = [tabs EXCEPT ![t] = LookedAway(t)]
           /\ UNCHANGED records
    BY <1>4, <1>6, LooksAway, ReconcileStep, TabFacts DEF Judging
<1>7. CASE /\ Status(r.hash) = "ok" /\ Completes(r)
           /\ tabs' = [tabs EXCEPT ![t] = LookedAway(t)]
           /\ records' = Upsert(rest, Indexing(r.hashes))
  <2>1. DidIt(r.hashes) /\ r.hashes \in SUBSET Nat
    BY <1>1, <1>7 DEF WellFormed, Completes, DidIt, DoneBy, Pending
  <2>2. /\ records' \in Seq(Pending) /\ StorageSound(records')
        /\ Once => StorageJudged(records')
        /\ Locked(records')
    BY <1>3, <1>7, <2>1, IndexingIsSound, StorageUpsert
  <2> QED
    BY <1>4, <1>7, <2>2, LooksAway, ReconcileStep DEF Judging
<1>8. CASE /\ Status(r.hash) = "reverted" \/ (Status(r.hash) = "ok" /\ ~Completes(r))
           /\ tabs' = [tabs EXCEPT ![t] = [LookedAway(t) EXCEPT !.busy = busy]]
           /\ records' = rest
  <2>1. Once => ~Holding(r.hash)
    BY <1>1, <1>8 DEF Judged, Completes, Holding
  <2> QED
    BY <1>3, <1>4, <1>8, <2>1, LooksAway, ReconcileStep DEF Judging
<1>9. [LookedAway(t) EXCEPT !.busy = @ /\ rest # <<>>] = [LookedAway(t) EXCEPT !.busy = busy]
    BY <1>5, TabFacts DEF LookedAway, Tabs
<1> QED
    BY <1>1, <1>2, <1>6, <1>7, <1>8, <1>9 DEF JudgeReceipt

LEMMA JudgeIndexStep ==
    ASSUME WInv, NEW t \in Tab, JudgeIndex(t)
    PROVE  WInv'
<1>1. PICK r \in Pending :
        r = tabs[t].look /\ r # NoRecord /\ r.phase = "indexing" /\ WellFormed(r)
    BY TabFacts DEF JudgeIndex, TabSound
<1>2. UNCHANGED <<kind, txs, ledger, time, broken>> /\ (Kept' => Kept)
    BY DEF JudgeIndex, Kept
<1>3. CASE r.hashes \subseteq indexed
  <2>1. PICK busy \in BOOLEAN :
          busy = (tabs[t].busy /\ Without(records, Indexing(r.hashes)) # <<>>)
    OBVIOUS
  <2>2. [LookedAway(t) EXCEPT !.busy = @ /\ Without(records, Indexing(r.hashes)) # <<>>]
           = [LookedAway(t) EXCEPT !.busy = busy]
    BY <2>1, TabFacts DEF LookedAway, Tabs
  <2>3. /\ told' = TRUE /\ records' = Without(records, Indexing(r.hashes))
        /\ tabs' = [tabs EXCEPT ![t] = [LookedAway(t) EXCEPT !.busy = busy]]
    BY <1>1, <1>3, <2>2 DEF JudgeIndex, Finish
  <2>4. DidIt(r.hashes)
    BY <1>1 DEF WellFormed
  <2> QED
    BY <1>2, <2>3, <2>4, LooksAway, ToldStep DEF Judging, SameExecution
<1>4. CASE ~(r.hashes \subseteq indexed)
  <2>1. tabs' = [tabs EXCEPT ![t] = LookedAway(t)] /\ UNCHANGED <<told, records>>
    BY <1>1, <1>4 DEF JudgeIndex
  <2> QED
    BY <1>2, <2>1, LooksAway, ReconcileStep, TabFacts DEF Judging
<1> QED
    BY <1>3, <1>4

-----------------------------------------------------------------------------
(* What is beyond the client: a hash that is lost, a record not stored.     *)

LEMMA ReloadStep ==
    ASSUME WInv, NEW t \in Tab, Reload(t)
    PROVE  WInv'
<1>1. /\ tabs' = [tabs EXCEPT ![t] = Idle] /\ UNCHANGED <<kind, told, records, txs, ledger, time>>
      /\ broken \subseteq broken'
      /\ tabs[t].stage = "handed over" => "hash lost" \in broken'
    BY DEF Reload, Mishap
<1>2. (Kept' => Kept) /\ (Kept' => ~HandsOver(tabs[t]))
    BY <1>1 DEF Kept, HandsOver
<1>3. /\ Idle \in Tabs /\ Idle.stage = "idle" /\ Idle.look = NoRecord /\ Idle.waiting = {}
    BY IdleIsATab DEF Idle
<1>4. TabSound(Idle) /\ TabJudged(Idle) /\ ~BeforeFinal(Idle)
    BY <1>3 DEF TabSound, TabJudged, BeforeFinal
<1>5. told \in BOOLEAN
    BY DEF WInv, WalletTypeOK
<1> QED
    BY <1>1, <1>2, <1>3, <1>4, <1>5, TabFacts, TabMoves

LEMMA PersistFailsStep ==
    ASSUME WInv, NEW t \in Tab, PersistFails(t)
    PROVE  WInv'
<1> DEFINE r == Submitted(tabs[t].hash, {tabs[t].hash}, FALSE)
<1>1. /\ UNCHANGED <<kind, told, txs, ledger, time>> /\ ~Kept'
      /\ tabs[t].stage = "handed over" /\ Stop(t, TRUE)
      /\ records' \in {records, Upsert(records, r)}
    BY DEF PersistFails, Mishap, Kept
<1>2. PICK new : Rests(new, t) /\ tabs' = [tabs EXCEPT ![t] = new]
    BY <1>1, StopRests
<1>3. new \in Tabs /\ new.stage = "idle" /\ TabSound(new)
    BY <1>2, TabFacts DEF Rests, TabSound
<1>4. tabs[t].hash \in DOMAIN txs /\ tabs[t].hash \in Nat
    BY <1>1, TabFacts DEF TabSound, Tabs
<1>5. r \in Pending /\ WellFormed(r)
  <2>1. PICK hash \in Nat : hash = tabs[t].hash
    BY <1>4
  <2>2. /\ Submitted(hash, {hash}, FALSE) \in Pending
        /\ Submitted(hash, {hash}, FALSE).phase = "submitted"
        /\ Submitted(hash, {hash}, FALSE).hash = hash
        /\ Submitted(hash, {hash}, FALSE).completes = FALSE
    BY DEF Submitted, Pending
  <2> QED
    BY <1>4, <2>1, <2>2 DEF WellFormed
<1> HIDE DEF r
<1>6. records' \in Seq(Pending) /\ StorageSound(records')
    BY <1>1, <1>5, StorageUpsert, TabFacts
<1>7. told \in BOOLEAN
    BY DEF WInv, WalletTypeOK
<1> QED
    BY <1>1, <1>2, <1>3, <1>6, <1>7, TabMoves

-----------------------------------------------------------------------------
(* The theorem.                                                             *)

LEMMA InitInvariant ==
    ASSUME Init
    PROVE  WInv
<1>1. /\ kind \in {"fill", "create-offer", "repay"} /\ told = FALSE
      /\ tabs = [t \in Tab |-> Idle] /\ records = <<>> /\ txs = <<>>
      /\ ledger = [allowance |-> 0, free |-> 0, done |-> 0] /\ time = 0
  <2>1. kind \in {"fill", "create-offer", "repay"}
    BY WalletConstants DEF Init
  <2> QED
    BY <2>1 DEF Init
<1>2. Idle \in Tabs /\ Idle.stage = "idle" /\ Idle.look = NoRecord /\ Idle.waiting = {}
    BY IdleIsATab DEF Idle
<1>3. WalletTypeOK
  <2>1. tabs \in [Tab -> Tabs]
    BY <1>1, <1>2
  <2>2. records \in Seq(Pending) /\ txs \in Seq(Transactions)
    BY <1>1, EmptySeq
  <2>3. ledger \in [allowance: Int, free: Int, done: Nat]
    BY <1>1
  <2> QED
    BY <1>1, <2>1, <2>2, <2>3 DEF WalletTypeOK
<1>4. OneAtATime
    BY <1>1, <1>2 DEF OneAtATime
<1>5. DOMAIN records = {} /\ DOMAIN txs = {}
    BY <1>1
<1>6. Sound
  <2>1. TabSound(Idle)
    BY <1>2 DEF TabSound
  <2>2. StorageSound(records)
    BY <1>5 DEF StorageSound, OneRecordPerId
  <2> QED
    BY <1>1, <1>5, <2>1, <2>2 DEF Sound
<1>7. Once
  <2>1. TabJudged(Idle)
    BY <1>2 DEF TabJudged
  <2>2. StorageJudged(records)
    BY <1>5 DEF StorageJudged
  <2> QED
    BY <1>1, <1>5, <2>1, <2>2 DEF Once
<1> QED
    BY <1>3, <1>4, <1>6, <1>7 DEF WInv

LEMMA NextInvariant ==
    ASSUME WInv, [Next]_vars
    PROVE  WInv'
<1>1. CASE UNCHANGED vars
  <2>1. UNCHANGED <<kind, told, tabs, records, txs, ledger, time, broken>>
    BY <1>1 DEF vars
  <2>2. (WalletTypeOK' <=> WalletTypeOK) /\ (OneAtATime' <=> OneAtATime) /\ (Kept' <=> Kept)
    BY <2>1 DEF WalletTypeOK, OneAtATime, Kept
  <2>3. Sound' <=> Sound
    BY <2>1 DEF Sound, StorageSound, OneRecordPerId, WellFormed, TabSound, DidIt, DoneBy, IsFinal,
                Status
  <2>4. Once' <=> Once
    BY <2>1 DEF Once, StorageJudged, Judged, TabJudged, Live, DoneBy, IsFinal, Status, Guarded,
                Locked, Locks, Holding, HandsOver, BeforeFinal
  <2> QED
    BY <2>2, <2>3, <2>4 DEF WInv
<1>2. ASSUME NEW t \in Tab, TabStep(t)
      PROVE  WInv'
    BY <1>2, PersistStep, ConfirmedStep, RevertedStep, IndexedInTimeStep, IndexedLaterStep,
       LookSteps, JudgeReceiptStep, JudgeIndexStep DEF TabStep
<1>3. ASSUME NEW t \in Tab, Chosen(t)
      PROVE  WInv'
    BY <1>3, StartStep, PreflightSteps, GiveUpSteps, WalletSendsStep, WaitInBackgroundStep
       DEF Chosen
<1>4. CASE \E hash \in DOMAIN txs : Mine(hash)
    BY <1>4, MineStep
<1>5. CASE Tick \/ \E hash \in DOMAIN txs : Index(hash)
    BY <1>5, IndexAndTickSteps
<1>6. CASE Mishaps
    BY <1>6, ReloadStep, LookSteps, PersistFailsStep, SpeedUpStep DEF Mishaps
<1> QED
    BY <1>1, <1>2, <1>3, <1>4, <1>5, <1>6 DEF Next

(***************************************************************************)
(* However often its user repeats an action, in whichever tabs, through    *)
(* reloads and transactions replaced in the wallet, it is done once, and   *)
(* nobody is told of success before; unless a hash was lost on its way to  *)
(* the page, or the storage refused the record.                            *)
(***************************************************************************)
THEOREM ActionsAreDoneOnce == Spec => []DoneOnce
<1>1. Init => WInv
    BY InitInvariant
<1>2. WInv /\ [Next]_vars => WInv'
    BY NextInvariant
<1>3. WInv => DoneOnce
  <2>1. ASSUME WInv
        PROVE  NothingTwice /\ SuccessIsReal
    <3>1. ledger.done \in Nat
      BY <2>1 DEF WInv, WalletTypeOK
    <3>2. Kept => ledger.done <= 1
      BY <2>1, <3>1 DEF WInv, Once
    <3> QED
      BY <2>1, <3>2 DEF WInv, Sound, Kept, NothingTwice, SuccessIsReal
  <2> QED
    BY <2>1 DEF DoneOnce
<1> QED
    BY <1>1, <1>2, <1>3, PTL DEF Spec
=============================================================================
