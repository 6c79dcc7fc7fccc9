------------------------------ MODULE V2Indexer ------------------------------
(***************************************************************************)
(* The multi-source indexer (apps/indexer/src/v2-indexer.ts).  A round     *)
(* reads the head once and then takes the sources in the order of the      *)
(* configuration, controllers first.  For each it compares the checkpoint  *)
(* with the chain, reads a batch of logs, projects each log in a database  *)
(* transaction of its own and writes the checkpoint.  Blocks are added and *)
(* reorganised away, and RPC calls and the process fail, between any two   *)
(* of these steps.                                                         *)
(***************************************************************************)
EXTENDS FiniteSets, ProtocolLog, V2Projector

CONSTANTS
    Confirmations,   \* INDEXER_CONFIRMATIONS
    BatchSize,       \* INDEXER_BATCH_SIZE
    MaxBlocks,       \* bound: blocks with a transaction, for each product
    MaxReorgs,       \* bound: reorganisations
    MaxDepth,        \* bound: blocks a reorganisation replaces
    MaxAborts,       \* bound: rounds ended by an RPC error or a restart
    ChosenProducts,  \* products the instance looks at
    HiddenReorgs     \* whether a reorganisation may escape every checkpoint

ASSUME IndexerConstants ==
    /\ Confirmations \in Nat /\ BatchSize \in Nat \ {0}
    /\ {MaxReorgs, MaxDepth, MaxAborts} \subseteq Nat /\ MaxBlocks \in [Products -> Nat]
    /\ ChosenProducts \subseteq Products /\ HiddenReorgs \in BOOLEAN

VARIABLES
    product,    \* the product whose contracts are looked at
    chain,      \* blocks [tx, hash, fork]: one transaction, its hash, the block's hash
    fork,       \* changes with every reorganisation, and block hashes with it
    peak,       \* the greatest height so far
    db,         \* the projection tables
    checkpoint, \* indexer_checkpoints, a row or NoRow for each source
    round,      \* the running round: step, source, head, range and the logs in hand
    reorgs, aborts

indexerVars == <<db, checkpoint, round>>
vars == <<product, chain, fork, peak, indexerVars, reorgs, aborts>>

NoRow == [height |-> 0, fork |-> 0]
Idle == [pc |-> "idle", at |-> 1, finalized |-> 0, from |-> 1, to |-> 0, logs |-> <<>>]

\* Deviation: the manifest's order is kept, children before their controllers.
SourcesAsListed ==
    CASE product = "repo" -> <<"house", "market">>
      [] product = "custody" -> <<"vault", "escrow", "market">>
      [] product = "margin" -> <<"marginHouse", "engine">>
      [] product = "reference" -> <<"oracle", "risk">>

\* Controllers first, then prices and parameters, then the rest.
Sources ==
    CASE product = "repo" -> <<"market", "house">>
      [] product = "custody" -> <<"market", "vault", "escrow">>
      [] product = "margin" -> <<"engine", "marginHouse">>
      [] product = "reference" -> <<"oracle", "risk">>

SourceNames == {"market", "vault", "house", "escrow", "engine", "marginHouse", "oracle", "risk"}

Source == Sources[round.at]

Init ==
    /\ product \in ChosenProducts
    /\ chain = <<>> /\ fork = 1 /\ peak = 0
    /\ db = EmptyTables
    /\ checkpoint = [s \in SourceNames |-> NoRow]
    /\ round = Idle
    /\ reorgs = 0 /\ aborts = 0

-----------------------------------------------------------------------------
(* The chain.                                                               *)

TruthAt(height) ==
    FoldLeft(LAMBDA t, block : IF block.tx.op = "none" THEN t ELSE Apply(product, t, block.tx),
             Genesis, SubSeq(chain, 1, height))
Truth == TruthAt(Len(chain))

\* A transaction's hash does not depend on the block that holds it.
TxHash(tx) == <<tx, Cardinality({h \in DOMAIN chain : chain[h].tx = tx})>>

\* A reorganisation replaces blocks and never shortens the chain: until the new branch is as
\* long as the old one, nobody sees it.
Visible == Len(chain) = peak

\* A new block lies above the head that a round has read, so it is added between rounds.
Transact(tx) ==
    /\ Len(chain) < MaxBlocks[product]
    /\ Visible => round.pc = "idle"
    /\ Allowed(product, Truth, tx)
    /\ chain' = Append(chain, [tx |-> tx, hash |-> TxHash(tx), fork |-> fork])
    /\ peak' = IF Len(chain) + 1 > peak THEN Len(chain) + 1 ELSE peak
    /\ UNCHANGED <<product, fork, indexerVars, reorgs, aborts>>

\* The blocks that confirm the last of them are empty.
EmptyBlock == [op |-> "none", id |-> 0]
Confirm ==
    /\ Len(chain) \in MaxBlocks[product] .. MaxBlocks[product] + Confirmations - 1
    /\ Visible => round.pc = "idle"
    /\ chain' = Append(chain, [tx |-> EmptyBlock, hash |-> <<EmptyBlock, 0>>, fork |-> fork])
    /\ peak' = IF Len(chain) + 1 > peak THEN Len(chain) + 1 ELSE peak
    /\ UNCHANGED <<product, fork, indexerVars, reorgs, aborts>>

\* A checkpoint that will be compared with the chain again before it is overwritten.
Standing(s) ==
    checkpoint[s] # NoRow /\ ~(round.pc \in {"read", "project"} /\ s = Source)

\* Blocks above the height that the running round reads or that have left rows behind.
ReadAbove(height) ==
    \/ round.pc # "idle" /\ round.finalized > height
    \/ \E e \in DOMAIN db.events : db.events[e].height > height

\* A reorganisation of blocks the indexer takes for final, and no checkpoint that tells.
Hidden(height) ==
    /\ ReadAbove(height)
    /\ \A s \in SourceNames : Standing(s) => checkpoint[s].height <= height

Reorg(height) ==
    /\ reorgs < MaxReorgs
    /\ Visible /\ height < Len(chain) /\ height >= Len(chain) - MaxDepth
    /\ HiddenReorgs \/ ~Hidden(height)
    /\ chain' = SubSeq(chain, 1, height)
    /\ fork' = fork + 1
    /\ reorgs' = reorgs + 1
    /\ UNCHANGED <<product, peak, indexerVars, aborts>>

-----------------------------------------------------------------------------
(* A round.                                                                 *)

StartRound ==
    /\ Visible /\ round.pc = "idle"
    /\ Len(chain) > Confirmations
    /\ round' = [Idle EXCEPT !.pc = "check", !.finalized = Len(chain) - Confirmations]
    /\ UNCHANGED <<product, chain, fork, peak, db, checkpoint, reorgs, aborts>>

\* The next source, or the end of the round.
NextSource ==
    IF round.at < Len(Sources)
    THEN [Idle EXCEPT !.pc = "check", !.at = round.at + 1, !.finalized = round.finalized]
    ELSE Idle

ReadFrom(from) ==
    IF from > round.finalized THEN NextSource
    ELSE [round EXCEPT !.pc = "read", !.from = from,
                       !.to = IF from + BatchSize - 1 < round.finalized
                              THEN from + BatchSize - 1 ELSE round.finalized]

CanonicalCheckpoint(row) == chain[row.height].fork = row.fork

\* Deviation: the log registry survives, so that no log is projected again.
ResetKeepingEvents ==
    /\ db' = [EmptyTables EXCEPT !.notices = db.notices, !.events = db.events]
    /\ checkpoint' = [s \in SourceNames |-> NoRow]

ResetAllV2 ==
    /\ db' = [EmptyTables EXCEPT !.notices = db.notices]
    /\ checkpoint' = [s \in SourceNames |-> NoRow]

NextBlock ==
    LET row == checkpoint[Source]
    IN  /\ Visible /\ round.pc = "check"
        /\ IF row = NoRow \/ CanonicalCheckpoint(row)
           THEN round' = ReadFrom(row.height + 1) /\ UNCHANGED <<db, checkpoint>>
           ELSE round' = ReadFrom(1) /\ ResetAllV2
        /\ UNCHANGED <<product, chain, fork, peak, reorgs, aborts>>

\* The logs of one source in one block, with where they stand.
BlockLogs(height, source) ==
    LET block == chain[height]
        logs == IF block.tx.op = "none" THEN <<>>
                ELSE Logs(product, TruthAt(height - 1), block.tx)
        Placed(i) == logs[i] @@ [tx |-> block.hash, idx |-> i, height |-> height]
    IN  SelectSeq([i \in DOMAIN logs |-> Placed(i)], LAMBDA log : log.source = source)

Heights(from, to) == [i \in 1..(to - from + 1) |-> from + i - 1]

GetLogs ==
    /\ Visible /\ round.pc = "read"
    /\ round' = [round EXCEPT
         !.pc = "project",
         !.logs = FlattenSeq([i \in DOMAIN Heights(round.from, round.to) |->
                                BlockLogs(Heights(round.from, round.to)[i], Source)])]
    /\ UNCHANGED <<product, chain, fork, peak, db, checkpoint, reorgs, aborts>>

\* A log that is on record already is not projected again.
RecordAndProject(event) ==
    LET key == <<event.tx, event.idx>>
        recorded == [db EXCEPT !.events = InsertOnce(@, key, EventRow(event.name, event.height))]
    IN  db' = IF Has(db.events, key) THEN db
              ELSE ProjectV2Event(recorded, event, TruthAt(event.height).account, Target)

\* The contracts' state at the event's block is read from the chain as it is now.
ProjectLog ==
    LET event == Head(round.logs)
    IN  /\ Visible /\ round.pc = "project"
        /\ round.logs # <<>>
        /\ Has(db.events, <<event.tx, event.idx>>) \/ Projectable(db, event)
        /\ RecordAndProject(event)
        /\ round' = [round EXCEPT !.logs = Tail(@)]
        /\ UNCHANGED <<product, chain, fork, peak, checkpoint, reorgs, aborts>>

\* A handler that misses a row throws, which ends the round.
SyncFails ==
    LET event == Head(round.logs)
    IN  /\ Visible /\ round.pc = "project"
        /\ round.logs # <<>>
        /\ ~Has(db.events, <<event.tx, event.idx>>) /\ ~Projectable(db, event)
        /\ round' = Idle
        /\ UNCHANGED <<product, chain, fork, peak, db, checkpoint, reorgs, aborts>>

\* The hash of the last block is read after the logs.
WriteCheckpoint ==
    /\ Visible /\ round.pc = "project"
    /\ round.logs = <<>>
    /\ checkpoint' = [checkpoint EXCEPT
                        ![Source] = [height |-> round.to, fork |-> chain[round.to].fork]]
    /\ round' = NextSource
    /\ UNCHANGED <<product, chain, fork, peak, db, reorgs, aborts>>

\* Any RPC call or database statement may fail, and the process may be restarted.
Abort ==
    /\ Visible /\ round.pc # "idle"
    /\ aborts < MaxAborts
    /\ aborts' = aborts + 1
    /\ round' = Idle
    /\ UNCHANGED <<product, chain, fork, peak, db, checkpoint, reorgs>>

SyncStep == StartRound \/ NextBlock \/ GetLogs \/ ProjectLog \/ WriteCheckpoint \/ SyncFails

Next ==
    \/ \E tx \in TxsOf(product) : Transact(tx)
    \/ Confirm
    \/ \E height \in 0..MaxBlocks[product] + Confirmations : Reorg(height)
    \/ SyncStep
    \/ Abort

Spec == Init /\ [][Next]_vars

\* The polling loop runs for ever: weak fairness of SyncStep, with the states in which it is
\* enabled written out.
CanSync == Visible /\ (round.pc = "idle" => Len(chain) > Confirmations)
PollsForEver == []<>~CanSync \/ []<><<SyncStep>>_vars

FairSpec == Spec /\ PollsForEver
=============================================================================
