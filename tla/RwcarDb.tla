------------------------------- MODULE RwcarDb -------------------------------
(***************************************************************************)
(* The projection tables of the database (packages/db/src/schema.ts) as    *)
(* partial functions from the key of a unique index to a row.  A row keeps *)
(* the columns that change or that decide what a handler does; addresses,  *)
(* terms, hashes and timestamps are copied from the event and left out.    *)
(***************************************************************************)
EXTENDS Integers, Sequences, TLC

\* INSERT ... ON CONFLICT DO NOTHING; INSERT ... ON CONFLICT DO UPDATE; UPDATE.
InsertOnce(table, key, row) == table @@ (key :> row)
Upsert(table, key, row) == (key :> row) @@ table
Has(table, key) == key \in DOMAIN table
\* A table without a unique index: how many rows there are with these contents.
InsertAgain(table, key) == (key :> IF Has(table, key) THEN table[key] + 1 ELSE 1) @@ table
Update(table, key, row) == IF Has(table, key) THEN Upsert(table, key, row) ELSE table
UpdateWhere(table, Where(_), Set(_)) ==
    [k \in DOMAIN table |-> IF Where(table[k]) THEN Set(table[k]) ELSE table[k]]

NoRows == <<>>

\* Row contents, one definition per table.
OfferRow(status, left, collateral) ==
    [status |-> status, left |-> left, collateral |-> collateral]
PositionRow(status, offer) ==
    [status |-> status, offer |-> offer, auction |-> 0, frozen |-> FALSE]
AuctionRow(status, kind, frozen) == [status |-> status, kind |-> kind, frozen |-> frozen]
ClaimRow(status) == [status |-> status]
AccountRow(snapshot, closed) == [snapshot |-> snapshot, closed |-> closed]
ExposureRow(status) == [status |-> status]
CallRow(status) == [status |-> status]
LiquidationRow(status) == [status |-> status]
ValuationRow == [invalidated |-> FALSE]
ConfigurationRow == [enabled |-> TRUE]
JobRow(status) == [status |-> status]
EventRow(name, height) == [name |-> name, height |-> height]

\* Every table a rebuild empties, and the notices to agents, which it keeps.
EmptyTables ==
    [offers |-> NoRows, positions |-> NoRows, vault |-> NoRows, ledger |-> NoRows,
     auctions |-> NoRows, settlements |-> NoRows, claims |-> NoRows, accounts |-> NoRows,
     exposures |-> NoRows, calls |-> NoRows, liquidations |-> NoRows,
     valuations |-> NoRows, risk |-> NoRows, jobs |-> NoRows, events |-> NoRows,
     notices |-> NoRows]
=============================================================================
