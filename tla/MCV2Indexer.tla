----------------------------- MODULE MCV2Indexer -----------------------------
(* Chains just long enough for each product to go through its lifecycle.    *)
EXTENDS V2IndexerProperties

Blocks == [repo |-> 5, custody |-> 4, margin |-> 5, reference |-> 4]
=============================================================================
