--------------------------- MODULE BlockContext ---------------------------
(***************************************************************************)
(* What a contract reads of the block that runs its transaction: the time  *)
(* of the block and the addresses that sign.  A transaction is atomic and  *)
(* transactions are ordered, so time only moves between two of them.       *)
(***************************************************************************)
EXTENDS FiniteSets, Integers

VARIABLE now            \* block.timestamp

\* The users (sellers, lenders, bidders, the treasury), and address(0), which
\* no transaction comes from.  An address has 160 bits, so there are finitely
\* many users.
CONSTANTS Account, NoAccount
ASSUME AccountAssumption == IsFiniteSet(Account) /\ NoAccount \notin Account

\* The ids the auction house may give out: it counts them from 1, in 256 bits.
CONSTANT AuctionIds
ASSUME AuctionIdsAssumption ==
    /\ IsFiniteSet(AuctionIds)
    /\ AuctionIds \subseteq Nat \ {0}
=============================================================================
