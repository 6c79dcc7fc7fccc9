-------------------- MODULE CollateralVaultV2Properties --------------------
(***************************************************************************)
(* What the vault promises whoever controls it.                            *)
(***************************************************************************)
EXTENDS CollateralVaultV2, Functions

AmountsOf(buckets) == [i \in DOMAIN buckets |-> buckets[i].amount]

(***************************************************************************)
(* The vault owes exactly the sum of its buckets and holds at least that   *)
(* many CVA tokens (CollateralVaultV2.isSolvent), over every sequence of   *)
(* calls its controller can make.                                          *)
(***************************************************************************)
VaultSolvent ==
    /\ totalAccounted =
          SumFunction(availableBalance) + SumFunction(AmountsOf(offerReserved))
            + SumFunction(AmountsOf(positionLocked)) + SumFunction(AmountsOf(auctionLocked))
            + SumFunction(AmountsOf(marginLocked))
    /\ totalAccounted <= vaultAssets

\* What a set of buckets holds for an owner, and what the whole vault does.
HeldIn(buckets, a) ==
    SumFunctionOnSet(AmountsOf(buckets), {i \in DOMAIN buckets : buckets[i].owner = a})
Owned(a) ==
    availableBalance[a] + HeldIn(offerReserved, a) + HeldIn(positionLocked, a)
      + HeldIn(auctionLocked, a) + HeldIn(marginLocked, a)

Custody == INSTANCE CustodyLedger WITH
    Holder <- Account, InitialTokens <- InitialCva,
    owed <- [a \in Account |-> Owned(a)], held <- vaultAssets, wallet <- cva

(***************************************************************************)
(* The buckets implement custody: reserving, allocating, auctioning and    *)
(* releasing collateral never changes whose it is or how much of it there  *)
(* is, whichever reference ids and owners the controller passes; only      *)
(* deposits, withdrawals, seizures and auction releases do.                *)
(***************************************************************************)
ImplementsCustody == Custody!LedgerSpec
=============================================================================
