------------------------ MODULE MarginEngineV2Proofs ------------------------
(***************************************************************************)
(* The cross-margin engine's books, custody, recovery and closeouts for    *)
(* every value of the constants: each lender's share is there and can be   *)
(* claimed, nobody is locked in, and the API's preflight leaves the ways   *)
(* out open and prepares fundings that execute.                            *)
(***************************************************************************)
EXTENDS MarginEngineV2Properties, V2MarginPreflight, ProtocolModulesV2Theorems

(***************************************************************************)
(* What the engine's records keep to themselves and each other, and what   *)
(* its promises need to be inductive.  Ids are handed out in order; an     *)
(* account that is closed out names the pool its collateral lies in, and   *)
(* auctions and closeouts in kind never share one; a default or a call     *)
(* remembers its reason.                                                   *)
(***************************************************************************)
PoolNamed(m) ==
    LET account == accounts[m]
    IN  /\ account.status = "LIQUIDATING" =>
              /\ account.claimPoolId = account.auctionId
              /\ account.auctionId \in AuctionIds
              /\ accountForAuction[account.auctionId] = m
        /\ account.status = "AUCTION_FAILED" =>
              /\ account.claimPoolId \in AuctionIds
              /\ \/ accountForAuction[account.claimPoolId] = m
                 \/ account.claimPoolId = InKindPool(m)

AccountSound(m) ==
    LET account == accounts[m]
    IN  /\ account.status = "NONE" => account = NoMarginAccount
        /\ account.status # "NONE" => m < nextAccountId /\ account.seller \in Account
        /\ account.status # "LIQUIDATED" => account.remainingProceeds = 0
        /\ account.status \in Running /\ account.paymentDefaultDeclared
              => account.totalFaceDebt > 0
        /\ account.status \in ClosedOut => account.frozenDebt > 0
        /\ account.paymentDefaultDeclared => Overdue(m, account.defaultDeclaredAt)
        /\ account.status = "MARGIN_CALL"
              => account.marginCallDeadline > account.snapshot.marginCallPeriod
        /\ PoolNamed(m)

(***************************************************************************)
(* What is left of a pool is what the claims made have not taken, and      *)
(* nothing once the last of them is made.                                  *)
(***************************************************************************)
SharesIn(m, pool) ==
    [e \in ExposureIds |-> MulDiv(pool, exposures[e].faceDebt, accounts[m].frozenDebt)]
LeftOf(m, pool, remaining) ==
    remaining = IF ExposuresOf(m, {"ACTIVE"}) = {}
                THEN 0
                ELSE pool - SumFunctionOnSet(SharesIn(m, pool), ExposuresOf(m, Claimed))
PoolLeft(m) ==
    LET account == accounts[m]
    IN  /\ account.status = "LIQUIDATED" =>
              LeftOf(m, account.liquidationProceeds, account.remainingProceeds)
        /\ account.status = "AUCTION_FAILED" =>
              LeftOf(m, account.collateralAmount, account.remainingCollateral)

\* All that one account's invariant says.
NettingSetSound(m) ==
    /\ AccountSound(m) /\ PoolLeft(m)
    /\ AggregatesRight(m) /\ FundedByMandate(m) /\ AccountCustody(m)

\* An exposure belongs to an account that is open; one that was claimed to one closed out.
ExposureSound(e) ==
    LET exposure == exposures[e]
    IN  /\ exposure.status = "NONE" <=> exposure.accountId = 0
        /\ exposure.status # "NONE" =>
              /\ e < nextExposureId
              /\ exposure.lender \in Account
              /\ exposure.principal > 0 /\ exposure.faceDebt >= exposure.principal
        /\ \A m \in MarginIds : exposure.accountId = m =>
              /\ accounts[m].status # "NONE"
              /\ exposure.status = "PROCEEDS_CLAIMED" => accounts[m].status = "LIQUIDATED"
              /\ exposure.status = "COLLATERAL_CLAIMED" => accounts[m].status = "AUCTION_FAILED"

\* Auction ids in use lie below every id of a pool in kind.
PoolsApart ==
    /\ nextAuctionId <= IN_KIND_AUCTION_OFFSET
    /\ \A x \in AuctionIds : accountForAuction[x] # 0 => x < nextAuctionId

PoolsInv == PoolsApart /\ AuctionsSound /\ \A x \in AuctionIds : PoolCustody(x)

RecordsInv ==
    /\ \A m \in MarginIds : NettingSetSound(m)
    /\ \A e \in ExposureIds : ExposureSound(e)
    /\ now > 0

MInv == MarginTypeOK /\ RecordsInv /\ PoolsInv

-----------------------------------------------------------------------------
(* One exposure changes: what becomes of the sums over an account's         *)
(* exposures.                                                               *)

\* Whether an exposure is one of an account's in some status.
CountsFor(m, statuses, exposure) == exposure.accountId = m /\ exposure.status \in statuses

\* Sums over an account's exposures change by what the changed exposure counts for.
LEMMA ExposureSums ==
    ASSUME exposures \in [ExposureIds -> Exposure], NEW e \in ExposureIds, NEW new \in Exposure,
           exposures' = [exposures EXCEPT ![e] = new], NEW m \in MarginIds, NEW statuses
    PROVE  /\ FaceDebtOf(ExposuresOf(m, statuses))' =
                  FaceDebtOf(ExposuresOf(m, statuses))
                     + (IF CountsFor(m, statuses, new) THEN new.faceDebt ELSE 0)
                     - (IF CountsFor(m, statuses, exposures[e]) THEN exposures[e].faceDebt ELSE 0)
           /\ PrincipalOf(ExposuresOf(m, statuses))' =
                  PrincipalOf(ExposuresOf(m, statuses))
                     + (IF CountsFor(m, statuses, new) THEN new.principal ELSE 0)
                     - (IF CountsFor(m, statuses, exposures[e]) THEN exposures[e].principal ELSE 0)
<1>1. PICK P, Q : P = ExposuresOf(m, statuses) /\ Q = ExposuresOf(m, statuses)'
    OBVIOUS
<1>2. PICK f, g : /\ f = [i \in ExposureIds |-> exposures[i].faceDebt]
                  /\ g = [i \in ExposureIds |-> exposures'[i].faceDebt]
    OBVIOUS
<1>3. PICK h, k : /\ h = [i \in ExposureIds |-> exposures[i].principal]
                  /\ k = [i \in ExposureIds |-> exposures'[i].principal]
    OBVIOUS
<1>4. /\ P \subseteq ExposureIds /\ Q \subseteq ExposureIds
      /\ \A i \in ExposureIds \ {e} : i \in Q <=> i \in P
      /\ e \in Q <=> CountsFor(m, statuses, new)
      /\ e \in P <=> CountsFor(m, statuses, exposures[e])
    BY <1>1 DEF ExposuresOf, CountsFor
<1>5. ASSUME NEW i \in ExposureIds
      PROVE  /\ f[i] \in Int /\ g[i] \in Int /\ h[i] \in Int /\ k[i] \in Int
             /\ i # e => g[i] = f[i] /\ k[i] = h[i]
    BY <1>2, <1>3 DEF Exposure
<1>6. IsFiniteSet(ExposureIds)
    BY MarginAssumption
<1>7. P \in SUBSET ExposureIds /\ Q \in SUBSET ExposureIds
    BY <1>4
<1>8. /\ \A i \in ExposureIds : f[i] \in Int /\ g[i] \in Int
      /\ \A i \in ExposureIds : h[i] \in Int /\ k[i] \in Int
      /\ \A i \in ExposureIds \ {e} : g[i] = f[i]
      /\ \A i \in ExposureIds \ {e} : k[i] = h[i]
    BY <1>5
<1>9. \A i \in ExposureIds \ {e} : i \in Q <=> i \in P
    BY <1>4
<1>10. SumFunctionOnSet(g, Q) = SumFunctionOnSet(f, P) + (IF e \in Q THEN g[e] ELSE 0)
                                                       - (IF e \in P THEN f[e] ELSE 0)
    BY <1>6, <1>7, <1>8, <1>9, SumGroup
<1>11. SumFunctionOnSet(k, Q) = SumFunctionOnSet(h, P) + (IF e \in Q THEN k[e] ELSE 0)
                                                       - (IF e \in P THEN h[e] ELSE 0)
    BY <1>6, <1>7, <1>8, <1>9, SumGroup
<1>12. /\ g[e] = new.faceDebt /\ f[e] = exposures[e].faceDebt
       /\ k[e] = new.principal /\ h[e] = exposures[e].principal
    BY <1>2, <1>3
<1>13. /\ FaceDebtOf(ExposuresOf(m, statuses)) = SumFunctionOnSet(f, P)
       /\ FaceDebtOf(ExposuresOf(m, statuses))' = SumFunctionOnSet(g, Q)
       /\ PrincipalOf(ExposuresOf(m, statuses)) = SumFunctionOnSet(h, P)
       /\ PrincipalOf(ExposuresOf(m, statuses))' = SumFunctionOnSet(k, Q)
    BY <1>1, <1>2, <1>3 DEF FaceDebtOf, PrincipalOf
<1> QED
    BY <1>4, <1>10, <1>11, <1>12, <1>13

\* Which exposures are an account's, after one of them changed.
LEMMA ExposureMembers ==
    ASSUME exposures \in [ExposureIds -> Exposure], NEW e \in ExposureIds, NEW new \in Exposure,
           exposures' = [exposures EXCEPT ![e] = new], NEW m \in MarginIds, NEW statuses
    PROVE  /\ \A i \in ExposureIds \ {e} :
                  i \in ExposuresOf(m, statuses)' <=> i \in ExposuresOf(m, statuses)
           /\ e \in ExposuresOf(m, statuses)' <=> CountsFor(m, statuses, new)
           /\ e \in ExposuresOf(m, statuses) <=> CountsFor(m, statuses, exposures[e])
           /\ IsFiniteSet(ExposuresOf(m, statuses)) /\ IsFiniteSet(ExposuresOf(m, statuses)')
<1>1. /\ ExposuresOf(m, statuses) \subseteq ExposureIds
      /\ ExposuresOf(m, statuses)' \subseteq ExposureIds
    BY DEF ExposuresOf
<1>2. IsFiniteSet(ExposuresOf(m, statuses)) /\ IsFiniteSet(ExposuresOf(m, statuses)')
    BY <1>1, MarginAssumption, FS_Subset
<1> QED
    BY <1>2 DEF ExposuresOf, CountsFor

\* Sums over an account's exposures are natural numbers, and none of them is more than the sum.
LEMMA ExposureSumTypes ==
    ASSUME exposures \in [ExposureIds -> Exposure], NEW set \in SUBSET ExposureIds
    PROVE  /\ FaceDebtOf(set) \in Nat /\ PrincipalOf(set) \in Nat
           /\ Cardinality(set) \in Nat /\ IsFiniteSet(set)
           /\ \A e \in set : exposures[e].faceDebt <= FaceDebtOf(set)
<1>1. PICK f, g : /\ f = [e \in ExposureIds |-> exposures[e].faceDebt]
                  /\ g = [e \in ExposureIds |-> exposures[e].principal]
    OBVIOUS
<1>2. IsFiniteSet(set) /\ Cardinality(set) \in Nat
    BY MarginAssumption, FS_Subset, FS_CardinalityType
<1>3. \A e \in set : f[e] \in Nat /\ g[e] \in Nat /\ f[e] = exposures[e].faceDebt
    BY <1>1 DEF Exposure
<1>4. /\ SumFunctionOnSet(f, set) \in Nat /\ SumFunctionOnSet(g, set) \in Nat
      /\ \A e \in set : f[e] <= SumFunctionOnSet(f, set)
    BY <1>2, <1>3, SumNat
<1> QED
    BY <1>1, <1>2, <1>3, <1>4 DEF FaceDebtOf, PrincipalOf

-----------------------------------------------------------------------------
(* One account changes: what becomes of the other accounts.                 *)

\* An account nobody touches stays sound.
LEMMA AccountUntouched ==
    ASSUME MInv, NEW n \in MarginIds, accounts'[n] = accounts[n], UNCHANGED exposures,
           nextAccountId' \in Nat, nextAccountId <= nextAccountId',
           \A x \in AuctionIds : accountForAuction[x] = n => accountForAuction'[x] = n,
           UNCHANGED marginLocked[n]
    PROVE  NettingSetSound(n)'
<1>1. NettingSetSound(n) /\ accounts[n] \in MarginAccount /\ nextAccountId \in Nat
    BY DEF MInv, RecordsInv, MarginTypeOK
<1>2. \A set : ExposuresOf(n, set)' = ExposuresOf(n, set)
    BY DEF ExposuresOf
<1>3. \A set : /\ FaceDebtOf(set)' = FaceDebtOf(set) /\ PrincipalOf(set)' = PrincipalOf(set)
    BY DEF FaceDebtOf, PrincipalOf
<1>4. \A t : Overdue(n, t)' <=> Overdue(n, t)
    BY DEF Overdue, ExposuresOf
<1>5. PoolNamed(n)'
    BY <1>1 DEF NettingSetSound, AccountSound, PoolNamed
<1>6. AccountSound(n)'
    BY <1>1, <1>4, <1>5, MarginAssumption DEF NettingSetSound, AccountSound
<1>7. PoolLeft(n)'
    BY <1>1, <1>2 DEF NettingSetSound, PoolLeft, LeftOf, SharesIn
<1>8. AggregatesRight(n)'
    BY <1>1, <1>2, <1>3 DEF NettingSetSound, AggregatesRight
<1>9. FundedByMandate(n)'
    BY <1>1, <1>2, <1>3 DEF NettingSetSound, FundedByMandate, ExposuresOf
<1>10. AccountCustody(n)'
    BY <1>1 DEF NettingSetSound, AccountCustody
<1> QED
    BY <1>6, <1>7, <1>8, <1>9, <1>10 DEF NettingSetSound

\* An account stays sound when an exposure of another one changes.
LEMMA ExposureElsewhere ==
    ASSUME MInv, NEW n \in MarginIds, accounts'[n] = accounts[n],
           UNCHANGED <<nextAccountId, accountForAuction, marginLocked>>,
           NEW e \in ExposureIds, NEW new \in Exposure, exposures' = [exposures EXCEPT ![e] = new],
           exposures[e].accountId # n, new.accountId # n
    PROVE  NettingSetSound(n)'
<1>1. /\ NettingSetSound(n) /\ accounts[n] \in MarginAccount
      /\ exposures \in [ExposureIds -> Exposure]
    BY DEF MInv, RecordsInv, MarginTypeOK
<1>2. ASSUME NEW set
      PROVE  /\ ExposuresOf(n, set)' = ExposuresOf(n, set) /\ e \notin ExposuresOf(n, set)
             /\ FaceDebtOf(ExposuresOf(n, set))' = FaceDebtOf(ExposuresOf(n, set))
             /\ PrincipalOf(ExposuresOf(n, set))' = PrincipalOf(ExposuresOf(n, set))
  <2>1. ExposuresOf(n, set)' = ExposuresOf(n, set) /\ e \notin ExposuresOf(n, set)
    BY <1>1 DEF ExposuresOf
  <2>2. ~CountsFor(n, set, new) /\ ~CountsFor(n, set, exposures[e])
    BY DEF CountsFor
  <2>3. ExposuresOf(n, set) \in SUBSET ExposureIds
    BY DEF ExposuresOf
  <2>4. /\ FaceDebtOf(ExposuresOf(n, set)) \in Nat /\ PrincipalOf(ExposuresOf(n, set)) \in Nat
    BY <1>1, <2>3, ExposureSumTypes
  <2>5. /\ FaceDebtOf(ExposuresOf(n, set))' = FaceDebtOf(ExposuresOf(n, set)) + 0 - 0
        /\ PrincipalOf(ExposuresOf(n, set))' = PrincipalOf(ExposuresOf(n, set)) + 0 - 0
    BY <1>1, <2>2, ExposureSums
  <2> QED
    BY <2>1, <2>4, <2>5
<1>3. \A i \in ExposureIds \ {e} : exposures'[i] = exposures[i]
    BY <1>1
<1>4. ASSUME NEW t, Overdue(n, t) PROVE Overdue(n, t)'
  <2>1. PICK i \in ExposuresOf(n, ExposureStatus) : t > exposures[i].maturity + GracePeriod
    BY <1>4 DEF Overdue
  <2>2. i \in ExposureIds \ {e}
    BY <1>2 DEF ExposuresOf
  <2>3. i \in ExposuresOf(n, ExposureStatus)' /\ exposures'[i] = exposures[i]
    BY <1>2, <1>3, <2>2
  <2> QED
    BY <2>1, <2>3 DEF Overdue
<1>5. PoolNamed(n)'
    BY <1>1 DEF NettingSetSound, AccountSound, PoolNamed
<1>6. AccountSound(n)'
    BY <1>1, <1>4, <1>5 DEF NettingSetSound, AccountSound
<1>7. ASSUME NEW pool \in Nat, NEW remaining, accounts[n].frozenDebt > 0,
             LeftOf(n, pool, remaining)
      PROVE  LeftOf(n, pool, remaining)'
  <2>1. PICK P, f, g : P = ExposuresOf(n, Claimed) /\ f = SharesIn(n, pool)
                       /\ g = SharesIn(n, pool)'
    OBVIOUS
  <2>2. P \subseteq ExposureIds /\ e \notin P /\ IsFiniteSet(P)
    BY <1>2, <2>1, MarginAssumption, FS_Subset DEF ExposuresOf
  <2>3. ASSUME NEW i \in P PROVE f[i] \in Int /\ f[i] = g[i]
    <3>1. i \in ExposureIds \ {e} /\ exposures'[i] = exposures[i]
      BY <1>3, <2>2
    <3>2. f[i] = g[i] /\ f[i] = MulDiv(pool, exposures[i].faceDebt, accounts[n].frozenDebt)
      BY <2>1, <3>1 DEF SharesIn
    <3>3. exposures[i].faceDebt \in Nat /\ accounts[n].frozenDebt \in Nat \ {0}
      BY <1>1, <1>7, <3>1 DEF Exposure, MarginAccount
    <3> QED
      BY <3>2, <3>3, <1>7, MulDivType
  <2>4. SumFunctionOnSet(f, P) = SumFunctionOnSet(g, P)
    BY <2>2, <2>3, SumAgree
  <2> QED
    BY <1>2, <1>7, <2>1, <2>4 DEF LeftOf
<1>8. PoolLeft(n)'
  <2>1. /\ accounts[n].liquidationProceeds \in Nat /\ accounts[n].collateralAmount \in Nat
        /\ accounts[n].status \in ClosedOut => accounts[n].frozenDebt > 0
    BY <1>1 DEF MarginAccount, NettingSetSound, AccountSound
  <2> QED
    BY <1>1, <1>7, <2>1 DEF NettingSetSound, PoolLeft, ClosedOut
<1>9. AggregatesRight(n)'
    BY <1>1, <1>2 DEF NettingSetSound, AggregatesRight
<1>10. FundedByMandate(n)'
  <2>1. \A i \in ExposuresOf(n, ExposureStatus)' :
            i \in ExposuresOf(n, ExposureStatus) /\ exposures'[i] = exposures[i]
    BY <1>2, <1>3 DEF ExposuresOf
  <2> QED
    BY <1>1, <1>2, <2>1 DEF NettingSetSound, FundedByMandate
<1>11. AccountCustody(n)'
    BY <1>1 DEF NettingSetSound, AccountCustody
<1> QED
    BY <1>6, <1>8, <1>9, <1>10, <1>11 DEF NettingSetSound

-----------------------------------------------------------------------------
(* Steps that write one account, or one account and one of its exposures.   *)

\* The records stay sound when one account is replaced by a sound one.
LEMMA AccountReplaced ==
    ASSUME MInv, NEW m \in MarginIds, NEW new \in MarginAccount,
           accounts' = [accounts EXCEPT ![m] = new], UNCHANGED <<exposures, nextExposureId, now>>,
           nextAccountId' \in Nat, nextAccountId <= nextAccountId',
           \A x \in AuctionIds : accountForAuction[x] # 0
                                    => accountForAuction'[x] = accountForAuction[x],
           \A n \in MarginIds \ {m} : marginLocked'[n] = marginLocked[n],
           NettingSetSound(m)', new.status # "NONE",
           accounts[m].status \in {"LIQUIDATED", "AUCTION_FAILED"}
              => new.status = accounts[m].status
    PROVE  RecordsInv' /\ accounts' \in [MarginIds -> MarginAccount]
<1>1. accounts \in [MarginIds -> MarginAccount] /\ exposures \in [ExposureIds -> Exposure]
    BY DEF MInv, MarginTypeOK
<1>2. /\ \A n \in MarginIds \ {m} : accounts'[n] = accounts[n]
      /\ accounts'[m] = new /\ accounts' \in [MarginIds -> MarginAccount]
    BY <1>1
<1>3. ASSUME NEW n \in MarginIds PROVE NettingSetSound(n)'
  <2>1. CASE n = m
    BY <2>1
  <2>2. CASE n # m
    <3>1. \A x \in AuctionIds : accountForAuction[x] = n => accountForAuction'[x] = n
      BY MarginAssumption
    <3>2. accounts'[n] = accounts[n] /\ UNCHANGED exposures /\ UNCHANGED marginLocked[n]
      BY <1>2, <2>2
    <3> QED
      BY <3>1, <3>2, AccountUntouched
  <2> QED
    BY <2>1, <2>2
<1>4. ASSUME NEW e \in ExposureIds PROVE ExposureSound(e)'
  <2>1. ExposureSound(e) /\ exposures'[e] = exposures[e]
    BY DEF MInv, RecordsInv
  <2>2. ASSUME NEW n \in MarginIds
        PROVE  /\ accounts[n].status # "NONE" => accounts'[n].status # "NONE"
               /\ accounts[n].status = "LIQUIDATED" => accounts'[n].status = "LIQUIDATED"
               /\ accounts[n].status = "AUCTION_FAILED" => accounts'[n].status = "AUCTION_FAILED"
    BY <1>2
  <2> QED
    BY <2>1, <2>2 DEF ExposureSound
<1>5. now' > 0
    BY DEF MInv, RecordsInv
<1> QED
    BY <1>2, <1>3, <1>4, <1>5 DEF RecordsInv

\* The records stay sound when an account and one of its exposures are replaced by sound ones.
LEMMA ExposureReplaced ==
    ASSUME MInv, NEW m \in MarginIds, NEW new \in MarginAccount,
           accounts' = [accounts EXCEPT ![m] = new],
           NEW e \in ExposureIds, NEW exposure \in Exposure,
           exposures' = [exposures EXCEPT ![e] = exposure],
           exposure.accountId = m, exposures[e].accountId \in {0, m},
           UNCHANGED <<nextAccountId, accountForAuction, marginLocked, now>>,
           nextExposureId' \in Nat, nextExposureId <= nextExposureId',
           new.status = accounts[m].status, NettingSetSound(m)', ExposureSound(e)'
    PROVE  /\ RecordsInv'
           /\ accounts' \in [MarginIds -> MarginAccount] /\ exposures' \in [ExposureIds -> Exposure]
<1>1. /\ accounts \in [MarginIds -> MarginAccount] /\ exposures \in [ExposureIds -> Exposure]
      /\ nextExposureId \in Nat
    BY DEF MInv, MarginTypeOK
<1>2. /\ \A n \in MarginIds \ {m} : accounts'[n] = accounts[n]
      /\ accounts'[m] = new /\ accounts' \in [MarginIds -> MarginAccount]
      /\ \A i \in ExposureIds \ {e} : exposures'[i] = exposures[i]
      /\ exposures' \in [ExposureIds -> Exposure]
    BY <1>1
<1>3. ASSUME NEW n \in MarginIds PROVE NettingSetSound(n)'
  <2>1. CASE n = m
    BY <2>1
  <2>2. CASE n # m
    <3>1. exposures[e].accountId # n /\ exposure.accountId # n /\ accounts'[n] = accounts[n]
      BY <1>2, <2>2, MarginAssumption
    <3>2. UNCHANGED <<nextAccountId, accountForAuction, marginLocked>>
      OBVIOUS
    <3> QED
      BY <3>1, <3>2, ExposureElsewhere
  <2> QED
    BY <2>1, <2>2
<1>4. ASSUME NEW i \in ExposureIds PROVE ExposureSound(i)'
  <2>1. CASE i = e
    BY <2>1
  <2>2. CASE i # e
    <3>1. ExposureSound(i) /\ exposures'[i] = exposures[i]
      BY <1>2, <2>2 DEF MInv, RecordsInv
    <3>2. \A n \in MarginIds : accounts'[n].status = accounts[n].status
      BY <1>2
    <3>3. i < nextExposureId => i < nextExposureId'
      BY <1>1, MarginAssumption
    <3> QED
      BY <3>1, <3>2, <3>3 DEF ExposureSound
  <2> QED
    BY <2>1, <2>2
<1>5. now' > 0
    BY DEF MInv, RecordsInv
<1> QED
    BY <1>2, <1>3, <1>4, <1>5 DEF RecordsInv

-----------------------------------------------------------------------------
(* The pools of closed-out collateral.                                      *)

\* The two ways a pool is an account's.
LEMMA PoolIsNamed ==
    ASSUME MInv, NEW m \in MarginIds, NEW x \in AuctionIds, LiesIn(m, x)
    PROVE  (accountForAuction[x] = m /\ x < IN_KIND_AUCTION_OFFSET) \/ x = InKindPool(m)
<1>1. PoolNamed(m) /\ PoolsApart
    BY DEF MInv, RecordsInv, NettingSetSound, AccountSound, PoolsInv
<1>2. /\ nextAuctionId \in Nat /\ IN_KIND_AUCTION_OFFSET \in Nat /\ m # 0 /\ x \in Nat
      /\ m \in Nat
    BY MarginAssumption, AuctionIdsAssumption DEF MInv, MarginTypeOK, AuctionTypeOK
<1>3. accountForAuction[x] = m => x < IN_KIND_AUCTION_OFFSET
    BY <1>1, <1>2 DEF PoolsApart
<1> QED
    BY <1>1, <1>3 DEF LiesIn, PoolNamed

\* No two netting sets share a pool.
LEMMA PoolIsOneAccounts ==
    ASSUME MInv, NEW m \in MarginIds, NEW n \in MarginIds, NEW x \in AuctionIds,
           LiesIn(m, x), LiesIn(n, x)
    PROVE  m = n
<1>1. m \in Nat \ {0} /\ n \in Nat \ {0} /\ IN_KIND_AUCTION_OFFSET \in Nat /\ x \in Nat
    BY MarginAssumption, AuctionIdsAssumption
<1> QED
    BY <1>1, PoolIsNamed DEF InKindPool

\* The pool a new auction will have is nobody's yet.
LEMMA NextPoolIsFree ==
    ASSUME MInv, nextAuctionId \in AuctionIds
    PROVE  /\ nextAuctionId < IN_KIND_AUCTION_OFFSET /\ accountForAuction[nextAuctionId] = 0
           /\ \A n \in MarginIds : ~LiesIn(n, nextAuctionId)
<1>1. PoolsApart /\ accountForAuction \in [AuctionIds -> MarginIds \cup {0}]
    BY DEF MInv, PoolsInv, MarginTypeOK
<1>2. /\ nextAuctionId \in Nat /\ IN_KIND_AUCTION_OFFSET \in Nat
      /\ nextAuctionId # IN_KIND_AUCTION_OFFSET /\ MarginIds \subseteq Nat \ {0}
    BY MarginAssumption, AuctionIdsAssumption
<1>3. nextAuctionId < IN_KIND_AUCTION_OFFSET /\ accountForAuction[nextAuctionId] = 0
    BY <1>1, <1>2 DEF PoolsApart
<1>4. \A n \in MarginIds : nextAuctionId # InKindPool(n) /\ accountForAuction[nextAuctionId] # n
    BY <1>2, <1>3 DEF InKindPool
<1> QED
    BY <1>3, <1>4, PoolIsNamed

\* The pool of a closeout in kind is nobody's while the account runs.
LEMMA InKindPoolIsFree ==
    ASSUME MInv, NEW m \in MarginIds, accounts[m].status \in Running
    PROVE  InKindPool(m) \in AuctionIds /\ \A n \in MarginIds : ~LiesIn(n, InKindPool(m))
<1>1. InKindPool(m) \in AuctionIds /\ IN_KIND_AUCTION_OFFSET \in Nat /\ MarginIds \subseteq Nat
    BY MarginAssumption
<1>2. ~LiesIn(m, InKindPool(m))
    BY DEF LiesIn, Running
<1>3. ASSUME NEW n \in MarginIds, LiesIn(n, InKindPool(m)) PROVE FALSE
  <2>1. ~(InKindPool(m) < IN_KIND_AUCTION_OFFSET)
    BY <1>1 DEF InKindPool
  <2>2. InKindPool(m) = InKindPool(n)
    BY <1>1, <1>3, <2>1, PoolIsNamed
  <2>3. m = n
    BY <1>1, <2>2 DEF InKindPool
  <2> QED
    BY <1>2, <1>3, <2>3
<1> QED
    BY <1>1, <1>3

\* Pools stay as their accounts say when an account changes and keeps its own.
LEMMA PoolsUntouched ==
    ASSUME MInv, NEW m \in MarginIds, NEW new \in MarginAccount,
           accounts' = [accounts EXCEPT ![m] = new], UNCHANGED auctionLocked,
           \A x \in AuctionIds : LiesIn(m, x)' <=> LiesIn(m, x),
           new.status \in {"LIQUIDATING", "AUCTION_FAILED"} => PoolOf(new) = PoolOf(accounts[m])
    PROVE  \A x \in AuctionIds : PoolCustody(x)'
<1>1. accounts \in [MarginIds -> MarginAccount] /\ \A x \in AuctionIds : PoolCustody(x)
    BY DEF MInv, MarginTypeOK, PoolsInv
<1>2. accounts'[m] = new /\ \A n \in MarginIds \ {m} : accounts'[n] = accounts[n]
    BY <1>1
<1>3. ASSUME NEW x \in AuctionIds PROVE PoolCustody(x)'
  <2>1. \A n \in MarginIds : LiesIn(n, x)' <=> LiesIn(n, x)
    BY <1>2 DEF LiesIn
  <2>2. \A n \in MarginIds : LiesIn(n, x) => PoolOf(accounts'[n]) = PoolOf(accounts[n])
    BY <1>2, <2>1 DEF LiesIn
  <2>3. PoolCustody(x) /\ auctionLocked'[x] = auctionLocked[x]
    BY <1>1
  <2> QED
    BY <2>1, <2>2, <2>3 DEF PoolCustody, PoolOf
<1> QED
    BY <1>3

\* Pools stay as their accounts say when one account changes and one pool with it.
LEMMA PoolChanged ==
    ASSUME MInv, NEW m \in MarginIds, NEW new \in MarginAccount,
           accounts' = [accounts EXCEPT ![m] = new], NEW y \in AuctionIds,
           \A x \in AuctionIds \ {y} : /\ auctionLocked'[x] = auctionLocked[x]
                                       /\ ~LiesIn(m, x) /\ ~LiesIn(m, x)',
           \A n \in MarginIds \ {m} : ~LiesIn(n, y),
           LiesIn(m, y)' => auctionLocked'[y] = PoolOf(new),
           ~LiesIn(m, y)' => auctionLocked'[y] = EmptyBucket
    PROVE  \A x \in AuctionIds : PoolCustody(x)'
<1>1. accounts \in [MarginIds -> MarginAccount] /\ \A x \in AuctionIds : PoolCustody(x)
    BY DEF MInv, MarginTypeOK, PoolsInv
<1>2. accounts'[m] = new /\ \A n \in MarginIds \ {m} : accounts'[n] = accounts[n]
    BY <1>1
<1>3. \A n \in MarginIds \ {m}, x \in AuctionIds : LiesIn(n, x)' <=> LiesIn(n, x)
    BY <1>2 DEF LiesIn
<1>4. PoolCustody(y)'
    BY <1>2, <1>3 DEF PoolCustody, PoolOf
<1>5. ASSUME NEW x \in AuctionIds \ {y} PROVE PoolCustody(x)'
    BY <1>1, <1>2, <1>3 DEF PoolCustody, PoolOf
<1> QED
    BY <1>4, <1>5

-----------------------------------------------------------------------------
(* Steps of an account that leave its exposures alone.                      *)

\* A record with the same mandate, funding and debt.
SameDebt(new, old) ==
    /\ new.seller = old.seller /\ new.mandate = old.mandate
    /\ new.totalFunded = old.totalFunded /\ new.feeCharged = old.feeCharged
    /\ new.totalFaceDebt = old.totalFaceDebt
    /\ new.activeExposureCount = old.activeExposureCount
    /\ new.remainingProceeds = old.remainingProceeds

\* Only an account without active exposures has no debt.
LEMMA NoDebtNoExposure ==
    ASSUME MInv, NEW m \in MarginIds, FaceDebtOf(ExposuresOf(m, {"ACTIVE"})) = 0
    PROVE  ExposuresOf(m, {"ACTIVE"}) = {}
<1>1. exposures \in [ExposureIds -> Exposure]
    BY DEF MInv, MarginTypeOK
<1>2. ASSUME NEW e \in ExposuresOf(m, {"ACTIVE"}) PROVE FALSE
  <2>1. /\ e \in ExposureIds /\ exposures[e].principal \in Nat /\ exposures[e].faceDebt \in Nat
        /\ exposures[e].principal > 0 /\ exposures[e].faceDebt >= exposures[e].principal
    BY <1>1 DEF ExposuresOf, MInv, RecordsInv, ExposureSound, Exposure
  <2>2. ExposuresOf(m, {"ACTIVE"}) \in SUBSET ExposureIds
    BY DEF ExposuresOf
  <2>3. exposures[e].faceDebt <= FaceDebtOf(ExposuresOf(m, {"ACTIVE"}))
    BY <1>1, <1>2, <2>2, ExposureSumTypes
  <2> QED
    BY <2>1, <2>3
<1> QED
    BY <1>2

\* A running account with the same debt stays sound, and may be closed if that debt is none.
LEMMA RunningAccountKept ==
    ASSUME MInv, NEW m \in MarginIds, accounts[m].status \in Running, NEW new \in MarginAccount,
           accounts' = [accounts EXCEPT ![m] = new], UNCHANGED <<exposures, nextAccountId>>,
           SameDebt(new, accounts[m]), new.status \in Running \cup {"CLOSED"},
           new.status = "CLOSED" => new.totalFaceDebt = 0,
           new.paymentDefaultDeclared
              => new.totalFaceDebt > 0 /\ Overdue(m, new.defaultDeclaredAt),
           new.status = "MARGIN_CALL" => new.marginCallDeadline > new.snapshot.marginCallPeriod,
           AccountCustody(m)'
    PROVE  NettingSetSound(m)'
<1>1. accounts \in [MarginIds -> MarginAccount] /\ NettingSetSound(m) /\ accounts'[m] = new
    BY DEF MInv, MarginTypeOK, RecordsInv
<1>2. \A set : ExposuresOf(m, set)' = ExposuresOf(m, set)
    BY DEF ExposuresOf
<1>3. \A set : /\ FaceDebtOf(set)' = FaceDebtOf(set) /\ PrincipalOf(set)' = PrincipalOf(set)
    BY DEF FaceDebtOf, PrincipalOf
<1>4. \A t : Overdue(m, t)' <=> Overdue(m, t)
    BY DEF Overdue, ExposuresOf
<1>5. accounts[m].status # "NONE" /\ new.status \notin ClosedOut \cup {"NONE"}
    BY DEF Running, ClosedOut
<1>6. PoolNamed(m)' /\ PoolLeft(m)'
    BY <1>1, <1>5 DEF PoolNamed, PoolLeft, ClosedOut
<1>7. AccountSound(m)'
    BY <1>1, <1>4, <1>5, <1>6 DEF NettingSetSound, AccountSound, SameDebt, ClosedOut, Running
<1>8. AggregatesRight(m)'
  <2>1. /\ new.totalFaceDebt = FaceDebtOf(ExposuresOf(m, {"ACTIVE"}))
        /\ new.activeExposureCount = Cardinality(ExposuresOf(m, {"ACTIVE"}))
    BY <1>1 DEF NettingSetSound, AggregatesRight, SameDebt
  <2>2. new.status = "CLOSED" => ExposuresOf(m, {"ACTIVE"}) = {}
    BY <2>1, NoDebtNoExposure
  <2> QED
    BY <1>1, <1>2, <1>3, <1>5, <2>1, <2>2 DEF AggregatesRight
<1>9. FundedByMandate(m)'
    BY <1>1, <1>2, <1>3 DEF NettingSetSound, FundedByMandate, SameDebt, ExposuresOf
<1> QED
    BY <1>6, <1>7, <1>8, <1>9 DEF NettingSetSound

\* Auctions and pool names survive a step that leaves them alone.
LEMMA AuctionsKept ==
    ASSUME MInv, UNCHANGED <<auctionVars, accountForAuction, now>>
    PROVE  PoolsApart' /\ AuctionsSound'
BY DEF MInv, PoolsInv, PoolsApart, AuctionsSound, AuctionSound, auctionVars

\* What a step of a running account that leaves exposures and auctions alone preserves.
LEMMA RunningStep ==
    ASSUME MInv, NEW m \in MarginIds, accounts[m].status \in Running, NEW new \in MarginAccount,
           SetAccount(m, new), UNCHANGED <<exposures, auctionVars, auctionLocked, now>>,
           \A n \in MarginIds \ {m} : marginLocked'[n] = marginLocked[n],
           SameDebt(new, accounts[m]), new.status \in Running \cup {"CLOSED"},
           new.status = "CLOSED" => new.totalFaceDebt = 0,
           new.paymentDefaultDeclared
              => new.totalFaceDebt > 0 /\ Overdue(m, new.defaultDeclaredAt),
           new.status = "MARGIN_CALL" => new.marginCallDeadline > new.snapshot.marginCallPeriod,
           AccountCustody(m)'
    PROVE  RecordsInv' /\ PoolsInv' /\ accounts' \in [MarginIds -> MarginAccount]
<1>1. /\ accounts' = [accounts EXCEPT ![m] = new]
      /\ UNCHANGED <<nextAccountId, nextExposureId, accountForAuction, adminVars>>
    BY DEF SetAccount
<1>2. NettingSetSound(m)'
    BY <1>1, RunningAccountKept
<1>3. nextAccountId' \in Nat /\ nextAccountId <= nextAccountId'
    BY <1>1 DEF MInv, MarginTypeOK
<1>4. new.status # "NONE" /\ accounts[m].status \notin {"LIQUIDATED", "AUCTION_FAILED"}
    BY DEF Running
<1>5. RecordsInv' /\ accounts' \in [MarginIds -> MarginAccount]
    BY <1>1, <1>2, <1>3, <1>4, AccountReplaced
<1>6. accounts'[m] = new
    BY <1>1 DEF MInv, MarginTypeOK
<1>7. /\ \A x \in AuctionIds : LiesIn(m, x)' <=> LiesIn(m, x)
      /\ new.status \notin {"LIQUIDATING", "AUCTION_FAILED"}
    BY <1>6 DEF LiesIn, Running
<1>8. \A x \in AuctionIds : PoolCustody(x)'
    BY <1>1, <1>7, PoolsUntouched
<1>9. PoolsApart' /\ AuctionsSound'
    BY <1>1, AuctionsKept
<1> QED
    BY <1>5, <1>8, <1>9 DEF PoolsInv

-----------------------------------------------------------------------------
(* The seller's steps.                                                      *)

\* What debiting a bucket leaves is what it holds for the rest.
LEMMA DebitedHeld ==
    ASSUME NEW owner, NEW held \in Nat, NEW amount \in Nat, CanDebitBucket(HeldFor(owner, held), amount)
    PROVE  /\ Debited(HeldFor(owner, held), amount) = HeldFor(owner, held - amount)
           /\ amount > 0 /\ amount <= held
BY DEF CanDebitBucket, Debited, HeldFor, FullBucket, EmptyBucket

\* What the invariant says of an account that runs.
LEMMA RunningFacts ==
    ASSUME MInv, NEW m \in MarginIds, accounts[m].status \in Running
    PROVE  /\ accounts[m] \in MarginAccount /\ accounts[m].seller \in Account
           /\ accounts[m].collateralAmount \in Nat /\ accounts[m].totalFaceDebt \in Nat
           /\ marginLocked[m] = HeldFor(accounts[m].seller, accounts[m].collateralAmount)
           /\ accounts[m].paymentDefaultDeclared
                 => accounts[m].totalFaceDebt > 0 /\ Overdue(m, accounts[m].defaultDeclaredAt)
           /\ accounts[m].status = "MARGIN_CALL"
                 => accounts[m].marginCallDeadline > accounts[m].snapshot.marginCallPeriod
<1>1. accounts[m] \in MarginAccount /\ NettingSetSound(m)
    BY DEF MInv, MarginTypeOK, RecordsInv
<1>2. accounts[m].status # "NONE"
    BY DEF Running
<1> QED
    BY <1>1, <1>2 DEF NettingSetSound, AccountSound, AccountCustody, MarginAccount

\* Types survive a step of the vault and the accounts.
LEMMA AccountTypes ==
    ASSUME MarginTypeOK, VaultTypeOK', accounts' \in [MarginIds -> MarginAccount],
           UNCHANGED <<nextAccountId, exposures, nextExposureId, accountForAuction, adminVars,
                       interventions, auctionVars, escrowVars, riskVars, feedVars, now>>
    PROVE  MarginTypeOK'
BY Frames DEF MarginTypeOK, adminVars

\* Collateral added to a running account stays in its bucket.
LEMMA AddMarginCollateralStep ==
    ASSUME MInv, NEW a \in Account, NEW m \in MarginIds, NEW n \in Amounts,
           AddMarginCollateral(a, m, n)
    PROVE  MInv'
<1> DEFINE account == accounts[m]
           new == [account EXCEPT !.collateralAmount = account.collateralAmount + n]
<1>1. /\ account.status \in Running /\ a = account.seller
      /\ AddMargin(a, m, n) /\ SetAccount(m, new)
      /\ UNCHANGED <<exposures, auctionVars, escrowVars, riskVars, feedVars, now>>
    BY DEF AddMarginCollateral
<1>2. /\ account \in MarginAccount /\ account.seller \in Account
      /\ account.collateralAmount \in Nat
      /\ marginLocked[m] = HeldFor(account.seller, account.collateralAmount)
      /\ account.paymentDefaultDeclared
            => account.totalFaceDebt > 0 /\ Overdue(m, account.defaultDeclaredAt)
      /\ account.status = "MARGIN_CALL"
            => account.marginCallDeadline > account.snapshot.marginCallPeriod
    BY <1>1, RunningFacts
<1>3. n \in Nat /\ n > 0
    BY <1>1, VaultAssumption DEF AddMargin, Debit, CanDebitAvailable
<1>4. new \in MarginAccount
    BY <1>2, <1>3 DEF MarginAccount
<1>5. /\ SameDebt(new, account) /\ new.status = account.status /\ new.snapshot = account.snapshot
      /\ new.paymentDefaultDeclared = account.paymentDefaultDeclared
      /\ new.totalFaceDebt = account.totalFaceDebt
      /\ new.defaultDeclaredAt = account.defaultDeclaredAt
      /\ new.marginCallDeadline = account.marginCallDeadline
      /\ new.collateralAmount = account.collateralAmount + n
    BY <1>2 DEF MarginAccount, SameDebt
<1>6. /\ marginLocked' = [marginLocked EXCEPT ![m].amount = @ + n] /\ UNCHANGED auctionLocked
      /\ marginLocked[m].owner # NoAccount /\ marginLocked \in [MarginIds -> Bucket]
    BY <1>1, AccountAssumption DEF AddMargin, Owns, MInv, MarginTypeOK, VaultTypeOK
<1>7. marginLocked[m] = FullBucket(account.seller, account.collateralAmount)
    BY <1>2, <1>6 DEF HeldFor, EmptyBucket
<1>8. marginLocked'[m] = FullBucket(account.seller, account.collateralAmount + n)
    BY <1>2, <1>6, <1>7 DEF FullBucket
<1>9. accounts'[m] = new
    BY <1>1 DEF SetAccount, MInv, MarginTypeOK
<1> HIDE DEF new
<1>10. AccountCustody(m)'
    BY <1>1, <1>2, <1>3, <1>5, <1>8, <1>9 DEF AccountCustody, HeldFor, SameDebt
<1>11. \A k \in MarginIds \ {m} : marginLocked'[k] = marginLocked[k]
    BY <1>6
<1>12. RecordsInv' /\ PoolsInv' /\ accounts' \in [MarginIds -> MarginAccount]
  <2>1. /\ new.status \in Running \cup {"CLOSED"} /\ new.status # "CLOSED"
        /\ new.paymentDefaultDeclared
              => new.totalFaceDebt > 0 /\ Overdue(m, new.defaultDeclaredAt)
        /\ new.status = "MARGIN_CALL" => new.marginCallDeadline > new.snapshot.marginCallPeriod
    BY <1>1, <1>2, <1>5 DEF Running
  <2> QED
    BY <1>1, <1>4, <1>5, <1>6, <1>10, <1>11, <2>1, RunningStep
<1>13. VaultTypeOK'
  <2>1. VaultCall(a, a, n)
    BY <1>1 DEF VaultCall
  <2> QED
    BY <1>3, <2>1, VaultCallType DEF MInv, MarginTypeOK
<1>14. MarginTypeOK'
    BY <1>1, <1>12, <1>13, AccountTypes DEF SetAccount, MInv
<1> QED
    BY <1>12, <1>14 DEF MInv

\* Releasing margin out of the engine keeps the vault's types.
LEMMA ReleaseMarginToType ==
    ASSUME VaultTypeOK, NEW a \in Account, NEW m \in MarginIds, NEW b \in Account, NEW n \in Nat,
           ReleaseMarginTo(a, m, b, n)
    PROVE  VaultTypeOK'
<1>1. /\ CanDebitBucket(marginLocked[m], n)
      /\ marginLocked' = [marginLocked EXCEPT ![m] = Debited(marginLocked[m], n)]
      /\ PayOut(b, n)
      /\ UNCHANGED <<availableBalance, offerReserved, positionLocked, auctionLocked>>
      /\ marginLocked \in [MarginIds -> Bucket]
    BY DEF ReleaseMarginTo, VaultTypeOK
<1>2. Debited(marginLocked[m], n) \in Bucket
    BY <1>1, DebitedType
<1>3. marginLocked' \in [MarginIds -> Bucket]
    BY <1>1, <1>2
<1>4. totalAccounted' \in Nat /\ vaultAssets' \in Nat /\ cva' \in [Account -> Nat]
    BY <1>1, PayOutType DEF VaultTypeOK
<1> QED
    BY <1>1, <1>3, <1>4 DEF VaultTypeOK

\* Excess collateral leaves the bucket it is taken from.
LEMMA WithdrawExcessCollateralStep ==
    ASSUME MInv, NEW a \in Account, NEW m \in MarginIds, NEW n \in Amounts, NEW b \in Recipients,
           WithdrawExcessCollateral(a, m, n, b)
    PROVE  MInv'
<1> DEFINE account == accounts[m]
           new == [account EXCEPT !.collateralAmount = account.collateralAmount - n]
<1>1. /\ account.status = "OPEN" /\ a = account.seller /\ n \in 1..account.collateralAmount
      /\ ReleaseMarginTo(a, m, b, n) /\ SetAccount(m, new)
      /\ UNCHANGED <<exposures, auctionVars, escrowVars, riskVars, feedVars, now>>
    BY DEF WithdrawExcessCollateral
<1>2. /\ account \in MarginAccount /\ account.seller \in Account
      /\ account.collateralAmount \in Nat /\ account.status \in Running
      /\ marginLocked[m] = HeldFor(account.seller, account.collateralAmount)
      /\ account.paymentDefaultDeclared
            => account.totalFaceDebt > 0 /\ Overdue(m, account.defaultDeclaredAt)
    BY <1>1, RunningFacts DEF Running
<1>3. n \in Nat /\ account.collateralAmount - n \in Nat /\ b \in Account
    BY <1>1, <1>2, MarginAssumption
<1>4. new \in MarginAccount
    BY <1>2, <1>3 DEF MarginAccount
<1>5. /\ SameDebt(new, account) /\ new.status = "OPEN"
      /\ new.paymentDefaultDeclared = account.paymentDefaultDeclared
      /\ new.totalFaceDebt = account.totalFaceDebt
      /\ new.defaultDeclaredAt = account.defaultDeclaredAt
      /\ new.collateralAmount = account.collateralAmount - n
    BY <1>1, <1>2 DEF MarginAccount, SameDebt
<1>6. /\ marginLocked' = [marginLocked EXCEPT ![m] = Debited(marginLocked[m], n)]
      /\ CanDebitBucket(marginLocked[m], n)
      /\ UNCHANGED auctionLocked
      /\ marginLocked \in [MarginIds -> Bucket]
    BY <1>1 DEF ReleaseMarginTo, MInv, MarginTypeOK, VaultTypeOK
<1>7. marginLocked'[m] = HeldFor(account.seller, account.collateralAmount - n)
    BY <1>2, <1>3, <1>6, DebitedHeld
<1>8. accounts'[m] = new
    BY <1>1 DEF SetAccount, MInv, MarginTypeOK
<1> HIDE DEF new
<1>9. AccountCustody(m)'
    BY <1>5, <1>7, <1>8 DEF AccountCustody, SameDebt, Running
<1>10. \A k \in MarginIds \ {m} : marginLocked'[k] = marginLocked[k]
    BY <1>6
<1>11. RecordsInv' /\ PoolsInv' /\ accounts' \in [MarginIds -> MarginAccount]
  <2>1. /\ new.status \in Running \cup {"CLOSED"} /\ new.status \notin {"CLOSED", "MARGIN_CALL"}
        /\ new.paymentDefaultDeclared
              => new.totalFaceDebt > 0 /\ Overdue(m, new.defaultDeclaredAt)
    BY <1>2, <1>5 DEF Running
  <2> QED
    BY <1>1, <1>2, <1>4, <1>5, <1>6, <1>9, <1>10, <2>1, RunningStep
<1>12. VaultTypeOK'
    BY <1>1, <1>3, ReleaseMarginToType DEF MInv, MarginTypeOK
<1>13. MarginTypeOK'
    BY <1>1, <1>11, <1>12, AccountTypes DEF SetAccount, MInv
<1> QED
    BY <1>11, <1>13 DEF MInv

\* Closing an account gives its collateral back whole.
LEMMA CloseMarginAccountStep ==
    ASSUME MInv, NEW a \in Account, NEW m \in MarginIds, CloseMarginAccount(a, m)
    PROVE  MInv'
<1> DEFINE account == accounts[m]
           new == [account EXCEPT !.status = "CLOSED", !.collateralAmount = 0]
<1>1. /\ account.status = "OPEN" /\ a = account.seller /\ account.totalFaceDebt = 0
      /\ SetAccount(m, new)
      /\ IF account.collateralAmount > 0
         THEN ReleaseMargin(a, m, account.collateralAmount)
         ELSE UNCHANGED vaultVars
      /\ UNCHANGED <<exposures, auctionVars, escrowVars, riskVars, feedVars, now>>
    BY DEF CloseMarginAccount, CanCloseMarginAccount
<1>2. /\ account \in MarginAccount /\ account.seller \in Account
      /\ account.collateralAmount \in Nat /\ account.status \in Running
      /\ marginLocked[m] = HeldFor(account.seller, account.collateralAmount)
      /\ account.paymentDefaultDeclared => account.totalFaceDebt > 0
    BY <1>1, RunningFacts DEF Running
<1>3. new \in MarginAccount
    BY <1>2 DEF MarginAccount, AccountStatus
<1>4. /\ SameDebt(new, account) /\ new.status = "CLOSED" /\ new.totalFaceDebt = 0
      /\ ~new.paymentDefaultDeclared
    BY <1>1, <1>2 DEF MarginAccount, SameDebt
<1>5. marginLocked \in [MarginIds -> Bucket] /\ VaultTypeOK
    BY DEF MInv, MarginTypeOK, VaultTypeOK
<1>6. /\ marginLocked'[m] = EmptyBucket /\ UNCHANGED auctionLocked
      /\ \A k \in MarginIds \ {m} : marginLocked'[k] = marginLocked[k]
      /\ VaultTypeOK'
  <2>1. CASE account.collateralAmount > 0
    <3>1. ReleaseMargin(a, m, account.collateralAmount)
      BY <1>1, <2>1
    <3>2. /\ marginLocked' = [marginLocked EXCEPT
                                ![m] = Debited(marginLocked[m], account.collateralAmount)]
          /\ CanDebitBucket(marginLocked[m], account.collateralAmount)
          /\ UNCHANGED auctionLocked
      BY <3>1 DEF ReleaseMargin
    <3>3. Debited(marginLocked[m], account.collateralAmount) = HeldFor(account.seller, 0)
      BY <1>2, <3>2, DebitedHeld
    <3>4. VaultCall(a, a, account.collateralAmount)
      BY <3>1 DEF VaultCall
    <3>5. VaultTypeOK'
      BY <1>2, <1>5, <3>4, VaultCallType
    <3> QED
      BY <1>5, <3>2, <3>3, <3>5 DEF HeldFor
  <2>2. CASE ~(account.collateralAmount > 0)
    <3>1. UNCHANGED vaultVars /\ account.collateralAmount = 0
      BY <1>1, <1>2, <2>2
    <3>2. UNCHANGED <<marginLocked, auctionLocked>> /\ VaultTypeOK'
      BY <1>5, <3>1, Frames DEF vaultVars, bucketVars
    <3> QED
      BY <1>2, <3>1, <3>2 DEF HeldFor
  <2> QED
    BY <2>1, <2>2
<1>7. accounts'[m] = new
    BY <1>1 DEF SetAccount, MInv, MarginTypeOK
<1> HIDE DEF new
<1>8. AccountCustody(m)'
    BY <1>4, <1>6, <1>7 DEF AccountCustody, Running
<1>9. RecordsInv' /\ PoolsInv' /\ accounts' \in [MarginIds -> MarginAccount]
    BY <1>1, <1>2, <1>3, <1>4, <1>6, <1>8, RunningStep
<1>10. MarginTypeOK'
    BY <1>1, <1>6, <1>9, AccountTypes DEF SetAccount, MInv
<1> QED
    BY <1>9, <1>10 DEF MInv

-----------------------------------------------------------------------------
(* Steps that mark a running account and move nothing.                      *)

\* A mark on a running account preserves the invariant if its reason holds.
LEMMA MarkStep ==
    ASSUME MInv, NEW m \in MarginIds, accounts[m].status \in Running, NEW new \in MarginAccount,
           SetAccount(m, new),
           UNCHANGED <<exposures, vaultVars, auctionVars, escrowVars, riskVars, feedVars, now>>,
           SameDebt(new, accounts[m]), new.collateralAmount = accounts[m].collateralAmount,
           new.status \in Running,
           new.paymentDefaultDeclared
              => new.totalFaceDebt > 0 /\ Overdue(m, new.defaultDeclaredAt),
           new.status = "MARGIN_CALL" => new.marginCallDeadline > new.snapshot.marginCallPeriod
    PROVE  MInv'
<1>1. accounts'[m] = new /\ VaultTypeOK
    BY DEF SetAccount, MInv, MarginTypeOK
<1>2. UNCHANGED <<marginLocked, auctionLocked>> /\ VaultTypeOK'
    BY <1>1, Frames DEF vaultVars, bucketVars
<1>3. marginLocked[m] = HeldFor(accounts[m].seller, accounts[m].collateralAmount)
    BY RunningFacts
<1>4. AccountCustody(m)'
    BY <1>1, <1>2, <1>3 DEF AccountCustody, SameDebt
<1>5. \A k \in MarginIds \ {m} : marginLocked'[k] = marginLocked[k]
    BY <1>2
<1>6. new.status \in Running \cup {"CLOSED"} /\ new.status # "CLOSED"
    BY DEF Running
<1>7. UNCHANGED <<exposures, auctionVars, auctionLocked, now>>
    BY <1>2
<1>8. RecordsInv' /\ PoolsInv' /\ accounts' \in [MarginIds -> MarginAccount]
    BY <1>4, <1>5, <1>6, <1>7, RunningStep
<1>9. MarginTypeOK'
    BY <1>2, <1>8, AccountTypes DEF SetAccount, MInv
<1> QED
    BY <1>8, <1>9 DEF MInv

\* Closing the funding preserves the invariant.
LEMMA CloseFundingStep ==
    ASSUME MInv, NEW a \in Account, NEW m \in MarginIds, CloseFunding(a, m)
    PROVE  MInv'
<1> DEFINE account == accounts[m]
           new == [account EXCEPT !.fundingClosed = TRUE]
<1>1. /\ account.status \in Running /\ SetAccount(m, new)
      /\ UNCHANGED <<exposures, vaultVars, auctionVars, escrowVars, riskVars, feedVars, now>>
    BY DEF CloseFunding
<1>2. /\ account \in MarginAccount
      /\ account.paymentDefaultDeclared
            => account.totalFaceDebt > 0 /\ Overdue(m, account.defaultDeclaredAt)
      /\ account.status = "MARGIN_CALL"
            => account.marginCallDeadline > account.snapshot.marginCallPeriod
    BY <1>1, RunningFacts
<1>3. /\ new \in MarginAccount /\ SameDebt(new, account) /\ new.status = account.status
      /\ new.collateralAmount = account.collateralAmount
      /\ new.totalFaceDebt = account.totalFaceDebt /\ new.snapshot = account.snapshot
      /\ new.paymentDefaultDeclared = account.paymentDefaultDeclared
      /\ new.defaultDeclaredAt = account.defaultDeclaredAt
      /\ new.marginCallDeadline = account.marginCallDeadline
    BY <1>2 DEF MarginAccount, SameDebt
<1> HIDE DEF new
<1> QED
    BY <1>1, <1>2, <1>3, MarkStep

\* A declared default remembers the exposure that was overdue.
LEMMA DeclarePaymentDefaultStep ==
    ASSUME MInv, NEW e \in ExposureIds, DeclarePaymentDefault(e)
    PROVE  MInv'
<1>1. PICK m \in MarginIds :
        /\ exposures[e].accountId = m /\ exposures[e].status = "ACTIVE"
        /\ now > exposures[e].maturity + GracePeriod
        /\ accounts[m].status \in Running /\ accounts[m].totalFaceDebt # 0
        /\ SetAccount(m, [accounts[m] EXCEPT !.paymentDefaultDeclared = TRUE,
                                             !.defaultDeclaredAt = now])
        /\ UNCHANGED <<exposures, vaultVars, auctionVars, escrowVars, riskVars, feedVars, now>>
    BY DEF DeclarePaymentDefault, CanDeclarePaymentDefault
<1> DEFINE account == accounts[m]
           new == [account EXCEPT !.paymentDefaultDeclared = TRUE, !.defaultDeclaredAt = now]
<1>2. /\ account \in MarginAccount /\ account.totalFaceDebt \in Nat /\ now \in Nat
      /\ account.status = "MARGIN_CALL"
            => account.marginCallDeadline > account.snapshot.marginCallPeriod
    BY <1>1, RunningFacts DEF MInv, MarginTypeOK
<1>3. /\ new \in MarginAccount /\ SameDebt(new, account) /\ new.status = account.status
      /\ new.collateralAmount = account.collateralAmount
      /\ new.totalFaceDebt = account.totalFaceDebt /\ new.snapshot = account.snapshot
      /\ new.defaultDeclaredAt = now
      /\ new.marginCallDeadline = account.marginCallDeadline
    BY <1>2 DEF MarginAccount, SameDebt
<1>4. Overdue(m, now)
    BY <1>1 DEF Overdue, ExposuresOf, ExposureStatus
<1>5. SetAccount(m, new)
    BY <1>1
<1> HIDE DEF new
<1>6. new.totalFaceDebt > 0 /\ Overdue(m, new.defaultDeclaredAt)
    BY <1>1, <1>2, <1>3, <1>4
<1>7. new.status = "MARGIN_CALL" => new.marginCallDeadline > new.snapshot.marginCallPeriod
    BY <1>2, <1>3
<1> QED
    BY <1>1, <1>3, <1>5, <1>6, <1>7, MarkStep

\* A margin call runs for its whole period.
LEMMA OpenMarginCallStep ==
    ASSUME MInv, NEW m \in MarginIds, OpenMarginCall(m)
    PROVE  MInv'
<1> DEFINE account == accounts[m]
           deadline == now + account.snapshot.marginCallPeriod
           new == [account EXCEPT !.status = "MARGIN_CALL", !.marginCallDeadline = deadline]
<1>1. /\ account.status = "OPEN" /\ SetAccount(m, new)
      /\ UNCHANGED <<exposures, vaultVars, auctionVars, escrowVars, riskVars, feedVars, now>>
    BY DEF OpenMarginCall
<1>2. /\ account \in MarginAccount /\ now \in Nat /\ now > 0 /\ account.status \in Running
      /\ account.paymentDefaultDeclared
            => account.totalFaceDebt > 0 /\ Overdue(m, account.defaultDeclaredAt)
    BY <1>1, RunningFacts DEF MInv, MarginTypeOK, RecordsInv, Running
<1>3. deadline \in Nat /\ deadline > account.snapshot.marginCallPeriod
  <2>1. account.snapshot \in Snapshot
    BY <1>2 DEF MarginAccount
  <2>2. account.snapshot.marginCallPeriod \in Nat
    BY <2>1 DEF Snapshot
  <2> QED
    BY <1>2, <2>2
<1> HIDE DEF deadline
<1>4. /\ new \in MarginAccount /\ SameDebt(new, account) /\ new.status = "MARGIN_CALL"
      /\ new.collateralAmount = account.collateralAmount
      /\ new.totalFaceDebt = account.totalFaceDebt /\ new.snapshot = account.snapshot
      /\ new.paymentDefaultDeclared = account.paymentDefaultDeclared
      /\ new.defaultDeclaredAt = account.defaultDeclaredAt
      /\ new.marginCallDeadline = deadline
    BY <1>2, <1>3 DEF MarginAccount, SameDebt, AccountStatus
<1> HIDE DEF new
<1>5. new.status \in Running
    BY <1>4 DEF Running
<1> QED
    BY <1>1, <1>2, <1>3, <1>4, <1>5, MarkStep

\* A cured call preserves the invariant.
LEMMA CureMarginCallStep ==
    ASSUME MInv, NEW m \in MarginIds, CureMarginCall(m)
    PROVE  MInv'
<1> DEFINE account == accounts[m]
           new == [account EXCEPT !.status = "OPEN", !.marginCallDeadline = 0]
<1>1. /\ account.status = "MARGIN_CALL" /\ ~account.paymentDefaultDeclared /\ SetAccount(m, new)
      /\ UNCHANGED <<exposures, vaultVars, auctionVars, escrowVars, riskVars, feedVars, now>>
    BY DEF CureMarginCall, CanCureMarginCall
<1>2. account \in MarginAccount /\ account.status \in Running
    BY <1>1, RunningFacts DEF Running
<1>3. /\ new \in MarginAccount /\ SameDebt(new, account) /\ new.status = "OPEN"
      /\ new.collateralAmount = account.collateralAmount
      /\ ~new.paymentDefaultDeclared
    BY <1>1, <1>2 DEF MarginAccount, SameDebt, AccountStatus
<1> HIDE DEF new
<1>4. new.status \in Running
    BY <1>3 DEF Running
<1> QED
    BY <1>1, <1>2, <1>3, <1>4, MarkStep

-----------------------------------------------------------------------------
(* Opening an account.                                                      *)

\* A snapshot of a risk configuration has a snapshot's types.
LEMMA SnapshotType ==
    ASSUME NEW c \in RiskConfig
    PROVE  SnapshotOf(c) \in Snapshot
BY DEF RiskConfig, SnapshotOf, Snapshot

\* An account that was never opened has an account's types.
LEMMA NoAccountType == NoMarginAccount \in MarginAccount
<1>1. SnapshotOf(InitialRisk) \in Snapshot
    BY SnapshotType, RiskAssumption
<1>2. NoMandate \in Mandate
    BY DEF NoMandate, Mandate
<1> QED
    BY <1>1, <1>2 DEF NoMarginAccount, MarginAccount, AccountStatus

\* An account that was never opened has no exposures, and they add up to nothing.
LEMMA UnopenedHasNoExposure ==
    ASSUME MInv, NEW m \in MarginIds, accounts[m].status = "NONE", NEW statuses
    PROVE  /\ ExposuresOf(m, statuses) = {}
           /\ FaceDebtOf({}) = 0 /\ PrincipalOf({}) = 0 /\ Cardinality({}) = 0
<1>1. ExposuresOf(m, statuses) = {}
    BY DEF MInv, RecordsInv, ExposureSound, ExposuresOf
<1>2. FaceDebtOf({}) = 0 /\ PrincipalOf({}) = 0
    BY SumEmpty DEF FaceDebtOf, PrincipalOf
<1> QED
    BY <1>1, <1>2, FS_EmptySet

\* A new account reserves its collateral under an id nobody has used.
LEMMA OpenMarginAccountStep ==
    ASSUME MInv, NEW a \in Account, NEW q \in AccountParams, OpenMarginAccount(a, q)
    PROVE  MInv'
<1>0. PICK m \in MarginIds : m = nextAccountId
    BY DEF OpenMarginAccount, CanOpenMarginAccount
<1> DEFINE terms == [fundingTarget |-> q.fundingTarget, minimumFunding |-> q.minimumFunding,
                     maxAnnualRateBps |-> q.maxAnnualRateBps, duration |-> q.duration,
                     fundingExpiry |-> now + q.window, permittedLender |-> q.permittedLender]
           new == [NoMarginAccount EXCEPT
                      !.status = "OPEN", !.seller = a, !.collateralAmount = q.collateralAmount,
                      !.mandate = terms, !.snapshot = SnapshotOf(risk)]
<1>1. /\ q.collateralAmount > 0 /\ 0 < q.window
      /\ accounts' = [accounts EXCEPT ![m] = new]
      /\ nextAccountId' = nextAccountId + 1
      /\ ReserveMargin(a, m, q.collateralAmount)
      /\ UNCHANGED <<exposures, nextExposureId, accountForAuction, adminVars, interventions>>
      /\ UNCHANGED <<auctionVars, escrowVars, riskVars, feedVars, now>>
    BY <1>0 DEF OpenMarginAccount, CanOpenMarginAccount, ValidAccountParams
<1>2. /\ accounts \in [MarginIds -> MarginAccount] /\ nextAccountId \in Nat /\ now \in Nat
      /\ risk \in RiskConfig /\ marginLocked \in [MarginIds -> Bucket] /\ VaultTypeOK
      /\ NettingSetSound(m)
    BY <1>1 DEF MInv, MarginTypeOK, RiskTypeOK, VaultTypeOK, RecordsInv
<1>3. accounts[m].status = "NONE" /\ accounts[m] = NoMarginAccount
    BY <1>0, <1>2 DEF NettingSetSound, AccountSound
<1>4. /\ q.collateralAmount \in Nat /\ q.fundingTarget \in Nat /\ q.minimumFunding \in Nat
      /\ q.maxAnnualRateBps \in Nat /\ q.duration \in Nat /\ q.window \in Int
      /\ q.permittedLender \in Account \cup {NoAccount}
    BY MarginAssumption
<1>5. terms \in Mandate /\ terms.fundingTarget \in Nat
    BY <1>1, <1>2, <1>4 DEF Mandate
<1>6. SnapshotOf(risk) \in Snapshot
    BY <1>2, SnapshotType
<1> HIDE DEF terms
<1>7. new \in MarginAccount
    BY <1>4, <1>5, <1>6, NoAccountType DEF MarginAccount, AccountStatus
<1>8. /\ new.status = "OPEN" /\ new.seller = a /\ new.collateralAmount = q.collateralAmount
      /\ new.mandate = terms /\ new.totalFunded = 0 /\ new.feeCharged = 0
      /\ new.totalFaceDebt = 0 /\ new.activeExposureCount = 0 /\ ~new.paymentDefaultDeclared
      /\ new.remainingProceeds = 0
    BY DEF NoMarginAccount
<1>9. /\ marginLocked' = [marginLocked EXCEPT ![m] = FullBucket(a, q.collateralAmount)]
      /\ UNCHANGED auctionLocked
    BY <1>1 DEF ReserveMargin
<1>10. accounts'[m] = new
    BY <1>1, <1>2
<1> HIDE DEF new
<1>11. \A set : /\ ExposuresOf(m, set)' = {} /\ FaceDebtOf({})' = 0 /\ PrincipalOf({})' = 0
                /\ Cardinality({}) = 0
  <2>1. \A set : ExposuresOf(m, set) = {}
    BY <1>1, <1>3, UnopenedHasNoExposure
  <2>2. FaceDebtOf({}) = 0 /\ PrincipalOf({}) = 0 /\ Cardinality({}) = 0
    BY <1>1, <1>3, UnopenedHasNoExposure
  <2>3. UNCHANGED exposures
    BY <1>1
  <2> QED
    BY <2>1, <2>2, <2>3 DEF ExposuresOf, FaceDebtOf, PrincipalOf
<1>12. NettingSetSound(m)'
  <2>1. PoolNamed(m)' /\ PoolLeft(m)'
    BY <1>8, <1>10 DEF PoolNamed, PoolLeft
  <2>2. AccountSound(m)'
    BY <1>0, <1>1, <1>2, <1>8, <1>10, <2>1 DEF AccountSound, ClosedOut
  <2>3. AggregatesRight(m)'
    BY <1>8, <1>10, <1>11 DEF AggregatesRight, ClosedOut
  <2>4. FundedByMandate(m)'
    <3>1. CumulativeFee(0, ProtocolFeeBps) = 0
      BY MarginAssumption, NothingCharged
    <3> QED
      BY <1>5, <1>8, <1>10, <1>11, <3>1 DEF FundedByMandate
  <2>5. AccountCustody(m)'
    BY <1>1, <1>2, <1>4, <1>8, <1>9, <1>10 DEF AccountCustody, HeldFor, Running
  <2> QED
    BY <2>1, <2>2, <2>3, <2>4, <2>5 DEF NettingSetSound
<1>13. RecordsInv' /\ accounts' \in [MarginIds -> MarginAccount]
  <2>1. /\ nextAccountId' \in Nat /\ nextAccountId <= nextAccountId'
        /\ new.status # "NONE" /\ accounts[m].status \notin {"LIQUIDATED", "AUCTION_FAILED"}
    BY <1>1, <1>2, <1>3, <1>8
  <2>2. \A n \in MarginIds \ {m} : marginLocked'[n] = marginLocked[n]
    BY <1>2, <1>9
  <2> QED
    BY <1>1, <1>7, <1>12, <2>1, <2>2, AccountReplaced
<1>14. PoolsInv'
  <2>1. /\ \A x \in AuctionIds : LiesIn(m, x)' <=> LiesIn(m, x)
        /\ new.status \notin {"LIQUIDATING", "AUCTION_FAILED"}
    BY <1>3, <1>8, <1>10 DEF LiesIn
  <2>2. \A x \in AuctionIds : PoolCustody(x)'
    BY <1>1, <1>7, <1>9, <2>1, PoolsUntouched
  <2>3. PoolsApart' /\ AuctionsSound'
    BY <1>1, AuctionsKept
  <2> QED
    BY <2>2, <2>3 DEF PoolsInv
<1>15. VaultTypeOK'
  <2>1. VaultCall(a, a, q.collateralAmount)
    BY <1>1 DEF VaultCall
  <2> QED
    BY <1>2, <1>4, <2>1, VaultCallType
<1>16. nextAccountId' \in Nat \ {0}
    BY <1>1, <1>2
<1>17. MarginTypeOK'
    BY <1>1, <1>13, <1>15, <1>16, Frames DEF MInv, MarginTypeOK, adminVars
<1> QED
    BY <1>13, <1>14, <1>17 DEF MInv

-----------------------------------------------------------------------------
(* Steps that leave the engine's records alone.                             *)

\* The records' invariant depends on records, buckets and auctions only, and on time passing.
LEMMA RecordsFrame ==
    ASSUME MInv, UNCHANGED <<recordVars, marginLocked, auctionLocked, auctionVars>>,
           now' \in Nat, now <= now'
    PROVE  RecordsInv' /\ PoolsInv'
<1> USE DEF recordVars
<1>1. now \in Nat /\ auctions \in [AuctionIds -> Auction] /\ nextAccountId \in Nat
    BY DEF MInv, MarginTypeOK, AuctionTypeOK
<1>2. ASSUME NEW n \in MarginIds PROVE NettingSetSound(n)'
  <2>1. /\ accounts'[n] = accounts[n] /\ UNCHANGED <<exposures, accountForAuction, nextAccountId>>
        /\ UNCHANGED marginLocked[n]
    OBVIOUS
  <2> QED
    BY <1>1, <2>1, AccountUntouched
<1>3. ASSUME NEW e \in ExposureIds PROVE ExposureSound(e)'
    BY DEF MInv, RecordsInv, ExposureSound
<1>4. ASSUME NEW x \in AuctionIds PROVE (PoolCustody(x) /\ AuctionSound(auctions[x]))'
  <2>1. AuctionSound(auctions[x]) /\ PoolCustody(x) /\ auctions[x] \in Auction
    BY <1>1 DEF MInv, PoolsInv, AuctionsSound
  <2>2. UNCHANGED auctions
    BY DEF auctionVars
  <2> QED
    BY <1>1, <2>1, <2>2 DEF AuctionSound, Auction, PoolCustody, LiesIn, PoolOf
<1>5. PoolsApart'
    BY DEF MInv, PoolsInv, PoolsApart, auctionVars
<1>6. now' > 0
    BY <1>1 DEF MInv, RecordsInv
<1> QED
    BY <1>2, <1>3, <1>4, <1>5, <1>6 DEF RecordsInv, PoolsInv, AuctionsSound

\* A deposit preserves the invariant.
LEMMA DepositCollateralStep ==
    ASSUME MInv, NEW a \in Account, NEW n \in Amounts, DepositCollateral(a, n)
    PROVE  MInv'
<1>1. VaultCall(a, a, n) /\ n \in Nat
    BY VaultAssumption DEF DepositCollateral, CanDepositCollateral, VaultCall
<1>2. VaultTypeOK'
    BY <1>1, VaultCallType DEF MInv, MarginTypeOK
<1>3. MarginTypeOK'
    BY <1>2, Frames DEF MInv, MarginTypeOK, DepositCollateral, CanDepositCollateral, engineVars,
                        recordVars, adminVars
<1>4. RecordsInv' /\ PoolsInv'
    BY RecordsFrame DEF DepositCollateral, CanDepositCollateral, DepositFor, CanDeposit,
                        engineVars, MInv, MarginTypeOK
<1> QED
    BY <1>3, <1>4 DEF MInv

\* A withdrawal preserves the invariant.
LEMMA WithdrawAvailableStep ==
    ASSUME MInv, NEW a \in Account, NEW b \in Recipients, NEW n \in Amounts,
           WithdrawAvailable(a, n, b)
    PROVE  MInv'
<1>1. VaultCall(a, b, n) /\ n \in Nat /\ b \in Account
    BY VaultAssumption, MarginAssumption DEF WithdrawAvailable, CanWithdrawAvailable, VaultCall
<1>2. VaultTypeOK'
    BY <1>1, VaultCallType DEF MInv, MarginTypeOK
<1>3. MarginTypeOK'
    BY <1>2, Frames DEF MInv, MarginTypeOK, WithdrawAvailable, CanWithdrawAvailable, engineVars,
                        recordVars, adminVars
<1>4. RecordsInv' /\ PoolsInv'
    BY RecordsFrame DEF WithdrawAvailable, CanWithdrawAvailable, WithdrawTo, engineVars, MInv,
                        MarginTypeOK
<1> QED
    BY <1>3, <1>4 DEF MInv

\* The clock preserves the invariant.
LEMMA TickStep ==
    ASSUME MInv, Tick
    PROVE  MInv'
<1>1. now' \in Nat /\ now <= now'
    BY DEF MInv, MarginTypeOK, Tick
<1>2. MarginTypeOK'
    BY <1>1, Frames DEF MInv, MarginTypeOK, Tick, engineVars, recordVars, adminVars
<1>3. RecordsInv' /\ PoolsInv'
    BY <1>1, RecordsFrame DEF Tick, engineVars, vaultVars, bucketVars
<1> QED
    BY <1>2, <1>3 DEF MInv

\* A claim against the escrow preserves the invariant.
LEMMA EscrowClaimStep ==
    ASSUME MInv, NEW a \in Account, NEW b \in Recipients, NEW n \in ClaimAmounts, NEW c,
           EscrowClaim(a, c, n, b)
    PROVE  MInv'
<1>1. n \in Nat /\ b \in Account
    BY MarginAssumption
<1>2. EscrowTypeOK'
    BY <1>1, EscrowClaimType DEF MInv, MarginTypeOK, EscrowClaim
<1>3. MarginTypeOK'
    BY <1>2, Frames DEF MInv, MarginTypeOK, EscrowClaim, engineVars, recordVars, adminVars
<1>4. RecordsInv' /\ PoolsInv'
    BY RecordsFrame DEF EscrowClaim, engineVars, vaultVars, bucketVars, MInv, MarginTypeOK
<1> QED
    BY <1>3, <1>4 DEF MInv

\* The signers, the compliance pool and governance touch no record.
LEMMA OutsideStep ==
    ASSUME MInv,
           \/ \E price \in Prices, observedAt \in 1..now, v \in Validity, t \in SettlementTokens :
                 SubmitValuation(price, observedAt, v, t)
           \/ InvalidateValuation
           \/ ChangeCompliance
           \/ GovernRisk
           \/ Administer
    PROVE  MInv'
<1>1. MarginTypeOK /\ now \in Nat /\ interventions \in Nat
    BY DEF MInv, MarginTypeOK
<1>2. CASE \E price \in Prices, observedAt \in 1..now, v \in Validity, t \in SettlementTokens :
              SubmitValuation(price, observedAt, v, t)
  <2>1. PICK price \in Prices, observedAt \in 1..now, v \in Validity, t \in SettlementTokens :
            SubmitValuation(price, observedAt, v, t)
    BY <1>2
  <2>2. price \in Nat /\ observedAt \in Nat /\ v \in Nat
    BY <1>1, FeedAssumption
  <2>3. invalidated' \in BOOLEAN
    BY <2>1, Zenon DEF SubmitValuation, Publish
  <2>4. valuation' \in Valuation
    BY <2>1, <2>2 DEF SubmitValuation, Publish, Valuation
  <2>5. MarginTypeOK'
    BY <1>1, <2>1, <2>3, <2>4, Frames
       DEF MarginTypeOK, FeedTypeOK, SubmitValuation, engineVars, recordVars, adminVars
  <2>6. RecordsInv' /\ PoolsInv'
    BY <1>1, <2>1, RecordsFrame DEF SubmitValuation, engineVars, vaultVars, bucketVars
  <2> QED
    BY <2>5, <2>6 DEF MInv
<1>3. CASE InvalidateValuation
  <2>1. FeedTypeOK' /\ interventions' \in Nat
    BY <1>1, <1>3 DEF InvalidateValuation, Invalidate, Intervene, FeedTypeOK, MarginTypeOK
  <2>2. MarginTypeOK'
    BY <1>1, <1>3, <2>1, Frames DEF MarginTypeOK, InvalidateValuation, recordVars, adminVars
  <2>3. RecordsInv' /\ PoolsInv'
    BY <1>1, <1>3, RecordsFrame DEF InvalidateValuation, vaultVars, bucketVars
  <2> QED
    BY <2>2, <2>3 DEF MInv
<1>4. CASE ChangeCompliance
  <2>1. EscrowTypeOK' /\ interventions' \in Nat
    BY <1>1, <1>4, MarginAssumption
       DEF ChangeCompliance, SetCompliance, Intervene, EscrowTypeOK, MarginTypeOK
  <2>2. MarginTypeOK'
    BY <1>1, <1>4, <2>1, Frames DEF MarginTypeOK, ChangeCompliance, recordVars, adminVars
  <2>3. RecordsInv' /\ PoolsInv'
    BY <1>1, <1>4, RecordsFrame DEF ChangeCompliance, vaultVars, bucketVars
  <2> QED
    BY <2>2, <2>3 DEF MInv
<1>5. CASE GovernRisk
  <2>1. RiskTypeOK' /\ interventions' \in Nat
    BY <1>1, <1>5, RiskAssumption
       DEF GovernRisk, ScheduleConfig, ApplyConfig, CancelConfig, Intervene, RiskTypeOK,
           MarginTypeOK
  <2>2. MarginTypeOK'
    BY <1>1, <1>5, <2>1, Frames DEF MarginTypeOK, GovernRisk, recordVars, adminVars
  <2>3. RecordsInv' /\ PoolsInv'
    BY <1>1, <1>5, RecordsFrame DEF GovernRisk, vaultVars, bucketVars
  <2> QED
    BY <2>2, <2>3 DEF MInv
<1>6. CASE Administer
  <2>1. /\ admission' \in [custodyReady: BOOLEAN, enabled: BOOLEAN, entryPaused: BOOLEAN]
        /\ pauseGuardian' \in Account
    <3>1. /\ admission \in [custodyReady: BOOLEAN, enabled: BOOLEAN, entryPaused: BOOLEAN]
          /\ pauseGuardian \in Account
      BY <1>1 DEF MarginTypeOK
    <3>2. CASE \E flag \in BOOLEAN : SetCleanverseCustodyReady(flag)
      BY <3>1, <3>2 DEF SetCleanverseCustodyReady
    <3>3. CASE \E flag \in BOOLEAN : SetAssetEnabled(flag)
      BY <3>1, <3>3 DEF SetAssetEnabled
    <3>4. CASE \E flag \in BOOLEAN : SetEntryPaused(flag)
      BY <3>1, <3>4 DEF SetEntryPaused
    <3>5. CASE \E a \in Account : GuardianPauseEntry(a)
      BY <3>1, <3>5 DEF GuardianPauseEntry
    <3>6. CASE \E a \in Suspendable : SetPauseGuardian(a)
      BY <3>1, <3>6, MarginAssumption DEF SetPauseGuardian
    <3> QED
      BY <1>6, <3>2, <3>3, <3>4, <3>5, <3>6 DEF Administer
  <2>2. interventions' \in Nat
    BY <1>1, <1>6 DEF Administer, Intervene
  <2>3. MarginTypeOK'
    BY <1>1, <1>6, <2>1, <2>2, Frames DEF MarginTypeOK, Administer, recordVars
  <2>4. RecordsInv' /\ PoolsInv'
    BY <1>1, <1>6, RecordsFrame DEF Administer, vaultVars, bucketVars
  <2> QED
    BY <2>3, <2>4 DEF MInv
<1> QED
    BY <1>2, <1>3, <1>4, <1>5, <1>6

-----------------------------------------------------------------------------
(* An exposure leaves ACTIVE.                                               *)

\* The account's active exposures are one less, and so is their debt; its history stays.
LEMMA ActiveLeaves ==
    ASSUME MInv, NEW m \in MarginIds, NEW e \in ExposureIds, exposures[e].accountId = m,
           exposures[e].status = "ACTIVE", NEW status \in ExposureStatus \ {"ACTIVE", "NONE"},
           exposures' = [exposures EXCEPT ![e].status = status]
    PROVE  /\ exposures' = [exposures EXCEPT ![e] = [exposures[e] EXCEPT !.status = status]]
           /\ [exposures[e] EXCEPT !.status = status] \in Exposure
           /\ [exposures[e] EXCEPT !.status = status].accountId = m
           /\ exposures' \in [ExposureIds -> Exposure] /\ exposures[e].faceDebt \in Nat \ {0}
           /\ e \in ExposuresOf(m, {"ACTIVE"})
           /\ ExposuresOf(m, {"ACTIVE"})' = ExposuresOf(m, {"ACTIVE"}) \ {e}
           /\ Cardinality(ExposuresOf(m, {"ACTIVE"})) \in Nat \ {0}
           /\ Cardinality(ExposuresOf(m, {"ACTIVE"})') = Cardinality(ExposuresOf(m, {"ACTIVE"})) - 1
           /\ FaceDebtOf(ExposuresOf(m, {"ACTIVE"})) \in Nat
           /\ exposures[e].faceDebt <= FaceDebtOf(ExposuresOf(m, {"ACTIVE"}))
           /\ FaceDebtOf(ExposuresOf(m, {"ACTIVE"}))'
                 = FaceDebtOf(ExposuresOf(m, {"ACTIVE"})) - exposures[e].faceDebt
           /\ \A t : Overdue(m, t) => Overdue(m, t)'
<1> DEFINE new == [exposures[e] EXCEPT !.status = status]
           active == ExposuresOf(m, {"ACTIVE"})
<1>1. exposures \in [ExposureIds -> Exposure] /\ exposures[e] \in Exposure
    BY DEF MInv, MarginTypeOK
<1>2. /\ exposures' = [exposures EXCEPT ![e] = new] /\ new \in Exposure
      /\ new.accountId = m /\ new.status = status /\ new.faceDebt = exposures[e].faceDebt
      /\ new.maturity = exposures[e].maturity
    BY <1>1 DEF Exposure
<1>3. /\ exposures' \in [ExposureIds -> Exposure] /\ exposures'[e] = new
      /\ \A i \in ExposureIds \ {e} : exposures'[i] = exposures[i]
    BY <1>1, <1>2
<1>4. exposures[e].faceDebt \in Nat \ {0}
  <2>1. /\ exposures[e].principal \in Nat /\ exposures[e].faceDebt \in Nat
        /\ exposures[e].principal > 0 /\ exposures[e].faceDebt >= exposures[e].principal
    BY <1>1 DEF MInv, RecordsInv, ExposureSound, Exposure
  <2> QED
    BY <2>1
<1> HIDE DEF new
<1>5. e \in active /\ active' = active \ {e} /\ active \in SUBSET ExposureIds
    BY <1>2, <1>3 DEF ExposuresOf
<1>6. /\ FaceDebtOf(active) \in Nat /\ IsFiniteSet(active)
      /\ exposures[e].faceDebt <= FaceDebtOf(active)
    BY <1>1, <1>5, ExposureSumTypes
<1>7. /\ Cardinality(active) \in Nat \ {0}
      /\ Cardinality(active') = Cardinality(active) - 1
    BY <1>5, <1>6, FS_RemoveElement, FS_EmptySet, FS_CardinalityType
<1>8. FaceDebtOf(active)' = FaceDebtOf(active) - exposures[e].faceDebt
  <2>1. ~CountsFor(m, {"ACTIVE"}, new) /\ CountsFor(m, {"ACTIVE"}, exposures[e])
    BY <1>2 DEF CountsFor
  <2>2. FaceDebtOf(active)' = FaceDebtOf(active) + 0 - exposures[e].faceDebt
    BY <1>1, <1>2, <2>1, ExposureSums
  <2> QED
    BY <1>4, <1>6, <2>2
<1>9. ASSUME NEW t, Overdue(m, t) PROVE Overdue(m, t)'
  <2>1. PICK i \in ExposuresOf(m, ExposureStatus) : t > exposures[i].maturity + GracePeriod
    BY <1>9 DEF Overdue
  <2>2. /\ i \in ExposuresOf(m, ExposureStatus)'
        /\ exposures'[i].maturity = exposures[i].maturity
    BY <1>2, <1>3, <2>1 DEF ExposuresOf
  <2> QED
    BY <2>1, <2>2 DEF Overdue
<1> QED
    BY <1>2, <1>3, <1>4, <1>5, <1>6, <1>7, <1>8, <1>9 DEF new

\* The mandate is kept by an account whose funding and exposures' terms are what they were.
LEMMA MandateStillKept ==
    ASSUME MInv, NEW m \in MarginIds, NEW e \in ExposureIds, exposures[e].accountId = m,
           exposures[e].status = "ACTIVE", NEW status \in ExposureStatus \ {"ACTIVE", "NONE"},
           exposures' = [exposures EXCEPT ![e].status = status],
           accounts'[m].totalFunded = accounts[m].totalFunded,
           accounts'[m].feeCharged = accounts[m].feeCharged,
           accounts'[m].mandate = accounts[m].mandate
    PROVE  FundedByMandate(m)'
<1>1. exposures \in [ExposureIds -> Exposure] /\ FundedByMandate(m)
    BY DEF MInv, MarginTypeOK, RecordsInv, NettingSetSound
<1>2. \A i \in ExposureIds :
          /\ exposures'[i].accountId = exposures[i].accountId
          /\ exposures'[i].principal = exposures[i].principal
          /\ exposures'[i].faceDebt = exposures[i].faceDebt
          /\ exposures'[i].openedAt = exposures[i].openedAt
          /\ exposures'[i].maturity = exposures[i].maturity
          /\ exposures'[i].status \in ExposureStatus /\ exposures[i].status \in ExposureStatus
    BY <1>1 DEF Exposure
<1>3. ExposuresOf(m, ExposureStatus)' = ExposuresOf(m, ExposureStatus)
    BY <1>2 DEF ExposuresOf
<1>4. \A set : PrincipalOf(set)' = PrincipalOf(set)
    BY <1>2 DEF PrincipalOf
<1>5. \A i \in ExposuresOf(m, ExposureStatus) :
          OnTerms(exposures[i], accounts[m].mandate)
             => OnTerms(exposures'[i], accounts'[m].mandate)
    BY <1>2 DEF OnTerms, ExposuresOf
<1> QED
    BY <1>1, <1>3, <1>4, <1>5 DEF FundedByMandate

\* A repaid lender is paid or given a claim; the book keeps its types.
LEMMA RepaymentType ==
    ASSUME EscrowTypeOK, NEW exposure, exposure.lender \in Account, exposure.faceDebt \in Nat,
           NEW a \in Account, CanPay(book, a, exposure.faceDebt), UNCHANGED compliant,
           RepayEscrowed(exposure, a) \/ RepayDirect(exposure, a)
    PROVE  EscrowTypeOK'
<1>1. book \in Book /\ compliant \subseteq Account
    BY DEF EscrowTypeOK
<1>2. CASE RepayDirect(exposure, a)
  <2>1. PaidTo(book, a, exposure.lender, exposure.faceDebt) \in Book
    BY <1>1, PaidToType
  <2> QED
    BY <1>1, <1>2, <2>1 DEF RepayDirect, EscrowTypeOK
<1>3. CASE RepayEscrowed(exposure, a)
  <2>1. PICK deposited \in Book : deposited = PaidToEscrow(book, a, exposure.faceDebt)
    BY <1>1, PaidToEscrowType
  <2>2. WithClaim(deposited, exposure.lender, exposure.faceDebt) \in Book
    BY WithClaimType
  <2> QED
    BY <1>1, <1>3, <2>1, <2>2 DEF RepayEscrowed, EscrowTypeOK
<1> QED
    BY <1>2, <1>3

\* A step that changes one account, one exposure and the book keeps the engine's types.
LEMMA ExposureTypes ==
    ASSUME MarginTypeOK, EscrowTypeOK', accounts' \in [MarginIds -> MarginAccount],
           exposures' \in [ExposureIds -> Exposure], nextExposureId' \in Nat \ {0},
           UNCHANGED <<nextAccountId, accountForAuction, adminVars, interventions>>,
           UNCHANGED <<vaultVars, auctionVars, riskVars, feedVars, now>>
    PROVE  MarginTypeOK'
BY Frames DEF MarginTypeOK, adminVars

\* The last repayment of an account clears its default.
LEMMA RepayExposureStep ==
    ASSUME MInv, NEW a \in Account, NEW e \in ExposureIds, NEW limit \in Limits,
           NEW useEscrow \in BOOLEAN, RepayExposure(a, e, limit, useEscrow)
    PROVE  MInv'
<1>1. PICK m \in MarginIds :
        /\ exposures[e].accountId = m /\ exposures[e].status = "ACTIVE"
        /\ accounts[m].status \in Running /\ CanPay(book, a, exposures[e].faceDebt)
        /\ exposures' = [exposures EXCEPT ![e].status = "REPAID"]
        /\ SetAccount(m, Repaid(accounts[m], exposures[e].faceDebt))
        /\ RepayEscrowed(exposures[e], a) \/ RepayDirect(exposures[e], a)
        /\ UNCHANGED <<vaultVars, auctionVars, compliant, riskVars, feedVars, now>>
    BY DEF RepayExposure, CanRepayExposure
<1> DEFINE account == accounts[m]
           debt == exposures[e].faceDebt
           new == Repaid(account, debt)
           repaid == [exposures[e] EXCEPT !.status = "REPAID"]
           active == ExposuresOf(m, {"ACTIVE"})
<1>2. /\ exposures' = [exposures EXCEPT ![e] = repaid] /\ repaid \in Exposure
      /\ repaid.accountId = m
      /\ exposures' \in [ExposureIds -> Exposure] /\ debt \in Nat \ {0}
      /\ Cardinality(active) \in Nat \ {0}
      /\ Cardinality(active') = Cardinality(active) - 1
      /\ FaceDebtOf(active) \in Nat /\ debt <= FaceDebtOf(active)
      /\ FaceDebtOf(active)' = FaceDebtOf(active) - debt
      /\ \A t : Overdue(m, t) => Overdue(m, t)'
  <2>1. PICK status \in ExposureStatus \ {"ACTIVE", "NONE"} : status = "REPAID"
    BY DEF ExposureStatus
  <2>2. /\ exposures[e].accountId = m /\ exposures[e].status = "ACTIVE"
        /\ exposures' = [exposures EXCEPT ![e].status = status]
    BY <1>1, <2>1
  <2>3. /\ Cardinality(ExposuresOf(m, {"ACTIVE"})) \in Nat \ {0}
        /\ Cardinality(ExposuresOf(m, {"ACTIVE"})')
              = Cardinality(ExposuresOf(m, {"ACTIVE"})) - 1
        /\ FaceDebtOf(ExposuresOf(m, {"ACTIVE"})) \in Nat
        /\ exposures[e].faceDebt <= FaceDebtOf(ExposuresOf(m, {"ACTIVE"}))
        /\ FaceDebtOf(ExposuresOf(m, {"ACTIVE"}))'
              = FaceDebtOf(ExposuresOf(m, {"ACTIVE"})) - exposures[e].faceDebt
        /\ \A t : Overdue(m, t) => Overdue(m, t)'
        /\ exposures' \in [ExposureIds -> Exposure] /\ exposures[e].faceDebt \in Nat \ {0}
    BY <2>2, ActiveLeaves
  <2>4. /\ exposures' = [exposures EXCEPT ![e] = repaid] /\ repaid \in Exposure
        /\ repaid.accountId = m
    BY <1>1 DEF MInv, MarginTypeOK, Exposure, ExposureStatus
  <2> HIDE DEF repaid
  <2> QED
    BY <2>3, <2>4
<1>3. /\ account \in MarginAccount /\ NettingSetSound(m) /\ account.status # "NONE"
      /\ account.paymentDefaultDeclared
            => account.totalFaceDebt > 0 /\ Overdue(m, account.defaultDeclaredAt)
      /\ nextAccountId \in Nat /\ nextExposureId \in Nat \ {0} /\ e \in Nat
    BY <1>1, RunningFacts, MarginAssumption DEF MInv, RecordsInv, MarginTypeOK, Running
<1>4. /\ account.totalFaceDebt = FaceDebtOf(active)
      /\ account.activeExposureCount = Cardinality(active)
    BY <1>1, <1>3 DEF NettingSetSound, AggregatesRight
<1>5. /\ account.totalFaceDebt - debt \in Nat /\ account.activeExposureCount - 1 \in Nat
      /\ account.totalFaceDebt \in Nat
    BY <1>2, <1>4
<1>6. /\ (account.paymentDefaultDeclared /\ account.totalFaceDebt # debt) \in BOOLEAN
      /\ (IF account.totalFaceDebt = debt THEN 0 ELSE account.defaultDeclaredAt) \in Nat
    BY <1>3 DEF MarginAccount
<1>7. new \in MarginAccount
    BY <1>3, <1>5, <1>6 DEF Repaid, MarginAccount
<1>8. /\ new.status = account.status /\ new.seller = account.seller
      /\ new.collateralAmount = account.collateralAmount /\ new.mandate = account.mandate
      /\ new.totalFunded = account.totalFunded /\ new.feeCharged = account.feeCharged
      /\ new.totalFaceDebt = account.totalFaceDebt - debt
      /\ new.activeExposureCount = account.activeExposureCount - 1
      /\ new.remainingProceeds = account.remainingProceeds
      /\ new.marginCallDeadline = account.marginCallDeadline /\ new.snapshot = account.snapshot
      /\ new.paymentDefaultDeclared =>
            /\ account.paymentDefaultDeclared /\ account.totalFaceDebt # debt
            /\ new.defaultDeclaredAt = account.defaultDeclaredAt
    BY <1>3 DEF Repaid, MarginAccount
<1>9. /\ accounts' = [accounts EXCEPT ![m] = new] /\ accounts'[m] = new
      /\ UNCHANGED <<nextAccountId, nextExposureId, accountForAuction, adminVars, interventions>>
      /\ UNCHANGED <<marginLocked, auctionLocked>>
    BY <1>1 DEF SetAccount, MInv, MarginTypeOK, vaultVars, bucketVars
<1> HIDE DEF new, repaid
<1>10. NettingSetSound(m)'
  <2>1. new.status \in Running
    BY <1>1, <1>8
  <2>2. PoolNamed(m)' /\ PoolLeft(m)'
    BY <1>9, <2>1 DEF PoolNamed, PoolLeft, Running
  <2>3. (accounts[m].paymentDefaultDeclared
            => accounts[m].totalFaceDebt > 0 /\ Overdue(m, accounts[m].defaultDeclaredAt))'
    <3>1. ASSUME new.paymentDefaultDeclared
          PROVE  /\ new.totalFaceDebt > 0
                 /\ Overdue(m, account.defaultDeclaredAt)
                 /\ new.defaultDeclaredAt = account.defaultDeclaredAt
      <4>1. account.totalFaceDebt - debt # 0
        BY <1>2, <1>5, <1>8, <3>1
      <4> QED
        BY <1>3, <1>5, <1>8, <3>1, <4>1
    <3> QED
      BY <1>2, <1>9, <3>1
  <2>4. AccountSound(m)'
    BY <1>3, <1>8, <1>9, <2>1, <2>2, <2>3
       DEF NettingSetSound, AccountSound, Running, ClosedOut
  <2>5. AggregatesRight(m)'
    BY <1>2, <1>4, <1>8, <1>9, <2>1 DEF AggregatesRight, Running, ClosedOut
  <2>6. FundedByMandate(m)'
    <3>1. "REPAID" \in ExposureStatus \ {"ACTIVE", "NONE"}
      BY DEF ExposureStatus
    <3> QED
      BY <1>1, <1>8, <1>9, <3>1, MandateStillKept
  <2>7. AccountCustody(m)'
    BY <1>3, <1>8, <1>9 DEF NettingSetSound, AccountCustody
  <2> QED
    BY <2>2, <2>4, <2>5, <2>6, <2>7 DEF NettingSetSound
<1>11. ExposureSound(e)'
  <2>1. ExposureSound(e) /\ exposures[e] \in Exposure
    BY DEF MInv, RecordsInv, MarginTypeOK
  <2>2. /\ exposures'[e].status = "REPAID" /\ exposures'[e].accountId = exposures[e].accountId
        /\ exposures'[e].lender = exposures[e].lender
        /\ exposures'[e].principal = exposures[e].principal
        /\ exposures'[e].faceDebt = exposures[e].faceDebt
    BY <1>1, <2>1 DEF Exposure, MInv, MarginTypeOK
  <2> QED
    BY <1>1, <1>3, <1>8, <1>9, <2>1, <2>2, MarginAssumption DEF ExposureSound
<1>12. RecordsInv' /\ accounts' \in [MarginIds -> MarginAccount]
  <2>1. /\ exposures[e].accountId \in {0, m} /\ nextExposureId' \in Nat
        /\ nextExposureId <= nextExposureId'
    BY <1>1, <1>3, <1>9
  <2>2. UNCHANGED <<nextAccountId, accountForAuction, marginLocked, now>>
    BY <1>1, <1>9
  <2> QED
    BY <1>2, <1>7, <1>8, <1>9, <1>10, <1>11, <2>1, <2>2, ExposureReplaced
<1>13. PoolsInv'
  <2>1. /\ \A x \in AuctionIds : LiesIn(m, x)' <=> LiesIn(m, x)
        /\ new.status \notin {"LIQUIDATING", "AUCTION_FAILED"}
    BY <1>1, <1>8, <1>9 DEF LiesIn, Running
  <2>2. \A x \in AuctionIds : PoolCustody(x)'
    BY <1>7, <1>9, <2>1, PoolsUntouched
  <2>3. PoolsApart' /\ AuctionsSound'
    BY <1>1, <1>9, AuctionsKept
  <2> QED
    BY <2>2, <2>3 DEF PoolsInv
<1>14. EscrowTypeOK'
  <2>1. exposures[e].lender \in Account /\ debt \in Nat
    BY <1>1, <1>2 DEF MInv, RecordsInv, ExposureSound
  <2> QED
    BY <1>1, <2>1, RepaymentType DEF MInv, MarginTypeOK
<1>15. MarginTypeOK'
    BY <1>1, <1>2, <1>3, <1>9, <1>12, <1>14, ExposureTypes DEF MInv
<1> QED
    BY <1>12, <1>13, <1>15 DEF MInv

-----------------------------------------------------------------------------
(* Funding.                                                                 *)

\* What a fill adds to an account's totals is natural, and the debt covers the principal.
LEMMA FundingAmounts ==
    ASSUME NEW account \in MarginAccount, NEW principal \in Nat, NEW rate \in Nat,
           account.feeCharged = CumulativeFee(account.totalFunded, ProtocolFeeBps)
    PROVE  /\ FaceDebt(account, principal, rate) \in Nat
           /\ principal <= FaceDebt(account, principal, rate)
           /\ FundingFee(account, principal) \in Nat
           /\ account.feeCharged + FundingFee(account, principal)
                 = CumulativeFee(account.totalFunded + principal, ProtocolFeeBps)
           /\ Funded(account, principal, rate) \in MarginAccount
<1>1. /\ account.mandate.duration \in Nat /\ account.totalFunded \in Nat
      /\ account.feeCharged \in Nat /\ account.totalFaceDebt \in Nat
      /\ account.activeExposureCount \in Nat
    BY DEF MarginAccount, Mandate
<1>2. Interest(principal, rate, account.mandate.duration) \in Nat
    BY <1>1, InterestType
<1>3. /\ CumulativeFee(account.totalFunded + principal, ProtocolFeeBps) \in Nat
      /\ CumulativeFee(account.totalFunded, ProtocolFeeBps)
            <= CumulativeFee(account.totalFunded + principal, ProtocolFeeBps)
  <2>1. PICK total \in Nat : total = account.totalFunded + principal
    BY <1>1
  <2>2. account.totalFunded <= total /\ total <= total /\ ProtocolFeeBps \in Nat
    BY <1>1, <2>1, MarginAssumption
  <2>3. CumulativeFee(account.totalFunded, ProtocolFeeBps)
           <= CumulativeFee(total, ProtocolFeeBps)
    BY <1>1, <2>2, CumulativeFeeMonotone
  <2>4. CumulativeFee(total, ProtocolFeeBps) \in Nat
    BY <2>2, CumulativeFeeMonotone
  <2> QED
    BY <2>1, <2>3, <2>4
<1>4. /\ FaceDebt(account, principal, rate) \in Nat
      /\ principal <= FaceDebt(account, principal, rate)
    BY <1>2 DEF FaceDebt
<1>5. /\ FundingFee(account, principal) \in Nat
      /\ account.feeCharged + FundingFee(account, principal)
            = CumulativeFee(account.totalFunded + principal, ProtocolFeeBps)
    BY <1>1, <1>3 DEF FundingFee
<1>6. Funded(account, principal, rate) \in MarginAccount
  <2>1. PICK closed \in BOOLEAN :
            closed = (account.totalFunded + principal = account.mandate.fundingTarget)
    OBVIOUS
  <2>2. PICK total, debt, fee, count \in Nat :
            /\ total = account.totalFunded + principal
            /\ debt = account.totalFaceDebt + FaceDebt(account, principal, rate)
            /\ fee = account.feeCharged + FundingFee(account, principal)
            /\ count = account.activeExposureCount + 1
    BY <1>1, <1>4, <1>5
  <2>3. Funded(account, principal, rate) =
            [account EXCEPT !.totalFunded = total, !.totalFaceDebt = debt, !.feeCharged = fee,
                            !.activeExposureCount = count, !.fundingClosed = closed]
    BY <2>1, <2>2 DEF Funded
  <2> QED
    BY <2>3 DEF MarginAccount
<1> QED
    BY <1>4, <1>5, <1>6

\* What becomes of an account's exposures when one joins them.
Joins(m, statuses, e, new) ==
    /\ ExposuresOf(m, statuses)' = ExposuresOf(m, statuses) \cup {e}
    /\ FaceDebtOf(ExposuresOf(m, statuses))'
          = FaceDebtOf(ExposuresOf(m, statuses)) + new.faceDebt
    /\ PrincipalOf(ExposuresOf(m, statuses))'
          = PrincipalOf(ExposuresOf(m, statuses)) + new.principal
    /\ Cardinality(ExposuresOf(m, statuses)')
          = Cardinality(ExposuresOf(m, statuses)) + 1
    /\ \A t : Overdue(m, t) => Overdue(m, t)'

\* A new exposure joins its account's active ones and its history.
LEMMA ExposureJoins ==
    ASSUME MInv, NEW m \in MarginIds, NEW e \in ExposureIds, exposures[e].status = "NONE",
           NEW new \in Exposure, new.status = "ACTIVE", new.accountId = m,
           exposures' = [exposures EXCEPT ![e] = new], NEW statuses, "ACTIVE" \in statuses
    PROVE  Joins(m, statuses, e, new)
<1>1. /\ exposures \in [ExposureIds -> Exposure] /\ exposures[e].accountId = 0
      /\ m # 0 /\ new.faceDebt \in Nat /\ new.principal \in Nat
    BY MarginAssumption DEF MInv, MarginTypeOK, RecordsInv, ExposureSound, Exposure
<1>2. /\ exposures'[e] = new /\ \A i \in ExposureIds \ {e} : exposures'[i] = exposures[i]
    BY <1>1
<1>3. /\ ExposuresOf(m, statuses)' = ExposuresOf(m, statuses) \cup {e}
      /\ e \notin ExposuresOf(m, statuses)
      /\ ExposuresOf(m, statuses) \in SUBSET ExposureIds
    BY <1>1, <1>2 DEF ExposuresOf
<1>4. /\ FaceDebtOf(ExposuresOf(m, statuses)) \in Nat
      /\ PrincipalOf(ExposuresOf(m, statuses)) \in Nat
      /\ IsFiniteSet(ExposuresOf(m, statuses))
    BY <1>1, <1>3, ExposureSumTypes
<1>5. CountsFor(m, statuses, new) /\ ~CountsFor(m, statuses, exposures[e])
    BY <1>1 DEF CountsFor
<1>6. /\ FaceDebtOf(ExposuresOf(m, statuses))'
            = FaceDebtOf(ExposuresOf(m, statuses)) + new.faceDebt - 0
      /\ PrincipalOf(ExposuresOf(m, statuses))'
            = PrincipalOf(ExposuresOf(m, statuses)) + new.principal - 0
    BY <1>1, <1>5, ExposureSums
<1>7. Cardinality(ExposuresOf(m, statuses)') = Cardinality(ExposuresOf(m, statuses)) + 1
    BY <1>3, <1>4, FS_AddElement
<1>8. ASSUME NEW t, Overdue(m, t) PROVE Overdue(m, t)'
  <2>1. PICK i \in ExposuresOf(m, ExposureStatus) : t > exposures[i].maturity + GracePeriod
    BY <1>8 DEF Overdue
  <2>2. i \in ExposureIds \ {e}
    BY <1>1, <2>1 DEF ExposuresOf
  <2>3. i \in ExposuresOf(m, ExposureStatus)' /\ exposures'[i] = exposures[i]
    BY <1>2, <2>1, <2>2 DEF ExposuresOf
  <2> QED
    BY <2>1, <2>3 DEF Overdue
<1> QED
    BY <1>1, <1>3, <1>4, <1>6, <1>7, <1>8 DEF Joins

\* The exposure a fill opens is on the seller's terms.
LEMMA NewExposureOnTerms ==
    ASSUME MInv, NEW m \in MarginIds, NEW lender \in Account, NEW principal \in Nat \ {0},
           NEW rate \in Nat, rate <= accounts[m].mandate.maxAnnualRateBps,
           now <= accounts[m].mandate.fundingExpiry,
           NEW new, new = [status |-> "ACTIVE", accountId |-> m, lender |-> lender,
                           principal |-> principal,
                           faceDebt |-> FaceDebt(accounts[m], principal, rate),
                           openedAt |-> now, maturity |-> now + accounts[m].mandate.duration]
    PROVE  /\ new \in Exposure /\ OnTerms(new, accounts[m].mandate)
           /\ new.faceDebt >= new.principal /\ new.principal > 0
<1>1. accounts[m] \in MarginAccount /\ now \in Nat /\ NettingSetSound(m)
    BY DEF MInv, MarginTypeOK, RecordsInv
<1>2. accounts[m].mandate.maxAnnualRateBps \in Nat /\ accounts[m].mandate.duration \in Nat
    BY <1>1 DEF MarginAccount, Mandate
<1>3. PICK debt : debt = FaceDebt(accounts[m], principal, rate)
    OBVIOUS
<1>4. debt \in Nat /\ principal <= debt
  <2>1. accounts[m].feeCharged = CumulativeFee(accounts[m].totalFunded, ProtocolFeeBps)
    BY <1>1 DEF NettingSetSound, FundedByMandate
  <2> QED
    BY <1>1, <1>3, <2>1, FundingAmounts
<1>5. debt <= principal + Interest(principal, accounts[m].mandate.maxAnnualRateBps,
                                   accounts[m].mandate.duration)
  <2>1. Interest(principal, rate, accounts[m].mandate.duration)
           <= Interest(principal, accounts[m].mandate.maxAnnualRateBps,
                       accounts[m].mandate.duration)
    BY <1>2, InterestMonotoneInRate
  <2>2. /\ Interest(principal, rate, accounts[m].mandate.duration) \in Nat
        /\ Interest(principal, accounts[m].mandate.maxAnnualRateBps,
                    accounts[m].mandate.duration) \in Nat
    BY <1>2, InterestType
  <2> QED
    BY <1>3, <2>1, <2>2 DEF FaceDebt
<1> QED
    BY <1>1, <1>2, <1>3, <1>4, <1>5 DEF Exposure, ExposureStatus, OnTerms

\* A fill opens one exposure under the mandate and pays what it says.
LEMMA FundMarginAccountStep ==
    ASSUME MInv, NEW a \in Account, NEW m \in MarginIds, NEW rate \in Rates, NEW limit \in Limits,
           NEW principal \in 1..accounts[m].mandate.fundingTarget,
           FundMarginAccount(a, m, principal, rate, limit)
    PROVE  MInv'
<1>0. PICK e \in ExposureIds : e = nextExposureId
    BY DEF FundMarginAccount, CanFundMarginAccount
<1> DEFINE account == accounts[m]
           fee == FundingFee(account, principal)
           new == Funded(account, principal, rate)
           proceedsPaid == PaidTo(book, a, account.seller, principal - fee)
           opened == [status |-> "ACTIVE", accountId |-> m, lender |-> a,
                      principal |-> principal, faceDebt |-> FaceDebt(account, principal, rate),
                      openedAt |-> now, maturity |-> now + account.mandate.duration]
<1>1. /\ account.status = "OPEN" /\ WithinMandate(a, account, principal, rate)
      /\ fee < principal /\ CanPay(book, a, principal - fee)
      /\ fee > 0 => CanPayOrEscrow(proceedsPaid, a, FeeTreasury, fee)
      /\ exposures' = [exposures EXCEPT ![e] = opened]
      /\ nextExposureId' = nextExposureId + 1
      /\ accounts' = [accounts EXCEPT ![m] = new]
      /\ book' = PaidOrEscrowed(proceedsPaid, a, FeeTreasury, fee)
      /\ UNCHANGED <<nextAccountId, accountForAuction, adminVars, interventions>>
      /\ UNCHANGED <<vaultVars, auctionVars, compliant, riskVars, feedVars, now>>
    BY <1>0 DEF FundMarginAccount, CanFundMarginAccount, CanFund
<1>2. /\ account \in MarginAccount /\ NettingSetSound(m) /\ account.seller \in Account
      /\ account.status \in Running /\ account.status # "NONE"
      /\ account.paymentDefaultDeclared
            => account.totalFaceDebt > 0 /\ Overdue(m, account.defaultDeclaredAt)
      /\ nextAccountId \in Nat /\ nextExposureId \in Nat \ {0} /\ e \in Nat
      /\ exposures \in [ExposureIds -> Exposure] /\ account.totalFaceDebt \in Nat
      /\ book \in Book /\ compliant \subseteq Account
      /\ ExposureSound(e)
    BY <1>1, RunningFacts, MarginAssumption
       DEF MInv, RecordsInv, MarginTypeOK, Running, EscrowTypeOK
<1>3. /\ principal \in Nat \ {0} /\ rate \in Nat
      /\ principal <= account.mandate.fundingTarget - account.totalFunded
      /\ now <= account.mandate.fundingExpiry /\ rate <= account.mandate.maxAnnualRateBps
      /\ account.mandate.fundingTarget \in Nat /\ account.totalFunded \in Nat
  <2>1. account.mandate.fundingTarget \in Nat /\ account.totalFunded \in Nat
    BY <1>2 DEF MarginAccount, Mandate
  <2> QED
    BY <1>1, <2>1, MarginAssumption DEF WithinMandate
<1>4. /\ account.totalFaceDebt = FaceDebtOf(ExposuresOf(m, {"ACTIVE"}))
      /\ account.activeExposureCount = Cardinality(ExposuresOf(m, {"ACTIVE"}))
      /\ account.feeCharged = CumulativeFee(account.totalFunded, ProtocolFeeBps)
    BY <1>2 DEF NettingSetSound, AggregatesRight, FundedByMandate
<1>5. /\ FaceDebt(account, principal, rate) \in Nat /\ fee \in Nat
      /\ account.feeCharged + fee = CumulativeFee(account.totalFunded + principal, ProtocolFeeBps)
      /\ new \in MarginAccount
    BY <1>2, <1>3, <1>4, FundingAmounts
<1>6. /\ new.status = "OPEN" /\ new.seller = account.seller
      /\ new.collateralAmount = account.collateralAmount /\ new.mandate = account.mandate
      /\ new.totalFunded = account.totalFunded + principal
      /\ new.feeCharged = account.feeCharged + fee
      /\ new.totalFaceDebt = account.totalFaceDebt + FaceDebt(account, principal, rate)
      /\ new.activeExposureCount = account.activeExposureCount + 1
      /\ new.remainingProceeds = account.remainingProceeds
      /\ new.paymentDefaultDeclared = account.paymentDefaultDeclared
      /\ new.defaultDeclaredAt = account.defaultDeclaredAt
    BY <1>1, <1>2 DEF Funded, MarginAccount
<1>7. /\ opened \in Exposure /\ OnTerms(opened, account.mandate)
      /\ opened.faceDebt >= opened.principal /\ opened.principal > 0
      /\ opened.status = "ACTIVE" /\ opened.accountId = m /\ opened.lender = a
      /\ opened.principal = principal /\ opened.faceDebt = FaceDebt(account, principal, rate)
    BY <1>3, NewExposureOnTerms
<1>8. /\ accounts'[m] = new /\ exposures'[e] = opened
      /\ UNCHANGED <<marginLocked, auctionLocked>>
      /\ \A i \in ExposureIds \ {e} : exposures'[i] = exposures[i]
      /\ exposures[e].status = "NONE" /\ exposures[e].accountId = 0
    BY <1>0, <1>1, <1>2 DEF MInv, MarginTypeOK, vaultVars, bucketVars, ExposureSound
<1>9. EscrowTypeOK'
  <2>1. PICK amount \in Nat : amount = principal - fee
    BY <1>1, <1>3, <1>5
  <2>2. proceedsPaid \in Book
    BY <1>1, <1>2, <2>1, PaidToType
  <2>3. PaidOrEscrowed(proceedsPaid, a, FeeTreasury, fee) \in Book
    <3> HIDE DEF proceedsPaid, fee
    <3>1. CASE fee > 0
      BY <1>1, <1>5, <2>2, <3>1, MarginAssumption, PaidOrEscrowedType
    <3>2. CASE fee = 0
      BY <2>2, <3>2, MarginAssumption, NothingPaid
    <3> QED
      BY <1>5, <3>1, <3>2
  <2> QED
    BY <1>1, <1>2, <2>3 DEF EscrowTypeOK
<1> HIDE DEF new, opened, fee, proceedsPaid
<1>10. ASSUME NEW statuses, "ACTIVE" \in statuses
       PROVE  Joins(m, statuses, e, opened)
    BY <1>1, <1>7, <1>8, <1>10, ExposureJoins
<1>11. /\ "ACTIVE" \in {"ACTIVE"} /\ "ACTIVE" \in ExposureStatus
    BY DEF ExposureStatus
<1>12. NettingSetSound(m)'
  <2>1. PoolNamed(m)' /\ PoolLeft(m)'
    BY <1>6, <1>8 DEF PoolNamed, PoolLeft
  <2>2. AccountSound(m)'
    <3>1. \A t : Overdue(m, t) => Overdue(m, t)'
      BY <1>10, <1>11 DEF Joins
    <3> QED
      BY <1>1, <1>2, <1>5, <1>6, <1>8, <2>1, <3>1
         DEF NettingSetSound, AccountSound, ClosedOut
  <2>3. AggregatesRight(m)'
    <3>1. /\ FaceDebtOf(ExposuresOf(m, {"ACTIVE"}))'
                = FaceDebtOf(ExposuresOf(m, {"ACTIVE"})) + opened.faceDebt
          /\ Cardinality(ExposuresOf(m, {"ACTIVE"})')
                = Cardinality(ExposuresOf(m, {"ACTIVE"})) + 1
      BY <1>10, <1>11 DEF Joins
    <3> QED
      BY <1>4, <1>6, <1>7, <1>8, <3>1 DEF AggregatesRight, ClosedOut
  <2>4. FundedByMandate(m)'
    <3>0. /\ PrincipalOf(ExposuresOf(m, ExposureStatus))'
                = PrincipalOf(ExposuresOf(m, ExposureStatus)) + opened.principal
          /\ ExposuresOf(m, ExposureStatus)' = ExposuresOf(m, ExposureStatus) \cup {e}
      BY <1>10, <1>11 DEF Joins
    <3>1. account.totalFunded = PrincipalOf(ExposuresOf(m, ExposureStatus))
      BY <1>2 DEF NettingSetSound, FundedByMandate
    <3>2. new.totalFunded = PrincipalOf(ExposuresOf(m, ExposureStatus))'
      BY <1>6, <1>7, <3>0, <3>1
    <3>3. new.totalFunded <= new.mandate.fundingTarget
      BY <1>3, <1>6
    <3>4. ASSUME NEW i \in ExposuresOf(m, ExposureStatus)'
          PROVE  OnTerms(exposures'[i], new.mandate)
      <4>1. CASE i = e
        BY <1>6, <1>7, <1>8, <4>1
      <4>2. CASE i # e
        <5>1. i \in ExposuresOf(m, ExposureStatus) /\ i \in ExposureIds \ {e}
          BY <3>0, <3>4, <4>2 DEF ExposuresOf
        <5>2. OnTerms(exposures[i], account.mandate)
          BY <1>2, <5>1 DEF NettingSetSound, FundedByMandate
        <5> QED
          BY <1>6, <1>8, <5>1, <5>2
      <4> QED
        BY <4>1, <4>2
    <3>5. new.feeCharged = CumulativeFee(new.totalFunded, ProtocolFeeBps)
      BY <1>5, <1>6
    <3> QED
      BY <1>8, <3>2, <3>3, <3>4, <3>5 DEF FundedByMandate
  <2>5. AccountCustody(m)'
    BY <1>1, <1>2, <1>6, <1>8 DEF NettingSetSound, AccountCustody, Running
  <2> QED
    BY <2>1, <2>2, <2>3, <2>4, <2>5 DEF NettingSetSound
<1>13. ExposureSound(e)'
    BY <1>0, <1>1, <1>2, <1>6, <1>7, <1>8, MarginAssumption DEF ExposureSound
<1>14. /\ RecordsInv' /\ accounts' \in [MarginIds -> MarginAccount]
       /\ exposures' \in [ExposureIds -> Exposure]
  <2>1. /\ nextExposureId' \in Nat /\ nextExposureId <= nextExposureId'
        /\ exposures[e].accountId \in {0, m} /\ new.status = account.status
    BY <1>1, <1>2, <1>6, <1>8
  <2>2. UNCHANGED <<nextAccountId, accountForAuction, marginLocked, now>>
    BY <1>1, <1>8
  <2> QED
    BY <1>1, <1>5, <1>7, <1>12, <1>13, <2>1, <2>2, ExposureReplaced
<1>15. PoolsInv'
  <2>1. /\ \A x \in AuctionIds : LiesIn(m, x)' <=> LiesIn(m, x)
        /\ new.status \notin {"LIQUIDATING", "AUCTION_FAILED"}
    BY <1>1, <1>6, <1>8 DEF LiesIn
  <2>2. \A x \in AuctionIds : PoolCustody(x)'
    BY <1>1, <1>5, <1>8, <2>1, PoolsUntouched
  <2>3. PoolsApart' /\ AuctionsSound'
    BY <1>1, AuctionsKept
  <2> QED
    BY <2>2, <2>3 DEF PoolsInv
<1>16. MarginTypeOK'
    BY <1>1, <1>2, <1>9, <1>14, ExposureTypes DEF MInv
<1> QED
    BY <1>14, <1>15, <1>16 DEF MInv

-----------------------------------------------------------------------------
(* Closing out.                                                             *)

\* Nothing is claimed of an account before its closeout is decided.
LEMMA NothingClaimedYet ==
    ASSUME MInv, NEW m \in MarginIds, accounts[m].status \in Running \cup {"LIQUIDATING"}
    PROVE  /\ ExposuresOf(m, Claimed) = {}
           /\ ExposuresOf(m, {"ACTIVE"} \cup Claimed) = ExposuresOf(m, {"ACTIVE"})
<1>1. ASSUME NEW e \in ExposureIds, exposures[e].accountId = m PROVE exposures[e].status \notin Claimed
    BY <1>1 DEF MInv, RecordsInv, ExposureSound, Claimed, Running
<1> QED
    BY <1>1 DEF ExposuresOf

\* How a closeout begins, or its auction ends: the debt is frozen, the pool is still whole.
Decided(m, new) ==
    LET account == accounts[m]
    IN  /\ account.status \in Running \cup {"LIQUIDATING"} /\ new.status \in ClosedOut
        /\ new.seller = account.seller /\ new.mandate = account.mandate
        /\ new.totalFunded = account.totalFunded /\ new.feeCharged = account.feeCharged
        /\ new.collateralAmount = account.collateralAmount
        /\ new.paymentDefaultDeclared = account.paymentDefaultDeclared
        /\ new.defaultDeclaredAt = account.defaultDeclaredAt
        /\ new.remainingProceeds = IF new.status = "LIQUIDATED" THEN new.liquidationProceeds
                                                                ELSE 0
        /\ new.status = "AUCTION_FAILED" => new.remainingCollateral = new.collateralAmount
        /\ account.status \in Running =>
              /\ account.totalFaceDebt > 0 /\ new.frozenDebt = account.totalFaceDebt
              /\ new.unclaimedExposureCount = account.activeExposureCount
        /\ account.status = "LIQUIDATING" =>
              /\ new.frozenDebt = account.frozenDebt
              /\ new.unclaimedExposureCount = account.unclaimedExposureCount

\* A netting set whose closeout is decided is sound.
LEMMA DecidedIsSound ==
    ASSUME MInv, NEW m \in MarginIds, NEW new \in MarginAccount, Decided(m, new),
           accounts' = [accounts EXCEPT ![m] = new], UNCHANGED <<exposures, nextAccountId>>,
           PoolNamed(m)', marginLocked'[m] = EmptyBucket
    PROVE  NettingSetSound(m)'
<1> DEFINE account == accounts[m]
           active == ExposuresOf(m, {"ACTIVE"})
<1>1. account \in MarginAccount /\ NettingSetSound(m) /\ accounts'[m] = new
    BY DEF MInv, MarginTypeOK, RecordsInv
<1>2. \A set : ExposuresOf(m, set)' = ExposuresOf(m, set)
    BY DEF ExposuresOf
<1>3. \A set : /\ FaceDebtOf(set)' = FaceDebtOf(set) /\ PrincipalOf(set)' = PrincipalOf(set)
    BY DEF FaceDebtOf, PrincipalOf
<1>4. \A t : Overdue(m, t)' <=> Overdue(m, t)
    BY DEF Overdue, ExposuresOf
<1>5. /\ account.status \in Running \cup {"LIQUIDATING"} /\ account.status # "NONE"
      /\ new.status \in ClosedOut /\ new.status \notin Running \cup {"CLOSED", "NONE"}
    BY DEF Decided, Running, ClosedOut
<1>6. ExposuresOf(m, Claimed) = {} /\ ExposuresOf(m, {"ACTIVE"} \cup Claimed) = active
    BY <1>5, NothingClaimedYet
<1>7. /\ new.frozenDebt = FaceDebtOf(active) /\ new.frozenDebt > 0
      /\ new.unclaimedExposureCount = Cardinality(active)
  <2>1. CASE account.status \in Running
    BY <1>1, <2>1 DEF Decided, NettingSetSound, AggregatesRight
  <2>2. CASE account.status = "LIQUIDATING"
    BY <1>1, <1>6, <2>2 DEF Decided, NettingSetSound, AggregatesRight, AccountSound, ClosedOut
  <2> QED
    BY <1>5, <2>1, <2>2
<1>8. AccountSound(m)'
    BY <1>1, <1>4, <1>5, <1>7 DEF Decided, NettingSetSound, AccountSound, Running
<1>9. PoolLeft(m)'
  <2>0. FaceDebtOf({}) = 0
    BY SumEmpty DEF FaceDebtOf
  <2>1. active # {}
    BY <1>7, <2>0
  <2>2. ASSUME NEW pool \in Nat PROVE LeftOf(m, pool, pool)'
    <3>1. PICK f : f = SharesIn(m, pool)'
      OBVIOUS
    <3>2. SumFunctionOnSet(f, {}) = 0
      BY SumEmpty
    <3>3. SumFunctionOnSet(SharesIn(m, pool)', ExposuresOf(m, Claimed)') = 0
      BY <1>2, <1>6, <3>1, <3>2
    <3> QED
      BY <1>2, <1>6, <2>1, <3>3 DEF LeftOf
  <2>3. new.liquidationProceeds \in Nat /\ new.collateralAmount \in Nat
    BY DEF MarginAccount
  <2>4. /\ new.status = "LIQUIDATED" => new.remainingProceeds = new.liquidationProceeds
        /\ new.status = "AUCTION_FAILED" => new.remainingCollateral = new.collateralAmount
    BY DEF Decided
  <2> QED
    BY <1>1, <2>2, <2>3, <2>4 DEF PoolLeft
<1>10. AggregatesRight(m)'
    BY <1>1, <1>2, <1>3, <1>5, <1>6, <1>7 DEF AggregatesRight
<1>11. FundedByMandate(m)'
    BY <1>1, <1>2, <1>3 DEF Decided, NettingSetSound, FundedByMandate, ExposuresOf
<1>12. AccountCustody(m)'
    BY <1>1, <1>5 DEF AccountCustody
<1> QED
    BY <1>8, <1>9, <1>10, <1>11, <1>12 DEF NettingSetSound

\* Floor and start of an auction are prices, and the start covers the debt.
LEMMA LiquidationPriceType ==
    ASSUME NEW account \in MarginAccount, NEW value \in Nat
    PROVE  AuctionFloor(account, value) \in Nat /\ AuctionStart(account, value) \in Nat
<1>1. /\ account.snapshot.auctionFloorBps \in Nat /\ account.snapshot.auctionStartBps \in Nat
      /\ BPS_DENOMINATOR \in Nat \ {0} /\ account.totalFaceDebt \in Nat
  <2>1. account.snapshot \in Snapshot
    BY DEF MarginAccount
  <2> QED
    BY <2>1, ScalesAssumption DEF MarginAccount, Snapshot
<1>2. /\ MulDiv(value, account.snapshot.auctionFloorBps, BPS_DENOMINATOR) \in Nat
      /\ MulDivCeil(value, account.snapshot.auctionStartBps, BPS_DENOMINATOR) \in Nat
    BY <1>1, MulDivType
<1>3. AuctionFloor(account, value) \in Nat
    BY <1>2 DEF AuctionFloor, Max2
<1> QED
    BY <1>1, <1>2, <1>3 DEF AuctionStart, Max2

\* A running account's collateral goes into a pool whole.
LEMMA PoolFilled ==
    ASSUME MInv, NEW m \in MarginIds, accounts[m].status \in Running, NEW x \in AuctionIds,
           AllocateMarginAuction(accounts[m].seller, m, x)
    PROVE  /\ VaultTypeOK' /\ marginLocked'[m] = EmptyBucket
           /\ \A n \in MarginIds \ {m} : marginLocked'[n] = marginLocked[n]
           /\ \A y \in AuctionIds \ {x} : auctionLocked'[y] = auctionLocked[y]
           /\ auctionLocked'[x] = HeldFor(accounts[m].seller, accounts[m].collateralAmount)
<1> DEFINE account == accounts[m]
<1>1. /\ account.seller \in Account /\ account.collateralAmount \in Nat
      /\ marginLocked[m] = HeldFor(account.seller, account.collateralAmount)
    BY RunningFacts
<1>2. /\ VaultTypeOK /\ marginLocked \in [MarginIds -> Bucket]
      /\ auctionLocked \in [AuctionIds -> Bucket]
    BY DEF MInv, MarginTypeOK, VaultTypeOK
<1>3. /\ marginLocked[m].amount > 0
      /\ marginLocked' = [marginLocked EXCEPT ![m] = EmptyBucket]
      /\ auctionLocked' = [auctionLocked EXCEPT
                             ![x] = FullBucket(account.seller, marginLocked[m].amount)]
    BY DEF AllocateMarginAuction
<1>4. /\ marginLocked[m].amount = account.collateralAmount /\ account.collateralAmount > 0
    BY <1>1, <1>3 DEF HeldFor, FullBucket, EmptyBucket
<1>5. VaultTypeOK'
  <2>1. VaultCall(account.seller, account.seller, 0)
    BY DEF VaultCall
  <2> QED
    BY <1>1, <1>2, <2>1, VaultCallType
<1> QED
    BY <1>2, <1>3, <1>4, <1>5 DEF HeldFor

\* An account whose closeout has begun.
Begun(account, status, auctionId, x, remaining) ==
    [Frozen(account, status, auctionId, x) EXCEPT !.remainingCollateral = remaining]
InPool(m, new, status, auctionId, x, remaining) ==
    /\ new.status = status /\ new.auctionId = auctionId /\ new.claimPoolId = x
    /\ new.seller = accounts[m].seller
    /\ new.collateralAmount = accounts[m].collateralAmount /\ new.remainingCollateral = remaining

\* A running account's closeout, with an auction or in kind.
LEMMA CloseoutBegins ==
    ASSUME MInv, NEW m \in MarginIds, accounts[m].status \in Running,
           accounts[m].totalFaceDebt # 0, NEW x \in AuctionIds,
           NEW status \in {"LIQUIDATING", "AUCTION_FAILED"}, NEW auctionId \in AuctionIds \cup {0},
           NEW remaining \in Nat, status = "AUCTION_FAILED" => remaining = accounts[m].collateralAmount,
           NEW new, new = Begun(accounts[m], status, auctionId, x, remaining)
    PROVE  new \in MarginAccount /\ Decided(m, new) /\ InPool(m, new, status, auctionId, x, remaining)
<1> DEFINE account == accounts[m]
<1>1. account \in MarginAccount /\ NettingSetSound(m) /\ account.totalFaceDebt \in Nat
    BY RunningFacts DEF MInv, RecordsInv
<1>2. account.remainingProceeds = 0
    BY <1>1 DEF NettingSetSound, AccountSound, Running
<1>3. PICK closed \in BOOLEAN, debt, count \in Nat :
          closed = (auctionId = 0) /\ debt = account.totalFaceDebt
          /\ count = account.activeExposureCount
    BY <1>1 DEF MarginAccount
<1>4. PICK frozen : frozen = [account EXCEPT !.status = status, !.auctionId = auctionId,
                                             !.claimPoolId = x, !.inKindCloseout = closed,
                                             !.frozenDebt = debt,
                                             !.unclaimedExposureCount = count]
    OBVIOUS
<1>5. status \in AccountStatus /\ status \in ClosedOut /\ status # "LIQUIDATED"
    BY DEF AccountStatus, ClosedOut
<1>6. frozen \in MarginAccount /\ new = [frozen EXCEPT !.remainingCollateral = remaining]
    BY <1>1, <1>3, <1>4, <1>5 DEF Begun, Frozen, MarginAccount
<1>7. new \in MarginAccount
    BY <1>6 DEF MarginAccount
<1>8. /\ new.status = status /\ new.auctionId = auctionId
      /\ new.claimPoolId = x /\ new.seller = account.seller
      /\ new.collateralAmount = account.collateralAmount
      /\ new.remainingCollateral = remaining
      /\ new.mandate = account.mandate
      /\ new.totalFunded = account.totalFunded /\ new.feeCharged = account.feeCharged
      /\ new.paymentDefaultDeclared = account.paymentDefaultDeclared
      /\ new.defaultDeclaredAt = account.defaultDeclaredAt
      /\ new.remainingProceeds = account.remainingProceeds
      /\ new.frozenDebt = account.totalFaceDebt
      /\ new.unclaimedExposureCount = account.activeExposureCount
    BY <1>1, <1>3, <1>4, <1>6 DEF MarginAccount
<1>9. Decided(m, new)
    BY <1>1, <1>2, <1>5, <1>8 DEF Decided, Running
<1> QED
    BY <1>7, <1>8, <1>9 DEF InPool

\* A liquidation moves the whole account into the pool of a new auction.
LEMMA StartMarginLiquidationStep ==
    ASSUME MInv, NEW m \in MarginIds, StartMarginLiquidation(m)
    PROVE  MInv'
<1>0. PICK x \in AuctionIds : x = nextAuctionId
    BY DEF StartMarginLiquidation, CanStartMarginLiquidation, Create, CanCreate
<1> DEFINE account == accounts[m]
           value == CollateralValue(account.collateralAmount, valuation.price)
<1>1. PICK new : new = Begun(account, "LIQUIDATING", x, x, account.remainingCollateral)
    OBVIOUS
<1>2. /\ account.status \in Running /\ account.totalFaceDebt # 0
      /\ Create(m, account.collateralAmount, AuctionStart(account, value),
                AuctionFloor(account, value), account.snapshot.auctionDuration)
      /\ accounts' = [accounts EXCEPT ![m] = Frozen(account, "LIQUIDATING", x, x)]
      /\ accountForAuction' = [accountForAuction EXCEPT ![x] = m]
      /\ AllocateMarginAuction(account.seller, m, x)
      /\ UNCHANGED <<nextAccountId, exposures, nextExposureId, adminVars, interventions>>
      /\ UNCHANGED <<escrowVars, riskVars, feedVars, now>>
    BY <1>0 DEF StartMarginLiquidation, CanStartMarginLiquidation
<1>3. /\ account \in MarginAccount /\ account.collateralAmount \in Nat
      /\ account.remainingCollateral \in Nat /\ account.snapshot.auctionDuration \in Nat
      /\ valuation.price \in Nat /\ now \in Nat /\ nextAccountId \in Nat
      /\ accountForAuction \in [AuctionIds -> MarginIds \cup {0}]
      /\ accounts \in [MarginIds -> MarginAccount]
      /\ m \in References /\ m \in Nat \ {0} /\ AuctionTypeOK /\ AuctionsSound
  <2>1. account \in MarginAccount /\ account.snapshot \in Snapshot
    BY DEF MInv, MarginTypeOK, MarginAccount
  <2> QED
    BY <2>1, MarginAssumption
       DEF MInv, MarginTypeOK, MarginAccount, Snapshot, FeedTypeOK, Valuation, PoolsInv
<1>4. new = Frozen(account, "LIQUIDATING", x, x)
    BY <1>1, <1>3 DEF Begun, Frozen, MarginAccount
<1>5. /\ new \in MarginAccount /\ new.status = "LIQUIDATING" /\ new.auctionId = x
      /\ new.claimPoolId = x /\ new.seller = account.seller
      /\ new.collateralAmount = account.collateralAmount
      /\ Decided(m, new)
  <2>1. PICK status \in {"LIQUIDATING", "AUCTION_FAILED"}, remaining \in Nat :
            status = "LIQUIDATING" /\ remaining = account.remainingCollateral
    BY <1>3
  <2>2. /\ new = Begun(accounts[m], status, x, x, remaining)
        /\ status = "AUCTION_FAILED" => remaining = accounts[m].collateralAmount
        /\ x \in AuctionIds \cup {0}
    BY <1>1, <2>1
  <2>3. new \in MarginAccount /\ Decided(m, new) /\ InPool(m, new, status, x, x, remaining)
    BY <1>2, <2>2, CloseoutBegins
  <2> QED
    BY <2>1, <2>3 DEF InPool
<1>6. /\ accounts' = [accounts EXCEPT ![m] = new] /\ accounts'[m] = new
      /\ accountForAuction'[x] = m
      /\ accountForAuction' \in [AuctionIds -> MarginIds \cup {0}]
      /\ \A y \in AuctionIds \ {x} : accountForAuction'[y] = accountForAuction[y]
    BY <1>2, <1>3, <1>4
<1>7. /\ VaultTypeOK' /\ marginLocked'[m] = EmptyBucket
      /\ \A n \in MarginIds \ {m} : marginLocked'[n] = marginLocked[n]
      /\ \A y \in AuctionIds \ {x} : auctionLocked'[y] = auctionLocked[y]
      /\ auctionLocked'[x] = HeldFor(account.seller, account.collateralAmount)
    BY <1>2, PoolFilled
<1>8. AuctionTypeOK' /\ AuctionsSound'
  <2>1. value \in Nat
    BY <1>3, CollateralValueType
  <2>2. PICK start, floor \in Nat :
            start = AuctionStart(account, value) /\ floor = AuctionFloor(account, value)
    BY <1>3, <2>1, LiquidationPriceType
  <2>3. Create(m, account.collateralAmount, start, floor, account.snapshot.auctionDuration)
    BY <1>2, <2>2
  <2>4. now' = now
    BY <1>2
  <2> HIDE DEF account, value
  <2>5. account.collateralAmount \in Nat /\ account.snapshot.auctionDuration \in Nat
    BY <1>3
  <2> QED
    BY <1>3, <2>3, <2>4, <2>5, CreateType
<1>9. /\ x < IN_KIND_AUCTION_OFFSET /\ accountForAuction[x] = 0
      /\ \A n \in MarginIds : ~LiesIn(n, x)
      /\ nextAuctionId' = x + 1 /\ x \in Nat
    BY <1>0, <1>2, NextPoolIsFree, AuctionIdsAssumption DEF Create
<1>10. NettingSetSound(m)'
  <2>1. PoolNamed(m)'
    BY <1>5, <1>6 DEF PoolNamed
  <2>2. UNCHANGED <<exposures, nextAccountId>>
    BY <1>2
  <2> QED
    BY <1>5, <1>6, <1>7, <2>1, <2>2, DecidedIsSound
<1>11. RecordsInv' /\ accounts' \in [MarginIds -> MarginAccount]
  <2>1. /\ \A y \in AuctionIds : accountForAuction[y] # 0
              => accountForAuction'[y] = accountForAuction[y]
        /\ new.status # "NONE" /\ accounts[m].status \notin {"LIQUIDATED", "AUCTION_FAILED"}
        /\ nextAccountId' \in Nat /\ nextAccountId <= nextAccountId'
    BY <1>2, <1>3, <1>5, <1>6, <1>9 DEF Running
  <2>2. UNCHANGED <<exposures, nextExposureId, now>>
    BY <1>2
  <2> QED
    BY <1>5, <1>6, <1>7, <1>10, <2>1, <2>2, AccountReplaced
<1>12. \A y \in AuctionIds : PoolCustody(y)'
  <2>1. \A y \in AuctionIds \ {x} : /\ auctionLocked'[y] = auctionLocked[y]
                                    /\ ~LiesIn(m, y) /\ ~LiesIn(m, y)'
    BY <1>2, <1>5, <1>6, <1>7 DEF LiesIn, Running
  <2>2. \A n \in MarginIds \ {m} : ~LiesIn(n, x)
    BY <1>9
  <2>3. LiesIn(m, x)' /\ auctionLocked'[x] = PoolOf(new)
    BY <1>5, <1>6, <1>7 DEF LiesIn, PoolOf
  <2> QED
    BY <1>5, <1>6, <2>1, <2>2, <2>3, PoolChanged
<1>13. PoolsApart'
    BY <1>0, <1>3, <1>6, <1>9, MarginAssumption, AuctionIdsAssumption
       DEF PoolsApart, MInv, PoolsInv
<1>14. MarginTypeOK'
    BY <1>2, <1>6, <1>7, <1>8, <1>11, Frames DEF MInv, MarginTypeOK, adminVars
<1> QED
    BY <1>8, <1>11, <1>12, <1>13, <1>14 DEF MInv, PoolsInv

\* A closeout in kind moves the whole account into its own pool.
LEMMA StartInKindOracleFallbackStep ==
    ASSUME MInv, NEW m \in MarginIds, StartInKindOracleFallback(m)
    PROVE  MInv'
<1> DEFINE account == accounts[m]
<1>0. PICK x : x = InKindPool(m)
    OBVIOUS
<1>1. PICK new : new = Begun(account, "AUCTION_FAILED", 0, x, account.collateralAmount)
    OBVIOUS
<1>2. /\ account.status \in Running /\ account.paymentDefaultDeclared
      /\ SetAccount(m, new) /\ AllocateMarginAuction(account.seller, m, x)
      /\ UNCHANGED <<exposures, auctionVars, escrowVars, riskVars, feedVars, now>>
    BY <1>0, <1>1 DEF StartInKindOracleFallback, CanStartInKindOracleFallback, Begun
<1>3. /\ account \in MarginAccount /\ account.collateralAmount \in Nat
      /\ account.totalFaceDebt # 0 /\ nextAccountId \in Nat
      /\ accounts \in [MarginIds -> MarginAccount]
    BY <1>2, RunningFacts DEF MInv, MarginTypeOK
<1>4. x \in AuctionIds /\ \A n \in MarginIds : ~LiesIn(n, x)
    BY <1>0, <1>2, InKindPoolIsFree
<1>5. /\ new \in MarginAccount /\ new.status = "AUCTION_FAILED"
      /\ new.claimPoolId = x /\ new.seller = account.seller
      /\ new.collateralAmount = account.collateralAmount
      /\ new.remainingCollateral = account.collateralAmount
      /\ Decided(m, new)
  <2>1. PICK status \in {"LIQUIDATING", "AUCTION_FAILED"}, none \in AuctionIds \cup {0},
             remaining \in Nat :
            status = "AUCTION_FAILED" /\ none = 0 /\ remaining = account.collateralAmount
    BY <1>3
  <2>2. /\ new = Begun(accounts[m], status, none, x, remaining)
        /\ status = "AUCTION_FAILED" => remaining = accounts[m].collateralAmount
    BY <1>1, <2>1
  <2>3. new \in MarginAccount /\ Decided(m, new) /\ InPool(m, new, status, none, x, remaining)
    BY <1>2, <1>3, <1>4, <2>2, CloseoutBegins
  <2> QED
    BY <2>1, <2>3 DEF InPool
<1>6. /\ accounts' = [accounts EXCEPT ![m] = new] /\ accounts'[m] = new
      /\ UNCHANGED <<nextAccountId, nextExposureId, accountForAuction, adminVars, interventions>>
    BY <1>2, <1>3 DEF SetAccount
<1>7. /\ VaultTypeOK' /\ marginLocked'[m] = EmptyBucket
      /\ \A n \in MarginIds \ {m} : marginLocked'[n] = marginLocked[n]
      /\ \A y \in AuctionIds \ {x} : auctionLocked'[y] = auctionLocked[y]
      /\ auctionLocked'[x] = HeldFor(account.seller, account.collateralAmount)
    BY <1>2, <1>4, PoolFilled
<1>8. NettingSetSound(m)'
  <2>1. PoolNamed(m)'
    BY <1>0, <1>4, <1>5, <1>6 DEF PoolNamed
  <2>2. UNCHANGED <<exposures, nextAccountId>>
    BY <1>2, <1>6
  <2> QED
    BY <1>5, <1>6, <1>7, <2>1, <2>2, DecidedIsSound
<1>9. RecordsInv' /\ accounts' \in [MarginIds -> MarginAccount]
  <2>1. /\ \A y \in AuctionIds : accountForAuction[y] # 0
              => accountForAuction'[y] = accountForAuction[y]
        /\ new.status # "NONE" /\ accounts[m].status \notin {"LIQUIDATED", "AUCTION_FAILED"}
        /\ nextAccountId' \in Nat /\ nextAccountId <= nextAccountId'
    BY <1>2, <1>3, <1>5, <1>6 DEF Running
  <2>2. UNCHANGED <<exposures, nextExposureId, now>>
    BY <1>2, <1>6
  <2> QED
    BY <1>5, <1>6, <1>7, <1>8, <2>1, <2>2, AccountReplaced
<1>10. \A y \in AuctionIds : PoolCustody(y)'
  <2>1. \A y \in AuctionIds \ {x} : /\ auctionLocked'[y] = auctionLocked[y]
                                    /\ ~LiesIn(m, y) /\ ~LiesIn(m, y)'
    BY <1>2, <1>5, <1>6, <1>7 DEF LiesIn, Running
  <2>2. \A n \in MarginIds \ {m} : ~LiesIn(n, x)
    BY <1>4
  <2>3. LiesIn(m, x)' /\ auctionLocked'[x] = PoolOf(new)
    BY <1>5, <1>6, <1>7 DEF LiesIn, PoolOf
  <2> QED
    BY <1>4, <1>5, <1>6, <2>1, <2>2, <2>3, PoolChanged
<1>11. PoolsApart' /\ AuctionsSound'
    BY <1>2, <1>6, AuctionsKept
<1>12. MarginTypeOK'
    BY <1>2, <1>6, <1>7, <1>9, AccountTypes DEF MInv
<1> QED
    BY <1>9, <1>10, <1>11, <1>12 DEF MInv, PoolsInv

\* A sale price is split among lenders, treasury and seller, and nothing of it is lost.
LEMMA SaleSplit ==
    ASSUME NEW account \in MarginAccount, NEW price \in Nat
    PROVE  /\ LenderPool(account, price) \in Nat /\ LiquidationFee(account, price) \in Nat
           /\ SellerSurplus(account, price) \in Nat
           /\ LenderPool(account, price) + LiquidationFee(account, price)
                 + SellerSurplus(account, price) = price
<1>1. /\ account.frozenDebt \in Nat /\ account.snapshot.liquidationFeeBps \in Nat
      /\ BPS_DENOMINATOR \in Nat \ {0}
  <2>1. account.snapshot \in Snapshot
    BY DEF MarginAccount
  <2> QED
    BY <2>1, ScalesAssumption DEF MarginAccount, Snapshot
<1>2. PICK cut \in Nat :
          cut = MulDivCeil(price, account.snapshot.liquidationFeeBps, BPS_DENOMINATOR)
    BY <1>1, MulDivType
<1>3. PICK pool \in Nat : pool = LenderPool(account, price) /\ pool <= price
    BY <1>1 DEF LenderPool, Min2
<1>4. LiquidationFee(account, price) = Min2(price - pool, cut)
    BY <1>2, <1>3 DEF LiquidationFee
<1>5. PICK fee \in Nat : fee = LiquidationFee(account, price) /\ fee <= price - pool
    BY <1>3, <1>4 DEF Min2
<1>6. SellerSurplus(account, price) = price - pool - fee
    BY <1>3, <1>5 DEF SellerSurplus
<1> QED
    BY <1>3, <1>5, <1>6

\* What the invariant says of the account an auction decides.
LEMMA AuctionFacts ==
    ASSUME MInv, NEW x \in AuctionIds, NEW m \in MarginIds, InAuction(x, m)
    PROVE  /\ accounts[m] \in MarginAccount /\ accounts[m].status = "LIQUIDATING"
           /\ accounts[m].seller \in Account /\ accounts[m].claimPoolId = x
           /\ LiesIn(m, x) /\ marginLocked[m] = EmptyBucket
           /\ auctionLocked[x] = HeldFor(accounts[m].seller, accounts[m].collateralAmount)
           /\ \A n \in MarginIds \ {m} : ~LiesIn(n, x)
           /\ \A y \in AuctionIds \ {x} : ~LiesIn(m, y)
           /\ accounts[m].remainingProceeds = 0
<1>1. /\ accounts[m].status = "LIQUIDATING" /\ accounts[m].auctionId = x
      /\ accounts[m] \in MarginAccount /\ NettingSetSound(m) /\ PoolCustody(x)
    BY DEF InAuction, MInv, MarginTypeOK, RecordsInv, PoolsInv
<1>2. accounts[m].claimPoolId = x
    BY <1>1 DEF NettingSetSound, AccountSound, PoolNamed
<1>3. LiesIn(m, x) /\ \A y \in AuctionIds \ {x} : ~LiesIn(m, y)
    BY <1>1, <1>2 DEF LiesIn
<1>4. \A n \in MarginIds \ {m} : ~LiesIn(n, x)
    BY <1>3, PoolIsOneAccounts
<1>5. accounts[m].seller \in Account /\ accounts[m].remainingProceeds = 0
    BY <1>1 DEF NettingSetSound, AccountSound
<1>6. marginLocked[m] = EmptyBucket
    BY <1>1 DEF NettingSetSound, AccountCustody, Running
<1>7. auctionLocked[x] = HeldFor(accounts[m].seller, accounts[m].collateralAmount)
    BY <1>1, <1>3 DEF PoolCustody, PoolOf
<1> QED
    BY <1>1, <1>2, <1>3, <1>4, <1>5, <1>6, <1>7

\* A live auction's price is a natural number.
LEMMA LivePrice ==
    ASSUME MInv, NEW x \in AuctionIds, auctions[x].status = "LIVE"
    PROVE  PriceAt(auctions[x], now) \in Nat
<1>1. auctions[x] \in Auction /\ AuctionSound(auctions[x]) /\ now \in Nat
    BY DEF MInv, MarginTypeOK, AuctionTypeOK, PoolsInv, AuctionsSound
<1> QED
    BY <1>1, PriceRange DEF AuctionSound

\* A sale hands the pool to the buyer and leaves the lenders' part of the price to them.
LEMMA BuyMarginAuctionStep ==
    ASSUME MInv, NEW a \in Account, NEW x \in AuctionIds, NEW limit \in Limits,
           BuyMarginAuction(a, x, limit)
    PROVE  MInv'
<1>0. PICK price : price = PriceAt(auctions[x], now)
    OBVIOUS
<1>1. PICK m \in MarginIds :
        /\ InAuction(x, m) /\ MarkSold(x, a, limit) /\ CanPay(book, a, price)
        /\ CanRecordClaims(PaidToEscrow(book, a, price), price - LenderPool(accounts[m], price))
        /\ book' = WithClaim(WithClaim(PaidToEscrow(book, a, price),
                                       FeeTreasury, LiquidationFee(accounts[m], price)),
                             accounts[m].seller, SellerSurplus(accounts[m], price))
        /\ SetAccount(m, [accounts[m] EXCEPT
                            !.status = "LIQUIDATED",
                            !.liquidationProceeds = LenderPool(accounts[m], price),
                            !.remainingProceeds = LenderPool(accounts[m], price)])
        /\ ReleaseAuction(x, a)
        /\ UNCHANGED <<exposures, compliant, riskVars, feedVars, now>>
    BY <1>0 DEF BuyMarginAuction
<1> DEFINE account == accounts[m]
<1>2. /\ account \in MarginAccount /\ account.status = "LIQUIDATING"
      /\ account.seller \in Account
      /\ LiesIn(m, x) /\ marginLocked[m] = EmptyBucket
      /\ \A n \in MarginIds \ {m} : ~LiesIn(n, x)
      /\ \A y \in AuctionIds \ {x} : ~LiesIn(m, y)
    BY <1>1, AuctionFacts
<1>3. price \in Nat
    BY <1>0, <1>1, LivePrice DEF MarkSold
<1>4. PICK pool, fee, surplus \in Nat :
          /\ pool = LenderPool(account, price) /\ fee = LiquidationFee(account, price)
          /\ surplus = SellerSurplus(account, price)
    BY <1>2, <1>3, SaleSplit
<1>5. PICK new : new = [account EXCEPT !.status = "LIQUIDATED", !.liquidationProceeds = pool,
                                       !.remainingProceeds = pool]
    OBVIOUS
<1>6. /\ new \in MarginAccount /\ new.status = "LIQUIDATED" /\ Decided(m, new)
  <2>1. /\ new \in MarginAccount /\ new.status = "LIQUIDATED"
        /\ new.liquidationProceeds = pool /\ new.remainingProceeds = pool
        /\ new.seller = account.seller /\ new.mandate = account.mandate
        /\ new.totalFunded = account.totalFunded /\ new.feeCharged = account.feeCharged
        /\ new.collateralAmount = account.collateralAmount
        /\ new.paymentDefaultDeclared = account.paymentDefaultDeclared
        /\ new.defaultDeclaredAt = account.defaultDeclaredAt
        /\ new.frozenDebt = account.frozenDebt
        /\ new.unclaimedExposureCount = account.unclaimedExposureCount
    BY <1>2, <1>4, <1>5 DEF MarginAccount, AccountStatus
  <2> QED
    BY <1>2, <2>1 DEF Decided, ClosedOut, Running
<1>7. /\ accounts' = [accounts EXCEPT ![m] = new] /\ accounts'[m] = new
      /\ UNCHANGED <<nextAccountId, nextExposureId, accountForAuction, adminVars, interventions>>
      /\ nextAccountId \in Nat
    BY <1>1, <1>4, <1>5 DEF SetAccount, MInv, MarginTypeOK
<1>8. /\ auctionLocked' = [auctionLocked EXCEPT ![x] = EmptyBucket] /\ UNCHANGED marginLocked
      /\ auctionLocked \in [AuctionIds -> Bucket]
    BY <1>1 DEF ReleaseAuction, MInv, MarginTypeOK, VaultTypeOK
<1>9. NettingSetSound(m)'
  <2>1. PoolNamed(m)' /\ marginLocked'[m] = EmptyBucket
    BY <1>2, <1>6, <1>7, <1>8 DEF PoolNamed
  <2>2. UNCHANGED <<exposures, nextAccountId>>
    BY <1>1, <1>7
  <2> QED
    BY <1>6, <1>7, <2>1, <2>2, DecidedIsSound
<1>10. RecordsInv' /\ accounts' \in [MarginIds -> MarginAccount]
  <2>1. /\ \A y \in AuctionIds : accountForAuction[y] # 0
              => accountForAuction'[y] = accountForAuction[y]
        /\ new.status # "NONE" /\ accounts[m].status \notin {"LIQUIDATED", "AUCTION_FAILED"}
        /\ nextAccountId' \in Nat /\ nextAccountId <= nextAccountId'
        /\ \A n \in MarginIds \ {m} : marginLocked'[n] = marginLocked[n]
    BY <1>2, <1>6, <1>7, <1>8
  <2>2. UNCHANGED <<exposures, nextExposureId, now>>
    BY <1>1, <1>7
  <2> QED
    BY <1>6, <1>7, <1>9, <2>1, <2>2, AccountReplaced
<1>11. \A y \in AuctionIds : PoolCustody(y)'
  <2>1. \A y \in AuctionIds \ {x} : /\ auctionLocked'[y] = auctionLocked[y]
                                    /\ ~LiesIn(m, y) /\ ~LiesIn(m, y)'
    BY <1>2, <1>6, <1>7, <1>8 DEF LiesIn
  <2>2. ~LiesIn(m, x)' /\ auctionLocked'[x] = EmptyBucket
    BY <1>6, <1>7, <1>8 DEF LiesIn
  <2> QED
    BY <1>2, <1>6, <1>7, <2>1, <2>2, PoolChanged
<1>12. AuctionTypeOK' /\ AuctionsSound' /\ PoolsApart'
  <2>1. limit \in Nat /\ now \in Nat /\ now' = now /\ AuctionTypeOK /\ AuctionsSound
    BY <1>1, MarginAssumption DEF MInv, MarginTypeOK, PoolsInv
  <2>2. AuctionTypeOK' /\ AuctionsSound'
    BY <1>1, <2>1, MarkSoldType
  <2>3. PoolsApart'
    BY <1>1, <1>7 DEF MarkSold, MInv, PoolsInv, PoolsApart
  <2> QED
    BY <2>2, <2>3
<1>13. EscrowTypeOK'
  <2>1. book \in Book /\ compliant \subseteq Account /\ FeeTreasury \in Account
    BY MarginAssumption DEF MInv, MarginTypeOK, EscrowTypeOK
  <2>2. PICK deposited \in Book : deposited = PaidToEscrow(book, a, price)
    BY <1>1, <1>3, <2>1, PaidToEscrowType
  <2>3. PICK charged \in Book : charged = WithClaim(deposited, FeeTreasury, fee)
    BY <2>1, WithClaimType
  <2>4. WithClaim(charged, account.seller, surplus) \in Book
    BY <1>2, WithClaimType
  <2> QED
    BY <1>1, <1>4, <2>1, <2>2, <2>3, <2>4 DEF EscrowTypeOK
<1>14. VaultTypeOK'
  <2>1. VaultCall(a, a, 0)
    BY <1>1 DEF VaultCall
  <2> QED
    BY <2>1, VaultCallType DEF MInv, MarginTypeOK
<1>15. MarginTypeOK'
    BY <1>1, <1>7, <1>10, <1>12, <1>13, <1>14, Frames DEF MInv, MarginTypeOK, adminVars
<1> QED
    BY <1>10, <1>11, <1>12, <1>15 DEF MInv, PoolsInv

\* A failed auction leaves the pool whole for the lenders.
LEMMA FinalizeFailedMarginAuctionStep ==
    ASSUME MInv, NEW x \in AuctionIds, FinalizeFailedMarginAuction(x)
    PROVE  MInv'
<1>1. PICK m \in MarginIds :
        /\ InAuction(x, m) /\ MarkFailed(x)
        /\ SetAccount(m, [accounts[m] EXCEPT !.status = "AUCTION_FAILED",
                                             !.remainingCollateral = accounts[m].collateralAmount])
        /\ UNCHANGED <<exposures, vaultVars, escrowVars, riskVars, feedVars, now>>
    BY DEF FinalizeFailedMarginAuction
<1> DEFINE account == accounts[m]
<1>2. /\ account \in MarginAccount /\ account.status = "LIQUIDATING"
      /\ account.claimPoolId = x /\ marginLocked[m] = EmptyBucket
      /\ account.collateralAmount \in Nat /\ account.remainingProceeds = 0
    BY <1>1, AuctionFacts DEF MarginAccount
<1>3. PICK new : new = [account EXCEPT !.status = "AUCTION_FAILED",
                                       !.remainingCollateral = account.collateralAmount]
    OBVIOUS
<1>4. /\ new \in MarginAccount /\ new.status = "AUCTION_FAILED"
      /\ new.claimPoolId = account.claimPoolId
      /\ new.remainingCollateral = account.collateralAmount
      /\ new.seller = account.seller /\ new.mandate = account.mandate
      /\ new.totalFunded = account.totalFunded /\ new.feeCharged = account.feeCharged
      /\ new.collateralAmount = account.collateralAmount
      /\ new.paymentDefaultDeclared = account.paymentDefaultDeclared
      /\ new.defaultDeclaredAt = account.defaultDeclaredAt
      /\ new.frozenDebt = account.frozenDebt
      /\ new.unclaimedExposureCount = account.unclaimedExposureCount
      /\ new.remainingProceeds = account.remainingProceeds
    BY <1>2, <1>3 DEF MarginAccount, AccountStatus
<1>5. Decided(m, new)
    BY <1>2, <1>4 DEF Decided, ClosedOut, Running
<1>6. /\ accounts' = [accounts EXCEPT ![m] = new] /\ accounts'[m] = new
      /\ UNCHANGED <<nextAccountId, nextExposureId, accountForAuction, adminVars, interventions>>
      /\ UNCHANGED <<marginLocked, auctionLocked>> /\ nextAccountId \in Nat
    BY <1>1, <1>3 DEF SetAccount, MInv, MarginTypeOK, vaultVars, bucketVars
<1>7. NettingSetSound(m)'
  <2>1. PoolNamed(m)' /\ marginLocked'[m] = EmptyBucket
    BY <1>1, <1>2, <1>4, <1>6 DEF PoolNamed, InAuction
  <2>2. UNCHANGED <<exposures, nextAccountId>>
    BY <1>1, <1>6
  <2> QED
    BY <1>4, <1>5, <1>6, <2>1, <2>2, DecidedIsSound
<1>8. RecordsInv' /\ accounts' \in [MarginIds -> MarginAccount]
  <2>1. /\ \A y \in AuctionIds : accountForAuction[y] # 0
              => accountForAuction'[y] = accountForAuction[y]
        /\ new.status # "NONE" /\ accounts[m].status \notin {"LIQUIDATED", "AUCTION_FAILED"}
        /\ nextAccountId' \in Nat /\ nextAccountId <= nextAccountId'
        /\ \A n \in MarginIds \ {m} : marginLocked'[n] = marginLocked[n]
    BY <1>2, <1>4, <1>6
  <2>2. UNCHANGED <<exposures, nextExposureId, now>>
    BY <1>1, <1>6
  <2> QED
    BY <1>4, <1>6, <1>7, <2>1, <2>2, AccountReplaced
<1>9. \A y \in AuctionIds : PoolCustody(y)'
  <2>1. \A y \in AuctionIds : LiesIn(m, y)' <=> LiesIn(m, y)
    BY <1>2, <1>4, <1>6 DEF LiesIn
  <2>2. PoolOf(new) = PoolOf(accounts[m])
    BY <1>2, <1>4 DEF PoolOf
  <2> QED
    BY <1>4, <1>6, <2>1, <2>2, PoolsUntouched
<1>10. AuctionTypeOK' /\ AuctionsSound' /\ PoolsApart'
  <2>1. now \in Nat /\ now' = now /\ AuctionTypeOK /\ AuctionsSound
    BY <1>1 DEF MInv, MarginTypeOK, PoolsInv
  <2>2. AuctionTypeOK' /\ AuctionsSound'
    BY <1>1, <2>1, MarkFailedType
  <2>3. PoolsApart'
    BY <1>1, <1>6 DEF MarkFailed, MInv, PoolsInv, PoolsApart
  <2> QED
    BY <2>2, <2>3
<1>11. MarginTypeOK'
    BY <1>1, <1>6, <1>8, <1>10, Frames DEF MInv, MarginTypeOK, adminVars
<1> QED
    BY <1>8, <1>9, <1>10, <1>11 DEF MInv, PoolsInv

-----------------------------------------------------------------------------
(* The lenders' claims.                                                     *)

\* A claim takes its share out of what is left, and the last one everything.
LEMMA LeftAfterClaim ==
    ASSUME MInv, NEW m \in MarginIds, NEW e \in ExposureIds, exposures[e].accountId = m,
           exposures[e].status = "ACTIVE", NEW status \in Claimed,
           exposures' = [exposures EXCEPT ![e].status = status],
           accounts'[m].frozenDebt = accounts[m].frozenDebt, accounts[m].frozenDebt > 0,
           accounts[m].unclaimedExposureCount = Cardinality(ExposuresOf(m, {"ACTIVE"})),
           NEW pool \in Nat, NEW remaining \in Nat, LeftOf(m, pool, remaining), NEW amount,
           amount = ProRataShare(accounts[m], exposures[e], pool, remaining)
    PROVE  LeftOf(m, pool, remaining - amount)'
<1>1. /\ exposures \in [ExposureIds -> Exposure] /\ accounts[m] \in MarginAccount
      /\ accounts[m].frozenDebt \in Nat \ {0}
    BY DEF MInv, MarginTypeOK, MarginAccount
<1>2. status \in ExposureStatus \ {"ACTIVE", "NONE"} /\ status # "ACTIVE"
    BY DEF Claimed, ExposureStatus
<1>3. \A i \in ExposureIds : /\ exposures'[i].accountId = exposures[i].accountId
                             /\ exposures'[i].faceDebt = exposures[i].faceDebt
                             /\ exposures[i].faceDebt \in Nat
                             /\ i # e => exposures'[i].status = exposures[i].status
    BY <1>1 DEF Exposure
<1>4. exposures'[e].status = status
    BY <1>1 DEF Exposure
<1>5. PICK f : f = SharesIn(m, pool)
    OBVIOUS
<1>6. \A i \in ExposureIds :
          f[i] = MulDiv(pool, exposures[i].faceDebt, accounts[m].frozenDebt) /\ f[i] \in Nat
    BY <1>1, <1>3, <1>5, MulDivType DEF SharesIn
<1>7. SharesIn(m, pool)' = f
    BY <1>3, <1>5 DEF SharesIn
<1>8. PICK active, taken : active = ExposuresOf(m, {"ACTIVE"}) /\ taken = ExposuresOf(m, Claimed)
    OBVIOUS
<1>9. /\ e \in active /\ e \notin taken /\ active \subseteq ExposureIds /\ taken \subseteq ExposureIds
      /\ IsFiniteSet(active) /\ IsFiniteSet(taken)
  <2>1. /\ e \in active /\ e \notin taken /\ active \subseteq ExposureIds
        /\ taken \subseteq ExposureIds
    BY <1>8 DEF ExposuresOf, Claimed
  <2> QED
    BY <2>1, MarginAssumption, FS_Subset
<1>10. /\ ExposuresOf(m, {"ACTIVE"})' = active \ {e}
       /\ ExposuresOf(m, Claimed)' = taken \cup {e}
    BY <1>2, <1>3, <1>4, <1>8 DEF ExposuresOf
<1>11. remaining = pool - SumFunctionOnSet(f, taken) /\ SumFunctionOnSet(f, taken) \in Nat
  <2>1. \A i \in taken : f[i] \in Nat
    BY <1>6, <1>9
  <2>2. SumFunctionOnSet(f, taken) \in Nat
    BY <1>9, <2>1, SumNat
  <2> QED
    BY <1>5, <1>8, <1>9, <2>2 DEF LeftOf
<1>12. SumFunctionOnSet(f, taken \cup {e}) = SumFunctionOnSet(f, taken) + f[e]
  <2>1. PICK whole : whole = taken \cup {e}
    OBVIOUS
  <2>2. e \in whole /\ whole \ {e} = taken /\ whole \subseteq ExposureIds
    BY <1>9, <2>1
  <2>3. IsFiniteSet(whole)
    BY <2>2, MarginAssumption, FS_Subset
  <2>4. \A i \in whole : f[i] \in Int
    BY <1>6, <2>2
  <2>5. SumFunctionOnSet(f, whole) = f[e] + SumFunctionOnSet(f, whole \ {e})
    BY <2>2, <2>3, <2>4, SumTake
  <2>6. SumFunctionOnSet(f, taken) \in Nat /\ f[e] \in Nat
    BY <1>6, <1>11
  <2> QED
    BY <2>1, <2>2, <2>5, <2>6
<1>13. Cardinality(active) = 1 <=> active \ {e} = {}
  <2>1. Cardinality(active \ {e}) = Cardinality(active) - 1 /\ IsFiniteSet(active \ {e})
    BY <1>9, FS_RemoveElement
  <2>2. Cardinality(active) \in Nat /\ (Cardinality(active \ {e}) = 0 <=> active \ {e} = {})
    BY <1>9, <2>1, FS_EmptySet, FS_CardinalityType
  <2> QED
    BY <2>1, <2>2
<1>14. amount = IF active \ {e} = {} THEN remaining ELSE f[e]
    BY <1>6, <1>8, <1>13 DEF ProRataShare
<1>15. CASE active \ {e} = {}
    BY <1>10, <1>14, <1>15 DEF LeftOf
<1>16. CASE active \ {e} # {}
  <2>1. remaining - amount = pool - SumFunctionOnSet(f, taken \cup {e})
    BY <1>6, <1>11, <1>12, <1>14, <1>16
  <2> QED
    BY <1>7, <1>10, <1>16, <2>1 DEF LeftOf
<1> QED
    BY <1>15, <1>16

\* How an account that is closed out changes when one of its lenders claims `amount`.
ClaimMade(m, e, new, amount) ==
    LET account == accounts[m]
    IN  /\ new.status = account.status
        /\ new.seller = account.seller /\ new.mandate = account.mandate
        /\ new.totalFunded = account.totalFunded /\ new.feeCharged = account.feeCharged
        /\ new.paymentDefaultDeclared = account.paymentDefaultDeclared
        /\ new.defaultDeclaredAt = account.defaultDeclaredAt
        /\ new.auctionId = account.auctionId /\ new.claimPoolId = account.claimPoolId
        /\ new.collateralAmount = account.collateralAmount
        /\ new.liquidationProceeds = account.liquidationProceeds
        /\ new.frozenDebt = account.frozenDebt
        /\ new.unclaimedExposureCount = account.unclaimedExposureCount - 1
        /\ \/ /\ account.status = "LIQUIDATED" /\ exposures'[e].status = "PROCEEDS_CLAIMED"
              /\ amount = ProRataShare(account, exposures[e], account.liquidationProceeds,
                                       account.remainingProceeds)
              /\ new.remainingProceeds = account.remainingProceeds - amount
           \/ /\ account.status = "AUCTION_FAILED" /\ exposures'[e].status = "COLLATERAL_CLAIMED"
              /\ amount = ProRataShare(account, exposures[e], account.collateralAmount,
                                       account.remainingCollateral)
              /\ new.remainingCollateral = account.remainingCollateral - amount
              /\ new.remainingProceeds = account.remainingProceeds

\* What the invariant says of an account one of whose lenders can claim.
LEMMA ClaimFacts ==
    ASSUME MInv, NEW m \in MarginIds, NEW e \in ExposureIds, exposures[e].accountId = m,
           exposures[e].status = "ACTIVE", accounts[m].status \in {"LIQUIDATED", "AUCTION_FAILED"}
    PROVE  /\ accounts[m] \in MarginAccount /\ exposures[e] \in Exposure
           /\ exposures[e].lender \in Account
           /\ accounts[m].frozenDebt \in Nat \ {0} /\ exposures[e].faceDebt \in Nat
           /\ accounts[m].unclaimedExposureCount = Cardinality(ExposuresOf(m, {"ACTIVE"}))
           /\ accounts[m].unclaimedExposureCount - 1 \in Nat
           /\ marginLocked[m] = EmptyBucket
<1>1. /\ accounts[m] \in MarginAccount /\ NettingSetSound(m) /\ ExposureSound(e)
      /\ exposures \in [ExposureIds -> Exposure]
    BY DEF MInv, MarginTypeOK, RecordsInv
<1>2. /\ accounts[m].status \in ClosedOut /\ accounts[m].status \notin Running
      /\ exposures[e].status # "NONE"
    BY DEF ClosedOut, Running
<1>3. /\ accounts[m].frozenDebt \in Nat /\ exposures[e].faceDebt \in Nat
      /\ exposures[e] \in Exposure
    BY <1>1 DEF MarginAccount, Exposure
<1>4. PICK active : active = ExposuresOf(m, {"ACTIVE"})
    OBVIOUS
<1>5. e \in active /\ active \in SUBSET ExposureIds
    BY <1>4 DEF ExposuresOf
<1>6. Cardinality(active) \in Nat /\ Cardinality(active) # 0
  <2>1. IsFiniteSet(active)
    BY <1>5, MarginAssumption, FS_Subset
  <2> QED
    BY <1>5, <2>1, FS_CardinalityType, FS_EmptySet
<1>7. accounts[m].unclaimedExposureCount = Cardinality(active)
    BY <1>1, <1>2, <1>4 DEF NettingSetSound, AggregatesRight
<1> QED
    BY <1>1, <1>2, <1>3, <1>4, <1>6, <1>7
       DEF NettingSetSound, AccountSound, AccountCustody, ExposureSound

\* The records stay sound when a lender claims.
LEMMA ClaimStep ==
    ASSUME MInv, NEW m \in MarginIds, NEW e \in ExposureIds, exposures[e].accountId = m,
           exposures[e].status = "ACTIVE", NEW status \in Claimed,
           exposures' = [exposures EXCEPT ![e].status = status],
           NEW new \in MarginAccount, SetAccount(m, new), NEW amount,
           ClaimMade(m, e, new, amount),
           UNCHANGED <<marginLocked, now>>
    PROVE  /\ RecordsInv'
           /\ accounts' \in [MarginIds -> MarginAccount] /\ exposures' \in [ExposureIds -> Exposure]
<1> DEFINE account == accounts[m]
           active == ExposuresOf(m, {"ACTIVE"})
<1>1. /\ accounts' = [accounts EXCEPT ![m] = new] /\ accounts'[m] = new
      /\ UNCHANGED <<nextAccountId, nextExposureId, accountForAuction>>
    BY DEF SetAccount, MInv, MarginTypeOK
<1>2. /\ account.status \in {"LIQUIDATED", "AUCTION_FAILED"} /\ account.status \in ClosedOut
      /\ account.status # "NONE" /\ account.status \notin Running
      /\ account.status \notin {"MARGIN_CALL", "CLOSED", "LIQUIDATING"}
    BY DEF ClaimMade, ClosedOut, Running
<1>3. /\ account \in MarginAccount /\ account.frozenDebt \in Nat \ {0}
      /\ account.unclaimedExposureCount = Cardinality(active)
      /\ marginLocked[m] = EmptyBucket
    BY <1>2, ClaimFacts
<1>4. /\ NettingSetSound(m) /\ exposures \in [ExposureIds -> Exposure] /\ ExposureSound(e)
      /\ nextExposureId \in Nat
    BY DEF MInv, MarginTypeOK, RecordsInv
<1>5. status \in ExposureStatus \ {"ACTIVE", "NONE"} /\ exposures'[e].status = status
    BY <1>4 DEF Claimed, ExposureStatus, Exposure
<1>6. /\ exposures' \in [ExposureIds -> Exposure]
      /\ Cardinality(ExposuresOf(m, {"ACTIVE"})') = Cardinality(ExposuresOf(m, {"ACTIVE"})) - 1
      /\ \A t : Overdue(m, t) => Overdue(m, t)'
    BY <1>5, ActiveLeaves
<1>7. \A i \in ExposureIds : /\ exposures'[i].accountId = exposures[i].accountId
                             /\ exposures'[i].faceDebt = exposures[i].faceDebt
                             /\ i # e => exposures'[i].status = exposures[i].status
    BY <1>4 DEF Exposure
<1>8. AccountSound(m)'
  <2>1. PoolNamed(m)'
    BY <1>1, <1>2, <1>4 DEF NettingSetSound, AccountSound, PoolNamed, ClaimMade
  <2>2. account.status # "LIQUIDATED" => new.remainingProceeds = 0
    BY <1>2, <1>4 DEF NettingSetSound, AccountSound, ClaimMade
  <2> QED
    BY <1>1, <1>2, <1>3, <1>4, <1>6, <2>1, <2>2 DEF NettingSetSound, AccountSound, ClaimMade
<1>9. PoolLeft(m)'
  <2>1. accounts'[m].frozenDebt = accounts[m].frozenDebt /\ accounts[m].frozenDebt > 0
    BY <1>1, <1>3 DEF ClaimMade
  <2>2. CASE account.status = "LIQUIDATED"
    <3>1. PICK pool, remaining \in Nat :
              pool = account.liquidationProceeds /\ remaining = account.remainingProceeds
      BY <1>3 DEF MarginAccount
    <3>2. LeftOf(m, pool, remaining)
      BY <1>4, <2>2, <3>1 DEF NettingSetSound, PoolLeft
    <3>3. amount = ProRataShare(accounts[m], exposures[e], pool, remaining)
      BY <2>2, <3>1 DEF ClaimMade
    <3>4. LeftOf(m, pool, remaining - amount)'
      BY <1>3, <2>1, <3>2, <3>3, LeftAfterClaim
    <3> QED
      BY <1>1, <2>2, <3>1, <3>4 DEF PoolLeft, ClaimMade
  <2>3. CASE account.status = "AUCTION_FAILED"
    <3>1. PICK pool, remaining \in Nat :
              pool = account.collateralAmount /\ remaining = account.remainingCollateral
      BY <1>3 DEF MarginAccount
    <3>2. LeftOf(m, pool, remaining)
      BY <1>4, <2>3, <3>1 DEF NettingSetSound, PoolLeft
    <3>3. amount = ProRataShare(accounts[m], exposures[e], pool, remaining)
      BY <2>3, <3>1 DEF ClaimMade
    <3>4. LeftOf(m, pool, remaining - amount)'
      BY <1>3, <2>1, <3>2, <3>3, LeftAfterClaim
    <3> QED
      BY <1>1, <2>3, <3>1, <3>4 DEF PoolLeft, ClaimMade
  <2> QED
    BY <1>2, <2>2, <2>3
<1>10. AggregatesRight(m)'
  <2>1. ExposuresOf(m, {"ACTIVE"} \cup Claimed)' = ExposuresOf(m, {"ACTIVE"} \cup Claimed)
    BY <1>5, <1>7 DEF ExposuresOf
  <2>2. \A set : FaceDebtOf(set)' = FaceDebtOf(set)
    BY <1>7 DEF FaceDebtOf
  <2>3. new.frozenDebt = FaceDebtOf(ExposuresOf(m, {"ACTIVE"} \cup Claimed))
    BY <1>2, <1>4 DEF NettingSetSound, AggregatesRight, ClaimMade
  <2>4. new.unclaimedExposureCount = Cardinality(ExposuresOf(m, {"ACTIVE"})')
    BY <1>3, <1>6 DEF ClaimMade
  <2>5. new.status \notin Running \cup {"CLOSED", "NONE"}
    BY <1>2 DEF ClaimMade
  <2> QED
    BY <1>1, <2>1, <2>2, <2>3, <2>4, <2>5 DEF AggregatesRight
<1>11. FundedByMandate(m)'
    BY <1>1, <1>5, MandateStillKept DEF ClaimMade
<1>12. AccountCustody(m)'
    BY <1>1, <1>2, <1>3 DEF AccountCustody, ClaimMade
<1>13. NettingSetSound(m)'
    BY <1>8, <1>9, <1>10, <1>11, <1>12 DEF NettingSetSound
<1>14. ExposureSound(e)'
  <2>1. /\ exposures'[e].status = status /\ exposures'[e].accountId = m
        /\ exposures'[e].lender = exposures[e].lender
        /\ exposures'[e].principal = exposures[e].principal
        /\ exposures'[e].faceDebt = exposures[e].faceDebt
    BY <1>4 DEF Exposure
  <2>2. /\ status = "PROCEEDS_CLAIMED" => accounts'[m].status = "LIQUIDATED"
        /\ status = "COLLATERAL_CLAIMED" => accounts'[m].status = "AUCTION_FAILED"
        /\ accounts'[m].status # "NONE"
    BY <1>1, <1>2, <1>5 DEF ClaimMade
  <2> QED
    BY <1>1, <1>4, <1>5, <2>1, <2>2, MarginAssumption DEF ExposureSound
<1>15. PICK exposure \in Exposure : exposure = exposures'[e]
    BY <1>6
<1>16. exposures' = [exposures EXCEPT ![e] = exposure] /\ exposure.accountId = m
    BY <1>4, <1>6, <1>7, <1>15
<1>17. /\ exposures[e].accountId \in {0, m} /\ nextExposureId' \in Nat
       /\ nextExposureId <= nextExposureId' /\ new.status = accounts[m].status
       /\ UNCHANGED <<nextAccountId, accountForAuction, marginLocked, now>>
    BY <1>1, <1>4 DEF ClaimMade
<1>18. RecordsInv' /\ accounts' \in [MarginIds -> MarginAccount]
    BY <1>1, <1>13, <1>14, <1>16, <1>17, ExposureReplaced
<1> QED
    BY <1>6, <1>18

\* A share is a natural number.
LEMMA ShareType ==
    ASSUME NEW account, NEW exposure, NEW pool \in Nat, NEW remaining \in Nat,
           account.frozenDebt \in Nat \ {0}, exposure.faceDebt \in Nat
    PROVE  ProRataShare(account, exposure, pool, remaining) \in Nat
BY MulDivType DEF ProRataShare

\* A claim on the proceeds of a sale becomes a claim against the escrow.
LEMMA MaterializeLiquidationClaimStep ==
    ASSUME MInv, NEW e \in ExposureIds, MaterializeLiquidationClaim(e)
    PROVE  MInv'
<1>1. PICK m, amount :
        /\ m \in MarginIds
        /\ exposures[e].accountId = m /\ exposures[e].status = "ACTIVE"
        /\ accounts[m].status = "LIQUIDATED"
        /\ amount = ProRataShare(accounts[m], exposures[e], accounts[m].liquidationProceeds,
                                 accounts[m].remainingProceeds)
        /\ amount <= accounts[m].remainingProceeds
        /\ exposures' = [exposures EXCEPT ![e].status = "PROCEEDS_CLAIMED"]
        /\ SetAccount(m, [accounts[m] EXCEPT
                            !.unclaimedExposureCount = accounts[m].unclaimedExposureCount - 1,
                            !.remainingProceeds = accounts[m].remainingProceeds - amount])
        /\ book' = WithClaim(book, exposures[e].lender, amount)
        /\ UNCHANGED <<vaultVars, auctionVars, compliant, riskVars, feedVars, now>>
    BY DEF MaterializeLiquidationClaim, CanMaterializeLiquidationClaim, ProceedsShare
<1> DEFINE account == accounts[m]
<1>2. /\ account \in MarginAccount /\ exposures[e] \in Exposure /\ exposures[e].lender \in Account
      /\ account.frozenDebt \in Nat \ {0} /\ exposures[e].faceDebt \in Nat
      /\ account.unclaimedExposureCount - 1 \in Nat
    BY <1>1, ClaimFacts
<1>3. account.liquidationProceeds \in Nat /\ account.remainingProceeds \in Nat
    BY <1>2 DEF MarginAccount
<1>4. amount \in Nat
    BY <1>1, <1>2, <1>3, ShareType
<1>5. PICK unclaimed \in Nat, rest \in Nat :
          /\ unclaimed = account.unclaimedExposureCount - 1
          /\ rest = account.remainingProceeds - amount
    BY <1>1, <1>2, <1>3, <1>4
<1>6. PICK new : new = [account EXCEPT !.unclaimedExposureCount = unclaimed,
                                       !.remainingProceeds = rest]
    OBVIOUS
<1>7. new \in MarginAccount
    BY <1>2, <1>6 DEF MarginAccount
<1>8. /\ new.status = account.status
      /\ new.seller = account.seller /\ new.mandate = account.mandate
      /\ new.totalFunded = account.totalFunded /\ new.feeCharged = account.feeCharged
      /\ new.paymentDefaultDeclared = account.paymentDefaultDeclared
      /\ new.defaultDeclaredAt = account.defaultDeclaredAt
      /\ new.auctionId = account.auctionId /\ new.claimPoolId = account.claimPoolId
      /\ new.collateralAmount = account.collateralAmount
      /\ new.liquidationProceeds = account.liquidationProceeds
      /\ new.frozenDebt = account.frozenDebt
      /\ new.unclaimedExposureCount = unclaimed /\ new.remainingProceeds = rest
      /\ new.remainingCollateral = account.remainingCollateral
    BY <1>2, <1>6 DEF MarginAccount
<1>9. SetAccount(m, new)
    BY <1>1, <1>5, <1>6
<1>10. exposures'[e].status = "PROCEEDS_CLAIMED"
  <2>1. exposures \in [ExposureIds -> Exposure]
    BY DEF MInv, MarginTypeOK
  <2> QED
    BY <1>1, <2>1 DEF Exposure
<1>11. ClaimMade(m, e, new, amount)
    BY <1>1, <1>5, <1>8, <1>10 DEF ClaimMade
<1>12. UNCHANGED <<marginLocked, auctionLocked, now>>
    BY <1>1 DEF vaultVars, bucketVars
<1>13. /\ RecordsInv'
       /\ accounts' \in [MarginIds -> MarginAccount] /\ exposures' \in [ExposureIds -> Exposure]
  <2>1. "PROCEEDS_CLAIMED" \in Claimed
    BY DEF Claimed
  <2> QED
    BY <1>1, <1>7, <1>9, <1>11, <1>12, <2>1, ClaimStep
<1>14. /\ accounts' = [accounts EXCEPT ![m] = new] /\ accounts'[m] = new
       /\ UNCHANGED <<nextAccountId, nextExposureId, accountForAuction, adminVars, interventions>>
    BY <1>1, <1>9 DEF SetAccount, MInv, MarginTypeOK
<1>15. \A x \in AuctionIds : PoolCustody(x)'
  <2>1. /\ \A x \in AuctionIds : LiesIn(m, x)' <=> LiesIn(m, x)
        /\ new.status \notin {"LIQUIDATING", "AUCTION_FAILED"}
    BY <1>1, <1>8, <1>14 DEF LiesIn
  <2> QED
    BY <1>1, <1>7, <1>12, <1>14, <2>1, PoolsUntouched
<1>16. PoolsApart' /\ AuctionsSound'
    BY <1>1, <1>14, AuctionsKept
<1>17. EscrowTypeOK'
  <2>1. book \in Book /\ compliant \subseteq Account
    BY DEF MInv, MarginTypeOK, EscrowTypeOK
  <2>2. WithClaim(book, exposures[e].lender, amount) \in Book
    BY <1>2, <1>4, <2>1, WithClaimType
  <2> QED
    BY <1>1, <2>1, <2>2 DEF EscrowTypeOK
<1>18. MarginTypeOK'
  <2>1. MarginTypeOK /\ nextExposureId' \in Nat \ {0}
    BY <1>14 DEF MInv, MarginTypeOK
  <2> QED
    BY <1>1, <1>13, <1>14, <1>17, <2>1, ExposureTypes
<1> QED
    BY <1>13, <1>15, <1>16, <1>18 DEF MInv, PoolsInv

\* What paying a share out of a pool does to it.
LEMMA PoolPays ==
    ASSUME VaultTypeOK, NEW x \in AuctionIds, NEW b \in Account, NEW owner, NEW held \in Nat,
           NEW amount \in Nat, auctionLocked[x] = HeldFor(owner, held), PayFromPool(x, b, amount)
    PROVE  /\ VaultTypeOK' /\ UNCHANGED marginLocked
           /\ auctionLocked'[x] = HeldFor(owner, held - amount)
           /\ \A y \in AuctionIds \ {x} : auctionLocked'[y] = auctionLocked[y]
<1>1. CASE amount = 0
  <2>1. UNCHANGED vaultVars
    BY <1>1 DEF PayFromPool
  <2> QED
    BY <1>1, <2>1 DEF vaultVars, bucketVars, VaultTypeOK
<1>2. CASE amount # 0
  <2>1. ReleaseAuctionPartial(x, b, amount)
    BY <1>2 DEF PayFromPool
  <2>2. VaultCall(b, b, amount)
    BY <2>1 DEF VaultCall
  <2>3. VaultTypeOK'
    BY <2>2, VaultCallType
  <2>4. /\ CanDebitBucket(auctionLocked[x], amount) /\ UNCHANGED marginLocked
        /\ auctionLocked' = [auctionLocked EXCEPT ![x] = Debited(auctionLocked[x], amount)]
        /\ auctionLocked \in [AuctionIds -> Bucket]
    BY <2>1 DEF ReleaseAuctionPartial, VaultTypeOK
  <2>5. Debited(auctionLocked[x], amount) = HeldFor(owner, held - amount)
    BY <2>4, DebitedHeld
  <2> QED
    BY <2>3, <2>4, <2>5
<1> QED
    BY <1>1, <1>2

\* A claim in kind takes its share out of the pool.
LEMMA ClaimFailedCollateralStep ==
    ASSUME MInv, NEW a \in Account, NEW e \in ExposureIds, NEW b \in Recipients,
           ClaimFailedCollateral(a, e, b)
    PROVE  MInv'
<1>1. PICK m, amount :
        /\ m \in MarginIds
        /\ exposures[e].accountId = m /\ exposures[e].status = "ACTIVE"
        /\ accounts[m].status = "AUCTION_FAILED"
        /\ amount = ProRataShare(accounts[m], exposures[e], accounts[m].collateralAmount,
                                 accounts[m].remainingCollateral)
        /\ amount <= accounts[m].remainingCollateral
        /\ exposures' = [exposures EXCEPT ![e].status = "COLLATERAL_CLAIMED"]
        /\ SetAccount(m, [accounts[m] EXCEPT
                            !.unclaimedExposureCount = accounts[m].unclaimedExposureCount - 1,
                            !.remainingCollateral = accounts[m].remainingCollateral - amount])
        /\ PayFromPool(accounts[m].claimPoolId, b, amount)
        /\ UNCHANGED <<auctionVars, escrowVars, riskVars, feedVars, now>>
    BY DEF ClaimFailedCollateral, CanClaimFailedCollateral, CollateralShare
<1> DEFINE account == accounts[m]
           x == account.claimPoolId
<1>2. /\ account \in MarginAccount /\ exposures[e] \in Exposure
      /\ account.frozenDebt \in Nat \ {0} /\ exposures[e].faceDebt \in Nat
      /\ account.unclaimedExposureCount - 1 \in Nat
    BY <1>1, ClaimFacts
<1>3. account.collateralAmount \in Nat /\ account.remainingCollateral \in Nat
    BY <1>2 DEF MarginAccount
<1>4. amount \in Nat
    BY <1>1, <1>2, <1>3, ShareType
<1>5. PICK unclaimed \in Nat, rest \in Nat :
          /\ unclaimed = account.unclaimedExposureCount - 1
          /\ rest = account.remainingCollateral - amount
    BY <1>1, <1>2, <1>3, <1>4
<1>6. PICK new : new = [account EXCEPT !.unclaimedExposureCount = unclaimed,
                                       !.remainingCollateral = rest]
    OBVIOUS
<1>7. new \in MarginAccount
    BY <1>2, <1>6 DEF MarginAccount
<1>8. /\ new.status = account.status
      /\ new.seller = account.seller /\ new.mandate = account.mandate
      /\ new.totalFunded = account.totalFunded /\ new.feeCharged = account.feeCharged
      /\ new.paymentDefaultDeclared = account.paymentDefaultDeclared
      /\ new.defaultDeclaredAt = account.defaultDeclaredAt
      /\ new.auctionId = account.auctionId /\ new.claimPoolId = account.claimPoolId
      /\ new.collateralAmount = account.collateralAmount
      /\ new.liquidationProceeds = account.liquidationProceeds
      /\ new.frozenDebt = account.frozenDebt
      /\ new.unclaimedExposureCount = unclaimed /\ new.remainingCollateral = rest
      /\ new.remainingProceeds = account.remainingProceeds
    BY <1>2, <1>6 DEF MarginAccount
<1>9. SetAccount(m, new)
    BY <1>1, <1>5, <1>6
<1>10. exposures'[e].status = "COLLATERAL_CLAIMED"
  <2>1. exposures \in [ExposureIds -> Exposure]
    BY DEF MInv, MarginTypeOK
  <2> QED
    BY <1>1, <2>1 DEF Exposure
<1>11. ClaimMade(m, e, new, amount)
    BY <1>1, <1>5, <1>8, <1>10 DEF ClaimMade
<1>12. /\ x \in AuctionIds /\ LiesIn(m, x) /\ \A y \in AuctionIds \ {x} : ~LiesIn(m, y)
       /\ auctionLocked[x] = HeldFor(account.seller, account.remainingCollateral)
  <2>1. x \in AuctionIds /\ LiesIn(m, x) /\ \A y \in AuctionIds \ {x} : ~LiesIn(m, y)
    BY <1>1 DEF MInv, RecordsInv, NettingSetSound, AccountSound, PoolNamed, LiesIn
  <2>2. PoolCustody(x)
    BY <2>1 DEF MInv, PoolsInv
  <2> QED
    BY <1>1, <2>1, <2>2 DEF PoolCustody, PoolOf
<1>13. /\ VaultTypeOK' /\ UNCHANGED marginLocked
       /\ auctionLocked'[x] = HeldFor(account.seller, rest)
       /\ \A y \in AuctionIds \ {x} : auctionLocked'[y] = auctionLocked[y]
  <2>1. VaultTypeOK /\ b \in Account
    BY MarginAssumption DEF MInv, MarginTypeOK
  <2> QED
    BY <1>1, <1>3, <1>4, <1>5, <1>12, <2>1, PoolPays
<1>14. /\ RecordsInv'
       /\ accounts' \in [MarginIds -> MarginAccount] /\ exposures' \in [ExposureIds -> Exposure]
  <2>1. "COLLATERAL_CLAIMED" \in Claimed
    BY DEF Claimed
  <2>2. UNCHANGED <<marginLocked, now>>
    BY <1>1, <1>13
  <2> QED
    BY <1>1, <1>7, <1>9, <1>11, <2>1, <2>2, ClaimStep
<1>15. /\ accounts' = [accounts EXCEPT ![m] = new] /\ accounts'[m] = new
       /\ UNCHANGED <<nextAccountId, nextExposureId, accountForAuction, adminVars, interventions>>
    BY <1>1, <1>9 DEF SetAccount, MInv, MarginTypeOK
<1>16. \A y \in AuctionIds : PoolCustody(y)'
  <2>1. PICK pool \in AuctionIds : pool = x
    BY <1>12
  <2>2. \A y \in AuctionIds \ {pool} : /\ auctionLocked'[y] = auctionLocked[y]
                                       /\ ~LiesIn(m, y) /\ ~LiesIn(m, y)'
    BY <1>8, <1>12, <1>13, <1>15, <2>1 DEF LiesIn
  <2>3. \A n \in MarginIds \ {m} : ~LiesIn(n, pool)
    BY <1>1, <1>12, <2>1, PoolIsOneAccounts
  <2>4. /\ LiesIn(m, pool)' => auctionLocked'[pool] = PoolOf(new)
        /\ ~LiesIn(m, pool)' => auctionLocked'[pool] = EmptyBucket
    BY <1>1, <1>8, <1>12, <1>13, <1>15, <2>1 DEF LiesIn, PoolOf
  <2> QED
    BY <1>1, <1>7, <1>15, <2>2, <2>3, <2>4, PoolChanged
<1>17. PoolsApart' /\ AuctionsSound'
    BY <1>1, <1>15, AuctionsKept
<1>18. MarginTypeOK'
    BY <1>1, <1>13, <1>14, <1>15, Frames DEF MInv, MarginTypeOK, adminVars
<1> QED
    BY <1>14, <1>16, <1>17, <1>18 DEF MInv, PoolsInv

-----------------------------------------------------------------------------
(* The invariant of the engine.                                             *)

LEMMA InitTypes == Init => MarginTypeOK
<1> SUFFICES ASSUME Init PROVE MarginTypeOK
  OBVIOUS
<1>1. VaultTypeOK
  BY VaultAssumption DEF Init, VaultInit, VaultTypeOK, EmptyBucket, Bucket
<1>2. AuctionTypeOK
  BY AuctionIdsAssumption DEF Init, AuctionInit, AuctionTypeOK, NoAuction, Auction, AuctionStatus
<1>3. EscrowTypeOK
  BY CashAssumption DEF Init, EscrowInit, EscrowTypeOK, Book
<1>4. RiskTypeOK
  BY RiskAssumption DEF Init, RiskInit, RiskTypeOK
<1>5. FeedTypeOK
  BY FeedAssumption DEF Init, FeedInit, FeedTypeOK, Valuation
<1>6. NoExposure \in Exposure
  BY DEF NoExposure, Exposure, ExposureStatus
<1> QED
  BY <1>1, <1>2, <1>3, <1>4, <1>5, <1>6, NoAccountType, MarginAssumption DEF Init, MarginTypeOK

\* An account that was never opened is sound, and no pool is filled.
LEMMA InitInvariant == Init => MInv
<1> SUFFICES ASSUME Init PROVE MInv
  OBVIOUS
<1>1. /\ accounts = [m \in MarginIds |-> NoMarginAccount]
      /\ exposures = [e \in ExposureIds |-> NoExposure]
      /\ accountForAuction = [x \in AuctionIds |-> 0]
      /\ marginLocked = [m \in MarginIds |-> EmptyBucket]
      /\ auctionLocked = [x \in AuctionIds |-> EmptyBucket]
      /\ now = 1
    BY DEF Init, VaultInit
<1>2. ASSUME NEW m \in MarginIds PROVE NettingSetSound(m)
  <2>1. /\ accounts[m].status = "NONE" /\ ~accounts[m].paymentDefaultDeclared
        /\ accounts[m] = NoMarginAccount
        /\ accounts[m].totalFaceDebt = 0 /\ accounts[m].activeExposureCount = 0
        /\ accounts[m].totalFunded = 0 /\ accounts[m].feeCharged = 0
        /\ accounts[m].remainingProceeds = 0 /\ accounts[m].mandate.fundingTarget = 0
    BY <1>1 DEF NoMarginAccount, NoMandate
  <2>2. \A set : ExposuresOf(m, set) = {}
    BY <1>1, MarginAssumption DEF ExposuresOf, NoExposure
  <2>3. FaceDebtOf({}) = 0 /\ PrincipalOf({}) = 0
    BY SumEmpty DEF FaceDebtOf, PrincipalOf
  <2>4. Cardinality({}) = 0
    BY FS_EmptySet
  <2>5. AccountSound(m)
    BY <2>1 DEF AccountSound, PoolNamed, Running, ClosedOut
  <2>6. PoolLeft(m)
    BY <2>1 DEF PoolLeft
  <2>7. AggregatesRight(m)
    BY <2>1, <2>2, <2>3, <2>4 DEF AggregatesRight, ClosedOut
  <2>8. FundedByMandate(m)
    BY <2>1, <2>2, <2>3, NothingCharged, MarginAssumption DEF FundedByMandate
  <2>9. AccountCustody(m)
    BY <1>1, <2>1 DEF AccountCustody, Running
  <2> QED
    BY <2>5, <2>6, <2>7, <2>8, <2>9 DEF NettingSetSound
<1>3. \A e \in ExposureIds : ExposureSound(e)
  BY <1>1, MarginAssumption DEF ExposureSound, NoExposure
<1>4. /\ RecordsInv
  BY <1>1, <1>2, <1>3 DEF RecordsInv
<1>5. \A x \in AuctionIds : PoolCustody(x)
  BY <1>1 DEF PoolCustody, LiesIn, NoMarginAccount
<1>6. AuctionsSound
  BY DEF Init, AuctionInit, AuctionsSound, AuctionSound, NoAuction
<1>7. PoolsApart
  BY <1>1, MarginAssumption DEF PoolsApart, Init, AuctionInit
<1> QED
  BY <1>4, <1>5, <1>6, <1>7, InitTypes DEF MInv, PoolsInv

\* The steps of sellers preserve the invariant.
LEMMA SellerStepKept ==
    ASSUME MInv, NEW a \in Account, SellerStep(a)
    PROVE  MInv'
<1>1. \A n \in Amounts : DepositCollateral(a, n) => MInv'
  BY DepositCollateralStep
<1>2. \A b \in Recipients, n \in Amounts : WithdrawAvailable(a, n, b) => MInv'
  BY WithdrawAvailableStep
<1>3. \A q \in AccountParams : OpenMarginAccount(a, q) => MInv'
  BY OpenMarginAccountStep
<1>4. \A m \in MarginIds, n \in Amounts : AddMarginCollateral(a, m, n) => MInv'
  BY AddMarginCollateralStep
<1>5. \A m \in MarginIds, b \in Recipients, n \in Amounts :
         WithdrawExcessCollateral(a, m, n, b) => MInv'
  BY WithdrawExcessCollateralStep
<1>6. \A m \in MarginIds : CloseFunding(a, m) => MInv'
  BY CloseFundingStep
<1>7. \A m \in MarginIds : CloseMarginAccount(a, m) => MInv'
  BY CloseMarginAccountStep
<1>8. \A e \in ExposureIds, limit \in Limits, useEscrow \in BOOLEAN :
         RepayExposure(a, e, limit, useEscrow) => MInv'
  BY RepayExposureStep
<1> QED
  BY <1>1, <1>2, <1>3, <1>4, <1>5, <1>6, <1>7, <1>8 DEF SellerStep

\* The steps of lenders and bidders preserve the invariant.
LEMMA BuyerStepKept ==
    ASSUME MInv, NEW a \in Account, BuyerStep(a)
    PROVE  MInv'
<1>1. \A m \in MarginIds, rate \in Rates, limit \in Limits :
         \A principal \in 1..accounts[m].mandate.fundingTarget :
            FundMarginAccount(a, m, principal, rate, limit) => MInv'
  BY FundMarginAccountStep
<1>2. \A x \in AuctionIds, limit \in Limits : BuyMarginAuction(a, x, limit) => MInv'
  BY BuyMarginAuctionStep
<1>3. \A e \in ExposureIds, b \in Recipients : ClaimFailedCollateral(a, e, b) => MInv'
  BY ClaimFailedCollateralStep
<1>4. \A c \in DOMAIN book.claims, n \in ClaimAmounts, b \in Recipients :
         EscrowClaim(a, c, n, b) => MInv'
  BY EscrowClaimStep
<1> QED
  BY <1>1, <1>2, <1>3, <1>4 DEF BuyerStep

\* What anybody may do preserves the invariant.
LEMMA LifecycleStepKept ==
    ASSUME MInv, LifecycleStep
    PROVE  MInv'
BY OpenMarginCallStep, CureMarginCallStep, StartMarginLiquidationStep,
   StartInKindOracleFallbackStep, DeclarePaymentDefaultStep, MaterializeLiquidationClaimStep,
   FinalizeFailedMarginAuctionStep
   DEF LifecycleStep

\* The invariant speaks of the engine's variables only.
LEMMA StutterKept ==
    ASSUME MInv, UNCHANGED vars
    PROVE  MInv'
<1>1. MarginTypeOK'
  BY Frames DEF MInv, MarginTypeOK, vars, engineVars, recordVars, adminVars
<1>2. RecordsInv' /\ PoolsInv'
  BY RecordsFrame DEF vars, engineVars, vaultVars, bucketVars, MInv, MarginTypeOK
<1> QED
  BY <1>1, <1>2 DEF MInv

LEMMA NextInvariant == MInv /\ [Next]_vars => MInv'
<1> SUFFICES ASSUME MInv, [Next]_vars PROVE MInv'
  OBVIOUS
<1>1. CASE Tick
  BY <1>1, TickStep
<1>2. CASE \E a \in Account : SellerStep(a)
  BY <1>2, SellerStepKept
<1>3. CASE \E a \in Account : BuyerStep(a)
  BY <1>3, BuyerStepKept
<1>4. CASE LifecycleStep
  BY <1>4, LifecycleStepKept
<1>5. CASE \/ \E price \in Prices, observedAt \in 1..now, v \in Validity, t \in SettlementTokens :
                 SubmitValuation(price, observedAt, v, t)
           \/ InvalidateValuation
           \/ ChangeCompliance
           \/ GovernRisk
           \/ Administer
  BY <1>5, OutsideStep
<1>6. CASE UNCHANGED vars
  BY <1>6, StutterKept
<1> QED
  BY <1>1, <1>2, <1>3, <1>4, <1>5, <1>6 DEF Next

\* The engine's inductive invariant holds in every state.
LEMMA MarginInvariance == Spec => []MInv
BY InitInvariant, NextInvariant, PTL DEF Spec

-----------------------------------------------------------------------------
(* Custody.                                                                 *)

\* A step of the engine calls its vault once, lets a seller's excess margin out of it, or
\* leaves it alone.
LEMMA VaultSteps ==
    ASSUME MInv, [Next]_vars
    PROVE  \/ UNCHANGED vaultVars
           \/ \E a \in Account, b \in Account, n \in Nat : VaultCall(a, b, n)
           \/ \E a \in Account, m \in MarginIds, b \in Account, n \in Nat : LetsMarginOut(a, m, b, n)
<1> DEFINE Call == \E a \in Account, b \in Account, n \in Nat : VaultCall(a, b, n)
           LetOut == \E a \in Account, m \in MarginIds, b \in Account, n \in Nat :
                        LetsMarginOut(a, m, b, n)
<1> SUFFICES UNCHANGED vaultVars \/ Call \/ LetOut
    OBVIOUS
<1>1. ASSUME NEW a \in Account, NEW b \in Account, NEW n \in Nat, VaultCall(a, b, n)
      PROVE  Call
    BY <1>1
<1>2. ASSUME NEW a \in Account, NEW m \in MarginIds, NEW b \in Account, NEW n \in Nat,
             LetsMarginOut(a, m, b, n)
      PROVE  LetOut
    BY <1>2
<1>3. Amounts \subseteq Nat /\ Recipients \subseteq Account
    BY VaultAssumption, MarginAssumption
<1> HIDE DEF Call, LetOut
<1>4. CASE Tick \/ UNCHANGED vars
    BY <1>4 DEF Tick, vars
<1>5. CASE InvalidateValuation \/ ChangeCompliance \/ GovernRisk \/ Administer
    BY <1>5 DEF InvalidateValuation, ChangeCompliance, GovernRisk, Administer
<1>6. ASSUME NEW a \in Account, NEW n \in Amounts, DepositCollateral(a, n)
      PROVE  Call
  <2>1. VaultCall(a, a, n)
    BY <1>6 DEF DepositCollateral, CanDepositCollateral, VaultCall
  <2> QED
    BY <1>1, <1>3, <2>1
<1>7. ASSUME NEW a \in Account, NEW b \in Recipients, NEW n \in Amounts,
             WithdrawAvailable(a, n, b)
      PROVE  Call
  <2>1. VaultCall(a, b, n)
    BY <1>7 DEF WithdrawAvailable, CanWithdrawAvailable, VaultCall
  <2> QED
    BY <1>1, <1>3, <2>1
<1>8. ASSUME NEW a \in Account, NEW q \in AccountParams, OpenMarginAccount(a, q)
      PROVE  Call
  <2>1. VaultCall(a, a, q.collateralAmount) /\ q.collateralAmount \in Nat
    BY <1>8, MarginAssumption DEF OpenMarginAccount, CanOpenMarginAccount, VaultCall
  <2> QED
    BY <1>1, <2>1
<1>9. ASSUME NEW a \in Account, NEW m \in MarginIds, NEW n \in Amounts,
             AddMarginCollateral(a, m, n)
      PROVE  Call
  <2>1. VaultCall(a, a, n)
    BY <1>9 DEF AddMarginCollateral, VaultCall
  <2> QED
    BY <1>1, <1>3, <2>1
<1>10. ASSUME NEW a \in Account, NEW m \in MarginIds, NEW b \in Recipients, NEW n \in Amounts,
              WithdrawExcessCollateral(a, m, n, b)
       PROVE  LetOut
  <2>1. LetsMarginOut(a, m, b, n)
    BY <1>10 DEF WithdrawExcessCollateral, ReleaseMarginTo, LetsMarginOut
  <2> QED
    BY <1>2, <1>3, <2>1
<1>11. ASSUME NEW a \in Account, NEW m \in MarginIds, CloseMarginAccount(a, m)
       PROVE  UNCHANGED vaultVars \/ Call
  <2>1. CASE accounts[m].collateralAmount > 0
    <3>1. VaultCall(a, a, accounts[m].collateralAmount)
      BY <1>11, <2>1 DEF CloseMarginAccount, CanCloseMarginAccount, VaultCall
    <3>2. accounts[m].collateralAmount \in Nat
      BY DEF MInv, MarginTypeOK, MarginAccount
    <3> QED
      BY <1>1, <3>1, <3>2
  <2>2. CASE ~(accounts[m].collateralAmount > 0)
    BY <1>11, <2>2 DEF CloseMarginAccount, CanCloseMarginAccount
  <2> QED
    BY <2>1, <2>2
<1>12. ASSUME NEW m \in MarginIds, StartMarginLiquidation(m)
       PROVE  Call
  <2>1. /\ accounts[m].seller \in Account /\ nextAuctionId \in AuctionIds
        /\ AllocateMarginAuction(accounts[m].seller, m, nextAuctionId)
    BY <1>12, RunningFacts DEF StartMarginLiquidation, CanStartMarginLiquidation, Create, CanCreate
  <2>2. VaultCall(accounts[m].seller, accounts[m].seller, 0)
    BY <2>1 DEF VaultCall
  <2> QED
    BY <1>1, <2>1, <2>2
<1>13. ASSUME NEW m \in MarginIds, StartInKindOracleFallback(m)
       PROVE  Call
  <2>1. /\ accounts[m].seller \in Account /\ InKindPool(m) \in AuctionIds
        /\ AllocateMarginAuction(accounts[m].seller, m, InKindPool(m))
    BY <1>13, RunningFacts, MarginAssumption DEF StartInKindOracleFallback,
                                                 CanStartInKindOracleFallback
  <2>2. VaultCall(accounts[m].seller, accounts[m].seller, 0)
    BY <2>1 DEF VaultCall
  <2> QED
    BY <1>1, <2>1, <2>2
<1>14. ASSUME NEW a \in Account, NEW x \in AuctionIds, NEW limit, BuyMarginAuction(a, x, limit)
       PROVE  Call
  <2>1. VaultCall(a, a, 0)
    BY <1>14 DEF BuyMarginAuction, VaultCall
  <2> QED
    BY <1>1, <2>1
<1>15. ASSUME NEW a \in Account, NEW e \in ExposureIds, NEW b \in Recipients,
              ClaimFailedCollateral(a, e, b)
       PROVE  UNCHANGED vaultVars \/ Call
  <2>1. PICK m, amount :
          /\ m \in MarginIds
          /\ exposures[e].accountId = m /\ exposures[e].status = "ACTIVE"
          /\ accounts[m].status = "AUCTION_FAILED"
          /\ amount = ProRataShare(accounts[m], exposures[e], accounts[m].collateralAmount,
                                   accounts[m].remainingCollateral)
          /\ PayFromPool(accounts[m].claimPoolId, b, amount)
    BY <1>15 DEF ClaimFailedCollateral, CanClaimFailedCollateral, CollateralShare
  <2>2. /\ accounts[m].frozenDebt \in Nat \ {0} /\ exposures[e].faceDebt \in Nat
        /\ accounts[m].collateralAmount \in Nat /\ accounts[m].remainingCollateral \in Nat
        /\ accounts[m].claimPoolId \in AuctionIds
    <3>1. accounts[m] \in MarginAccount /\ PoolNamed(m)
      BY <2>1 DEF MInv, MarginTypeOK, RecordsInv, NettingSetSound, AccountSound
    <3> QED
      BY <2>1, <3>1, ClaimFacts DEF MarginAccount, PoolNamed
  <2>3. amount \in Nat
    BY <2>1, <2>2, ShareType
  <2>4. CASE amount > 0
    <3>1. VaultCall(b, b, amount)
      BY <2>1, <2>2, <2>4 DEF PayFromPool, VaultCall
    <3> QED
      BY <1>1, <1>3, <2>3, <3>1
  <2>5. CASE ~(amount > 0)
    BY <2>1, <2>5 DEF PayFromPool
  <2> QED
    BY <2>4, <2>5
<1>16. ASSUME NEW a, NEW m, NEW principal, NEW rate, NEW limit,
              FundMarginAccount(a, m, principal, rate, limit)
       PROVE  UNCHANGED vaultVars
    BY <1>16 DEF FundMarginAccount, CanFundMarginAccount
<1>17. ASSUME NEW a, NEW e, NEW limit, NEW useEscrow, RepayExposure(a, e, limit, useEscrow)
       PROVE  UNCHANGED vaultVars
    BY <1>17 DEF RepayExposure, CanRepayExposure
<1>18. ASSUME NEW a, NEW m, CloseFunding(a, m) \/ OpenMarginCall(m) \/ CureMarginCall(m)
       PROVE  UNCHANGED vaultVars
    BY <1>18 DEF CloseFunding, OpenMarginCall, CureMarginCall, CanCureMarginCall
<1>19. ASSUME NEW e, DeclarePaymentDefault(e) \/ MaterializeLiquidationClaim(e)
                        \/ FinalizeFailedMarginAuction(e)
       PROVE  UNCHANGED vaultVars
    BY <1>19 DEF DeclarePaymentDefault, CanDeclarePaymentDefault, MaterializeLiquidationClaim,
                 CanMaterializeLiquidationClaim, ProceedsShare, FinalizeFailedMarginAuction
<1>20. ASSUME NEW a, NEW c, NEW n, NEW b, EscrowClaim(a, c, n, b)
       PROVE  UNCHANGED vaultVars
    BY <1>20 DEF EscrowClaim
<1>21. ASSUME NEW price, NEW observedAt, NEW v, NEW t, SubmitValuation(price, observedAt, v, t)
       PROVE  UNCHANGED vaultVars
    BY <1>21 DEF SubmitValuation
<1>22. CASE \E a \in Account : SellerStep(a)
    BY <1>6, <1>7, <1>8, <1>9, <1>10, <1>11, <1>17, <1>18, <1>22 DEF SellerStep
<1>23. CASE \E a \in Account : BuyerStep(a)
    BY <1>14, <1>15, <1>16, <1>20, <1>23 DEF BuyerStep
<1>24. CASE LifecycleStep
    BY <1>12, <1>13, <1>18, <1>19, <1>24 DEF LifecycleStep
<1>25. CASE Next
    BY <1>4, <1>5, <1>21, <1>22, <1>23, <1>24, <1>25 DEF Next
<1> QED
    BY <1>4, <1>25

\* The vault's books stay balanced.
LEMMA VaultBooksStep ==
    ASSUME MInv, VaultBooks, [Next]_vars
    PROVE  VaultBooks' /\ [Custody!LedgerNext]_(Custody!ledger)
<1>1. VaultTypeOK /\ VaultTypeOK' /\ BucketsOwned
    BY NextInvariant DEF MInv, MarginTypeOK, VaultBooks
<1>2. ASSUME NEW a \in Account, NEW m \in MarginIds, NEW b \in Account, NEW n \in Nat,
             LetsMarginOut(a, m, b, n)
      PROVE  VaultOutcome
    BY <1>1, <1>2, MarginLetOut DEF VaultOutcome
<1>3. UNCHANGED vaultVars \/ VaultOutcome
    BY <1>1, <1>2, VaultSteps, VaultOutcomes
<1> QED
    BY <1>1, <1>3, VaultBooksKept

(***************************************************************************)
(* The vault's buckets implement custody under the engine as well: a       *)
(* netting set's collateral stays its seller's through calls, auctions     *)
(* that fail and partial claims, until it is withdrawn, sold or shared out.*)
(***************************************************************************)
THEOREM MarginImplementsCustody == Spec => ImplementsCustody
<1>1. Init => VaultBooks /\ Custody!LedgerInit
  <2> SUFFICES ASSUME Init PROVE VaultBooks /\ Custody!LedgerInit
    OBVIOUS
  <2>1. VaultInit
    BY DEF Init
  <2>2. VaultBooks /\ \A a \in Account : Owned(a) = 0
    BY <2>1, EmptyVault
  <2> QED
    BY <2>1, <2>2 DEF Custody!LedgerInit, VaultInit
<1>2. MInv /\ VaultBooks /\ [Next]_vars => VaultBooks' /\ [Custody!LedgerNext]_(Custody!ledger)
    BY VaultBooksStep
<1> QED
    BY <1>1, <1>2, MarginInvariance, PTL DEF Spec, ImplementsCustody, Custody!LedgerSpec

-----------------------------------------------------------------------------
(* What the escrow holds for the lenders beyond all claims.                 *)

Proceeds == [m \in MarginIds |-> accounts[m].remainingProceeds]
Spare(b) == b.escrowCash - b.totalClaims

\* A book whose escrow is backed and holds so much beyond its claims.
Spares(b, amount) == b \in Book /\ BookBacked(b) /\ Spare(b) = amount

LEMMA PaidToSpares ==
    ASSUME NEW b, NEW spare, Spares(b, spare), NEW payer \in Account, NEW recipient \in Account,
           NEW amount \in Nat, payer = recipient \/ CanPay(b, payer, amount)
    PROVE  Spares(PaidTo(b, payer, recipient, amount), spare)
<1>1. b \in Book /\ BookBacked(b) /\ Spare(b) = spare
    BY DEF Spares
<1>2. PICK d : d = PaidTo(b, payer, recipient, amount)
    OBVIOUS
<1>3. /\ d \in Book /\ BookBacked(d) /\ d.escrowCash = b.escrowCash
      /\ d.totalClaims = b.totalClaims
    BY <1>1, <1>2, PaidToType, PaidToBacked
<1> QED
    BY <1>1, <1>2, <1>3 DEF Spares, Spare

LEMMA PaidToEscrowSpares ==
    ASSUME NEW b, NEW spare \in Int, Spares(b, spare), NEW payer \in Account,
           NEW amount \in Nat, CanPay(b, payer, amount)
    PROVE  Spares(PaidToEscrow(b, payer, amount), spare + amount)
<1>1. b \in Book /\ BookBacked(b) /\ Spare(b) = spare
    BY DEF Spares
<1>2. PICK d : d = PaidToEscrow(b, payer, amount)
    OBVIOUS
<1>3. /\ d \in Book /\ BookBacked(d) /\ d.escrowCash = b.escrowCash + amount
      /\ d.totalClaims = b.totalClaims
    BY <1>1, <1>2, PaidToEscrowType, PaidToEscrowBacked
<1>4. b.escrowCash \in Nat /\ b.totalClaims \in Nat
    BY <1>1 DEF Book
<1> QED
    BY <1>1, <1>2, <1>3, <1>4 DEF Spares, Spare

LEMMA WithClaimSpares ==
    ASSUME NEW b, NEW spare \in Int, Spares(b, spare), NEW beneficiary \in Account,
           NEW amount \in Nat, CanRecordClaims(b, amount)
    PROVE  Spares(WithClaim(b, beneficiary, amount), spare - amount)
<1>1. b \in Book /\ BookBacked(b) /\ Spare(b) = spare
    BY DEF Spares
<1>2. PICK d : d = WithClaim(b, beneficiary, amount)
    OBVIOUS
<1>3. /\ d \in Book /\ BookBacked(d) /\ d.escrowCash = b.escrowCash
      /\ d.totalClaims = b.totalClaims + amount
    BY <1>1, <1>2, WithClaimBacked
<1>4. b.escrowCash \in Nat /\ b.totalClaims \in Nat
    BY <1>1 DEF Book
<1> QED
    BY <1>1, <1>2, <1>3, <1>4 DEF Spares, Spare

\* A payment into the escrow that is at once a claim leaves no more and no less to spare.
LEMMA EscrowedSpares ==
    ASSUME NEW b, NEW spare \in Int, Spares(b, spare), NEW payer \in Account,
           NEW beneficiary \in Account, NEW amount \in Nat, CanPay(b, payer, amount),
           amount = 0 \/ CanRecordClaims(PaidToEscrow(b, payer, amount), amount)
    PROVE  Spares(WithClaim(PaidToEscrow(b, payer, amount), beneficiary, amount), spare)
<1>1. PICK d : d = PaidToEscrow(b, payer, amount)
    OBVIOUS
<1>2. Spares(d, spare + amount)
    BY <1>1, PaidToEscrowSpares
<1>3. CASE amount = 0
    BY <1>1, <1>2, <1>3 DEF WithClaim
<1>4. CASE amount # 0
  <2>1. CanRecordClaims(d, amount) /\ spare + amount \in Int
    BY <1>1, <1>4
  <2>2. Spares(WithClaim(d, beneficiary, amount), spare + amount - amount)
    BY <1>2, <2>1, WithClaimSpares
  <2>3. spare + amount - amount = spare
    OBVIOUS
  <2> QED
    BY <1>1, <2>2, <2>3
<1> QED
    BY <1>3, <1>4

LEMMA PaidOrEscrowedSpares ==
    ASSUME NEW b, NEW spare \in Int, Spares(b, spare), NEW payer \in Account,
           NEW beneficiary \in Account, NEW amount \in Nat,
           amount = 0 \/ CanPayOrEscrow(b, payer, beneficiary, amount)
    PROVE  Spares(PaidOrEscrowed(b, payer, beneficiary, amount), spare)
<1>1. CanPay(b, payer, 0)
    BY DEF CanPay, Book, Spares
<1>2. CASE beneficiary \in compliant
  <2>1. payer = beneficiary \/ CanPay(b, payer, amount)
    BY <1>1, <1>2 DEF CanPayOrEscrow
  <2>2. Spares(PaidTo(b, payer, beneficiary, amount), spare)
    BY <2>1, PaidToSpares
  <2> QED
    BY <1>2, <2>2 DEF PaidOrEscrowed
<1>3. CASE beneficiary \notin compliant
  <2>1. /\ CanPay(b, payer, amount)
        /\ amount = 0 \/ CanRecordClaims(PaidToEscrow(b, payer, amount), amount)
    BY <1>1, <1>3 DEF CanPayOrEscrow
  <2>2. Spares(WithClaim(PaidToEscrow(b, payer, amount), beneficiary, amount), spare)
    BY <2>1, EscrowedSpares
  <2> QED
    BY <1>3, <2>2 DEF PaidOrEscrowed
<1> QED
    BY <1>2, <1>3

\* A beneficiary takes out of the escrow what he claimed of it.
LEMMA ClaimSpares ==
    ASSUME EscrowTypeOK, NEW spare \in Int, Spares(book, spare), NEW a \in Account, NEW c,
           NEW n \in Nat, NEW b \in Account, ClaimSettlement(a, c, n, b)
    PROVE  Spares(book', spare)
<1>1. book' \in Book /\ BookBacked(book') /\ book \in Book /\ Spare(book) = spare
    BY EscrowClaimType, EscrowClaimBacked DEF EscrowTypeOK, Spares
<1>2. /\ book'.escrowCash = book.escrowCash - n /\ book'.totalClaims = book.totalClaims - n
      /\ book.escrowCash \in Nat /\ book.totalClaims \in Nat
    BY <1>1 DEF ClaimSettlement, ClaimPaid, Book
<1> QED
    BY <1>1, <1>2 DEF Spares, Spare

\* The sum of what is left of the accounts' proceeds follows the account that changes.
LEMMA ProceedsMove ==
    ASSUME MInv, NEW m \in MarginIds, NEW new \in MarginAccount,
           accounts' = [accounts EXCEPT ![m] = new], NEW n \in Int,
           new.remainingProceeds = accounts[m].remainingProceeds + n
    PROVE  SumFunction(Proceeds)' = SumFunction(Proceeds) + n
<1>1. PICK f, g : f = Proceeds /\ g = Proceeds'
    OBVIOUS
<1>2. accounts \in [MarginIds -> MarginAccount] /\ IsFiniteSet(MarginIds)
    BY VaultAssumption DEF MInv, MarginTypeOK
<1>3. f \in [MarginIds -> Int]
    BY <1>1, <1>2 DEF Proceeds, MarginAccount
<1>4. g = [f EXCEPT ![m] = f[m] + n]
    BY <1>1, <1>2 DEF Proceeds
<1>5. SumFunction(g) = SumFunction(f) + n
    BY <1>2, <1>3, <1>4, SumGrows
<1> QED
    BY <1>1, <1>5

LEMMA ProceedsType == MInv => SumFunction(Proceeds) \in Nat
<1> SUFFICES ASSUME MInv PROVE SumFunction(Proceeds) \in Nat
    OBVIOUS
<1>1. PICK f : f = Proceeds
    OBVIOUS
<1>2. accounts \in [MarginIds -> MarginAccount] /\ IsFiniteSet(MarginIds)
    BY VaultAssumption DEF MInv, MarginTypeOK
<1>3. DOMAIN f = MarginIds /\ \A m \in MarginIds : f[m] \in Nat
    BY <1>1, <1>2 DEF Proceeds, MarginAccount
<1>4. SumFunctionOnSet(f, MarginIds) \in Nat
    BY <1>2, <1>3, SumNat
<1> QED
    BY <1>1, <1>3, <1>4 DEF SumFunction

\* The escrow is backed, and spares the lenders' proceeds.
SharesSpared == Spares(book, SumFunction(Proceeds))

SameProceeds == \A m \in MarginIds : accounts'[m].remainingProceeds = accounts[m].remainingProceeds

\* A step that leaves every account's proceeds alone.
LEMMA NoProceedsMove ==
    ASSUME SameProceeds, NEW new, book' = new, Spares(new, SumFunction(Proceeds))
    PROVE  SharesSpared'
<1>1. Proceeds' = Proceeds
    BY DEF Proceeds, SameProceeds
<1> QED
    BY <1>1 DEF SharesSpared

LEMMA OneAccountSame ==
    ASSUME MInv, NEW m \in MarginIds, NEW new, accounts' = [accounts EXCEPT ![m] = new],
           new.remainingProceeds = accounts[m].remainingProceeds
    PROVE  SameProceeds
BY DEF SameProceeds, MInv, MarginTypeOK

\* Most steps move no money.
LEMMA QuietSteps ==
    ASSUME MInv, SharesSpared, [Next]_vars
    PROVE  \/ SharesSpared'
           \/ \E a \in Account, m \in MarginIds, rate \in Rates, limit \in Limits :
                 \E principal \in 1..accounts[m].mandate.fundingTarget :
                    FundMarginAccount(a, m, principal, rate, limit)
           \/ \E a \in Account, e \in ExposureIds, limit \in Limits, useEscrow \in BOOLEAN :
                 RepayExposure(a, e, limit, useEscrow)
           \/ \E a \in Account, x \in AuctionIds, limit \in Limits : BuyMarginAuction(a, x, limit)
           \/ \E e \in ExposureIds : MaterializeLiquidationClaim(e)
           \/ \E a \in Account, c \in DOMAIN book.claims, n \in ClaimAmounts, b \in Recipients :
                 EscrowClaim(a, c, n, b)
<1>0. accounts \in [MarginIds -> MarginAccount]
    BY DEF MInv, MarginTypeOK
<1>1. ASSUME UNCHANGED <<accounts, book>> PROVE SharesSpared'
    BY <1>1 DEF SharesSpared, Proceeds
<1>2. ASSUME SameProceeds, UNCHANGED book PROVE SharesSpared'
    BY <1>2, NoProceedsMove DEF SharesSpared
<1>3. CASE Tick \/ UNCHANGED vars
    BY <1>1, <1>3 DEF Tick, vars, engineVars, recordVars, escrowVars
<1>4. CASE InvalidateValuation \/ ChangeCompliance \/ GovernRisk \/ Administer
    BY <1>1, <1>4
       DEF InvalidateValuation, ChangeCompliance, SetCompliance, GovernRisk, Administer,
           recordVars, escrowVars
<1>5. ASSUME NEW price, NEW observedAt, NEW v, NEW t, SubmitValuation(price, observedAt, v, t)
      PROVE  SharesSpared'
    BY <1>1, <1>5 DEF SubmitValuation, engineVars, recordVars, escrowVars
<1>6. ASSUME NEW a, NEW n, DepositCollateral(a, n)
      PROVE  SharesSpared'
    BY <1>1, <1>6 DEF DepositCollateral, CanDepositCollateral, engineVars, recordVars, escrowVars
<1>7. ASSUME NEW a, NEW n, NEW b, WithdrawAvailable(a, n, b)
      PROVE  SharesSpared'
    BY <1>1, <1>7 DEF WithdrawAvailable, CanWithdrawAvailable, engineVars, recordVars, escrowVars
<1>8. ASSUME NEW a \in Account, NEW q \in AccountParams, OpenMarginAccount(a, q)
      PROVE  SharesSpared'
  <2>1. PICK m, mandate, snapshot :
          /\ m \in MarginIds
          /\ m = nextAccountId /\ UNCHANGED book
          /\ accounts' = [accounts EXCEPT ![m] =
                [NoMarginAccount EXCEPT
                    !.status = "OPEN", !.seller = a, !.collateralAmount = q.collateralAmount,
                    !.mandate = mandate, !.snapshot = snapshot]]
    BY <1>8 DEF OpenMarginAccount, CanOpenMarginAccount, escrowVars
  <2>2. accounts[m] = NoMarginAccount
    <3>1. NettingSetSound(m) /\ nextAccountId \in Nat
      BY <2>1 DEF MInv, RecordsInv, MarginTypeOK
    <3> QED
      BY <2>1, <3>1 DEF NettingSetSound, AccountSound
  <2>3. PICK new : new = [NoMarginAccount EXCEPT
                        !.status = "OPEN", !.seller = a, !.collateralAmount = q.collateralAmount,
                        !.mandate = mandate, !.snapshot = snapshot]
    OBVIOUS
  <2>4. new.remainingProceeds = NoMarginAccount.remainingProceeds
    BY <2>3, NoAccountType DEF MarginAccount
  <2>5. SameProceeds
    BY <2>1, <2>2, <2>3, <2>4, OneAccountSame
  <2> QED
    BY <1>2, <2>1, <2>5
<1>9. ASSUME NEW m \in MarginIds, NEW new, SetAccount(m, new), UNCHANGED escrowVars,
             new.remainingProceeds = accounts[m].remainingProceeds
      PROVE  SharesSpared'
    BY <1>2, <1>9, OneAccountSame DEF SetAccount, escrowVars
<1>10. ASSUME NEW a, NEW m \in MarginIds, NEW n, AddMarginCollateral(a, m, n)
       PROVE  SharesSpared'
    BY <1>0, <1>9, <1>10 DEF AddMarginCollateral, MarginAccount
<1>11. ASSUME NEW a, NEW m \in MarginIds, NEW n, NEW b, WithdrawExcessCollateral(a, m, n, b)
       PROVE  SharesSpared'
    BY <1>0, <1>9, <1>11 DEF WithdrawExcessCollateral, MarginAccount
<1>12. ASSUME NEW a, NEW m \in MarginIds, CloseFunding(a, m)
       PROVE  SharesSpared'
    BY <1>0, <1>9, <1>12 DEF CloseFunding, MarginAccount
<1>13. ASSUME NEW a, NEW m \in MarginIds, CloseMarginAccount(a, m)
       PROVE  SharesSpared'
    BY <1>0, <1>9, <1>13 DEF CloseMarginAccount, CanCloseMarginAccount, MarginAccount
<1>14. ASSUME NEW m \in MarginIds, OpenMarginCall(m)
       PROVE  SharesSpared'
    BY <1>0, <1>9, <1>14 DEF OpenMarginCall, MarginAccount
<1>15. ASSUME NEW m \in MarginIds, CureMarginCall(m)
       PROVE  SharesSpared'
    BY <1>0, <1>9, <1>15 DEF CureMarginCall, CanCureMarginCall, MarginAccount
<1>16. ASSUME NEW e, DeclarePaymentDefault(e)
       PROVE  SharesSpared'
    BY <1>0, <1>9, <1>16 DEF DeclarePaymentDefault, CanDeclarePaymentDefault, MarginAccount
<1>17. ASSUME NEW m \in MarginIds, StartMarginLiquidation(m)
       PROVE  SharesSpared'
  <2>1. PICK new : /\ new = Frozen(accounts[m], "LIQUIDATING", nextAuctionId, nextAuctionId)
                   /\ accounts' = [accounts EXCEPT ![m] = new] /\ UNCHANGED book
    BY <1>17 DEF StartMarginLiquidation, CanStartMarginLiquidation, escrowVars
  <2>2. new.remainingProceeds = accounts[m].remainingProceeds
    BY <1>0, <2>1 DEF Frozen, MarginAccount
  <2> QED
    BY <1>2, <2>1, <2>2, OneAccountSame
<1>18. ASSUME NEW m \in MarginIds, StartInKindOracleFallback(m)
       PROVE  SharesSpared'
  <2>1. PICK frozen : frozen = Frozen(accounts[m], "AUCTION_FAILED", 0, InKindPool(m))
    OBVIOUS
  <2>2. /\ frozen.remainingProceeds = accounts[m].remainingProceeds
        /\ frozen \in MarginAccount \/ DOMAIN frozen = DOMAIN accounts[m]
    BY <1>0, <2>1 DEF Frozen, MarginAccount
  <2>3. [frozen EXCEPT !.remainingCollateral = accounts[m].collateralAmount].remainingProceeds
            = accounts[m].remainingProceeds
    BY <1>0, <2>1 DEF Frozen, MarginAccount
  <2>4. SetAccount(m, [frozen EXCEPT !.remainingCollateral = accounts[m].collateralAmount])
    BY <1>18, <2>1 DEF StartInKindOracleFallback, CanStartInKindOracleFallback
  <2> QED
    BY <1>9, <1>18, <2>3, <2>4 DEF StartInKindOracleFallback, CanStartInKindOracleFallback
<1>19. ASSUME NEW x, FinalizeFailedMarginAuction(x)
       PROVE  SharesSpared'
    BY <1>0, <1>9, <1>19 DEF FinalizeFailedMarginAuction, MarginAccount
<1>20. ASSUME NEW a, NEW e, NEW b, ClaimFailedCollateral(a, e, b)
       PROVE  SharesSpared'
  <2>1. PICK m, count, rest :
          /\ m \in MarginIds
          /\ SetAccount(m, [accounts[m] EXCEPT !.unclaimedExposureCount = count,
                                               !.remainingCollateral = rest])
          /\ UNCHANGED escrowVars
    BY <1>20 DEF ClaimFailedCollateral, CanClaimFailedCollateral, CollateralShare
  <2> QED
    BY <1>0, <1>9, <2>1 DEF MarginAccount
<1>21. CASE \E a \in Account : SellerStep(a)
    BY <1>6, <1>7, <1>8, <1>10, <1>11, <1>12, <1>13, <1>21 DEF SellerStep
<1>22. CASE \E a \in Account : BuyerStep(a)
    BY <1>20, <1>22 DEF BuyerStep
<1>23. CASE LifecycleStep
    BY <1>14, <1>15, <1>16, <1>17, <1>18, <1>19, <1>23 DEF LifecycleStep
<1> QED
    BY <1>3, <1>4, <1>5, <1>21, <1>22, <1>23 DEF Next

\* A lender who funds an account pays its seller and the treasury, and the escrow no more than
\* the treasury's claim.
LEMMA FundingSpares ==
    ASSUME MInv, SharesSpared, NEW a \in Account, NEW m \in MarginIds, NEW rate \in Rates,
           NEW limit \in Limits, NEW principal \in 1..accounts[m].mandate.fundingTarget,
           FundMarginAccount(a, m, principal, rate, limit)
    PROVE  SharesSpared'
<1> DEFINE account == accounts[m]
<1>1. /\ account.status = "OPEN" /\ account \in MarginAccount /\ account.seller \in Account
      /\ account.feeCharged = CumulativeFee(account.totalFunded, ProtocolFeeBps)
      /\ principal \in Nat /\ rate \in Nat
  <2>1. account.status = "OPEN" /\ account.status \in Running
    BY DEF FundMarginAccount, CanFundMarginAccount, CanFund, Running
  <2>2. account \in MarginAccount /\ NettingSetSound(m) /\ account.seller \in Account
    BY <2>1, RunningFacts DEF MInv, RecordsInv
  <2>3. account.mandate.fundingTarget \in Nat
    BY <2>2 DEF MarginAccount, Mandate
  <2> QED
    BY <2>1, <2>2, <2>3, MarginAssumption DEF NettingSetSound, FundedByMandate
<1>2. PICK fee \in Nat : fee = FundingFee(account, principal)
    BY <1>1, FundingAmounts
<1>3. PICK paid, new :
        /\ paid = PaidTo(book, a, account.seller, principal - fee)
        /\ new = Funded(account, principal, rate)
    OBVIOUS
<1>4. /\ fee < principal /\ CanPay(book, a, principal - fee)
      /\ fee > 0 => CanPayOrEscrow(paid, a, FeeTreasury, fee)
      /\ accounts' = [accounts EXCEPT ![m] = new]
      /\ book' = PaidOrEscrowed(paid, a, FeeTreasury, fee)
    BY <1>2, <1>3 DEF FundMarginAccount, CanFundMarginAccount, CanFund
<1>5. SameProceeds
  <2>1. new.remainingProceeds = account.remainingProceeds
    BY <1>1, <1>3 DEF Funded, MarginAccount
  <2> QED
    BY <1>4, <2>1, OneAccountSame
<1>6. PICK spare \in Int : spare = SumFunction(Proceeds) /\ Spares(book, spare)
    BY ProceedsType DEF SharesSpared
<1>7. PICK amount \in Nat : amount = principal - fee
    BY <1>1, <1>4
<1>8. Spares(paid, spare)
    BY <1>1, <1>3, <1>4, <1>6, <1>7, PaidToSpares
<1>9. fee = 0 \/ CanPayOrEscrow(paid, a, FeeTreasury, fee)
    BY <1>4
<1>10. Spares(PaidOrEscrowed(paid, a, FeeTreasury, fee), spare)
    BY <1>8, <1>9, MarginAssumption, PaidOrEscrowedSpares
<1> QED
    BY <1>4, <1>5, <1>6, <1>10, NoProceedsMove

\* A repayment reaches its lender, directly or as a claim.
LEMMA RepaymentSpares ==
    ASSUME MInv, SharesSpared, NEW a \in Account, NEW e \in ExposureIds, NEW limit,
           NEW useEscrow, RepayExposure(a, e, limit, useEscrow)
    PROVE  SharesSpared'
<1>1. PICK m, new :
        /\ m \in MarginIds
        /\ exposures[e].accountId = m /\ exposures[e].status = "ACTIVE"
        /\ CanPay(book, a, exposures[e].faceDebt)
        /\ new = Repaid(accounts[m], exposures[e].faceDebt)
        /\ accounts' = [accounts EXCEPT ![m] = new]
        /\ RepayEscrowed(exposures[e], a) \/ RepayDirect(exposures[e], a)
    BY DEF RepayExposure, CanRepayExposure, SetAccount
<1>2. PICK lender \in Account, debt \in Nat :
        lender = exposures[e].lender /\ debt = exposures[e].faceDebt
    BY <1>1 DEF MInv, MarginTypeOK, RecordsInv, ExposureSound, Exposure
<1>3. SameProceeds
  <2>1. new.remainingProceeds = accounts[m].remainingProceeds
    BY <1>1 DEF Repaid, MInv, MarginTypeOK, MarginAccount
  <2> QED
    BY <1>1, <2>1, OneAccountSame
<1>4. PICK spare \in Int : spare = SumFunction(Proceeds) /\ Spares(book, spare)
    BY ProceedsType DEF SharesSpared
<1>5. CASE RepayDirect(exposures[e], a)
  <2>1. book' = PaidTo(book, a, lender, debt) /\ CanPay(book, a, debt)
    BY <1>1, <1>2, <1>5 DEF RepayDirect
  <2>2. Spares(PaidTo(book, a, lender, debt), spare)
    BY <1>4, <2>1, PaidToSpares
  <2> QED
    BY <1>3, <1>4, <2>1, <2>2, NoProceedsMove
<1>6. CASE RepayEscrowed(exposures[e], a)
  <2>1. /\ book' = WithClaim(PaidToEscrow(book, a, debt), lender, debt)
        /\ CanPay(book, a, debt) /\ CanRecordClaims(PaidToEscrow(book, a, debt), debt)
    BY <1>1, <1>2, <1>6 DEF RepayEscrowed
  <2>2. Spares(WithClaim(PaidToEscrow(book, a, debt), lender, debt), spare)
    BY <1>4, <2>1, EscrowedSpares
  <2> QED
    BY <1>3, <1>4, <2>1, <2>2, NoProceedsMove
<1> QED
    BY <1>1, <1>5, <1>6

\* What the escrow has to spare it can promise.
LEMMA SpareIsClaimable ==
    ASSUME NEW b, NEW spare, Spares(b, spare), NEW amount, amount <= spare
    PROVE  CanRecordClaims(b, amount)
BY DEF Spares, Spare, CanRecordClaims

\* Of a sale price the escrow spares the lenders' part.
LEMMA SaleSpares ==
    ASSUME MInv, SharesSpared, NEW a \in Account, NEW x \in AuctionIds, NEW limit,
           BuyMarginAuction(a, x, limit)
    PROVE  SharesSpared'
<1>0. PICK price : price = PriceAt(auctions[x], now)
    OBVIOUS
<1>1. PICK m \in MarginIds :
        /\ InAuction(x, m) /\ MarkSold(x, a, limit) /\ CanPay(book, a, price)
        /\ book' = WithClaim(WithClaim(PaidToEscrow(book, a, price),
                                       FeeTreasury, LiquidationFee(accounts[m], price)),
                             accounts[m].seller, SellerSurplus(accounts[m], price))
        /\ SetAccount(m, [accounts[m] EXCEPT
                            !.status = "LIQUIDATED",
                            !.liquidationProceeds = LenderPool(accounts[m], price),
                            !.remainingProceeds = LenderPool(accounts[m], price)])
    BY <1>0 DEF BuyMarginAuction
<1> DEFINE account == accounts[m]
<1>2. /\ account \in MarginAccount /\ account.seller \in Account
      /\ account.remainingProceeds = 0
    BY <1>1, AuctionFacts
<1>3. price \in Nat
    BY <1>0, <1>1, LivePrice DEF MarkSold
<1>4. PICK pool, fee, surplus \in Nat :
          /\ pool = LenderPool(account, price) /\ fee = LiquidationFee(account, price)
          /\ surplus = SellerSurplus(account, price)
    BY <1>2, <1>3, SaleSplit
<1>15. pool + fee + surplus = price
    BY <1>2, <1>3, <1>4, SaleSplit
<1>5. PICK new : new = [account EXCEPT !.status = "LIQUIDATED", !.liquidationProceeds = pool,
                                       !.remainingProceeds = pool]
    OBVIOUS
<1>6. new \in MarginAccount /\ new.remainingProceeds = account.remainingProceeds + pool
  <2>1. new \in MarginAccount /\ new.remainingProceeds = pool
    BY <1>2, <1>4, <1>5 DEF MarginAccount, AccountStatus
  <2> QED
    BY <1>2, <1>4, <2>1
<1>7. accounts' = [accounts EXCEPT ![m] = new]
    BY <1>1, <1>4, <1>5 DEF SetAccount
<1>8. PICK spare \in Nat : spare = SumFunction(Proceeds) /\ Spares(book, spare)
    BY ProceedsType DEF SharesSpared
<1>9. SumFunction(Proceeds)' = spare + pool
  <2>1. pool \in Int
    OBVIOUS
  <2> QED
    BY <1>6, <1>7, <1>8, <2>1, ProceedsMove
<1>10. PICK deposited, charged, settled :
         /\ deposited = PaidToEscrow(book, a, price)
         /\ charged = WithClaim(deposited, FeeTreasury, fee)
         /\ settled = WithClaim(charged, account.seller, surplus)
    OBVIOUS
<1>11. Spares(deposited, spare + price)
    BY <1>1, <1>3, <1>8, <1>10, PaidToEscrowSpares
<1>12. PICK whole, part \in Int :
          /\ whole = spare + price /\ part = whole - fee
          /\ fee <= whole /\ surplus <= part /\ part - surplus = spare + pool
    BY <1>3, <1>4, <1>15
<1>13. Spares(charged, part)
  <2>1. CanRecordClaims(deposited, fee) /\ Spares(deposited, whole)
    BY <1>11, <1>12, SpareIsClaimable
  <2> QED
    BY <1>10, <1>12, <2>1, MarginAssumption, WithClaimSpares
<1>14. Spares(settled, part - surplus)
  <2>1. CanRecordClaims(charged, surplus)
    BY <1>12, <1>13, SpareIsClaimable
  <2> QED
    BY <1>2, <1>10, <1>13, <2>1, WithClaimSpares
<1> QED
    BY <1>1, <1>4, <1>9, <1>10, <1>12, <1>14 DEF SharesSpared

\* A lender's claim takes its share out of what the escrow spares.
LEMMA MaterializedSpares ==
    ASSUME MInv, SharesSpared, NEW e \in ExposureIds, MaterializeLiquidationClaim(e)
    PROVE  SharesSpared'
<1>1. PICK m, amount :
        /\ m \in MarginIds
        /\ exposures[e].accountId = m /\ exposures[e].status = "ACTIVE"
        /\ accounts[m].status = "LIQUIDATED"
        /\ amount = ProRataShare(accounts[m], exposures[e], accounts[m].liquidationProceeds,
                                 accounts[m].remainingProceeds)
        /\ amount <= accounts[m].remainingProceeds /\ CanRecordClaims(book, amount)
        /\ accounts' = [accounts EXCEPT ![m] = [accounts[m] EXCEPT
                            !.unclaimedExposureCount = accounts[m].unclaimedExposureCount - 1,
                            !.remainingProceeds = accounts[m].remainingProceeds - amount]]
        /\ book' = WithClaim(book, exposures[e].lender, amount)
    BY DEF MaterializeLiquidationClaim, CanMaterializeLiquidationClaim, ProceedsShare, SetAccount
<1> DEFINE account == accounts[m]
<1>2. /\ account \in MarginAccount /\ exposures[e].lender \in Account
      /\ account.frozenDebt \in Nat \ {0} /\ exposures[e].faceDebt \in Nat
      /\ account.unclaimedExposureCount - 1 \in Nat
    BY <1>1, ClaimFacts
<1>3. account.liquidationProceeds \in Nat /\ account.remainingProceeds \in Nat
    BY <1>2 DEF MarginAccount
<1>4. amount \in Nat
    BY <1>1, <1>2, <1>3, ShareType
<1>5. PICK unclaimed \in Nat, rest \in Nat :
          /\ unclaimed = account.unclaimedExposureCount - 1
          /\ rest = account.remainingProceeds - amount
    BY <1>1, <1>2, <1>3, <1>4
<1>6. PICK new : new = [account EXCEPT !.unclaimedExposureCount = unclaimed,
                                       !.remainingProceeds = rest]
    OBVIOUS
<1>7. new \in MarginAccount /\ new.remainingProceeds = rest
    BY <1>2, <1>6 DEF MarginAccount
<1>8. accounts' = [accounts EXCEPT ![m] = new]
    BY <1>1, <1>5, <1>6
<1>9. PICK spare \in Nat : spare = SumFunction(Proceeds) /\ Spares(book, spare)
    BY ProceedsType DEF SharesSpared
<1>10. PICK n \in Int : n = 0 - amount
    BY <1>4
<1>11. SumFunction(Proceeds)' = spare + n
  <2>1. new.remainingProceeds = accounts[m].remainingProceeds + n
    BY <1>3, <1>4, <1>5, <1>7, <1>10
  <2>2. m \in MarginIds
    BY <1>1
  <2> QED
    BY <1>7, <1>8, <1>9, <2>1, <2>2, ProceedsMove
<1>12. Spares(WithClaim(book, exposures[e].lender, amount), spare - amount)
    BY <1>1, <1>2, <1>4, <1>9, WithClaimSpares
<1>13. spare - amount = spare + n
    BY <1>4, <1>10
<1> QED
    BY <1>1, <1>11, <1>12, <1>13 DEF SharesSpared

\* No claim of anybody is paid out of what the escrow spares.
LEMMA ClaimPaidSpares ==
    ASSUME MInv, SharesSpared, NEW a \in Account, NEW c, NEW n \in ClaimAmounts,
           NEW b \in Recipients, EscrowClaim(a, c, n, b)
    PROVE  SharesSpared'
<1>1. ClaimSettlement(a, c, n, b) /\ UNCHANGED accounts
    BY DEF EscrowClaim, engineVars, recordVars
<1>2. EscrowTypeOK /\ n \in Nat /\ b \in Account
    BY MarginAssumption DEF MInv, MarginTypeOK
<1>3. PICK spare \in Int : spare = SumFunction(Proceeds) /\ Spares(book, spare)
    BY ProceedsType DEF SharesSpared
<1>4. Spares(book', spare)
    BY <1>1, <1>2, <1>3, ClaimSpares
<1>5. SameProceeds
    BY <1>1 DEF SameProceeds
<1> QED
    BY <1>3, <1>4, <1>5, NoProceedsMove

LEMMA SharesSparedStep == MInv /\ SharesSpared /\ [Next]_vars => SharesSpared'
<1> SUFFICES ASSUME MInv, SharesSpared, [Next]_vars
             PROVE  SharesSpared'
    OBVIOUS
<1> QED
    BY QuietSteps, FundingSpares, RepaymentSpares, SaleSpares, MaterializedSpares, ClaimPaidSpares

\* Before the first sale there are no claims and no proceeds.
LEMMA NothingToShare == Init => SharesSpared
<1> SUFFICES ASSUME Init PROVE SharesSpared
    OBVIOUS
<1>1. PICK f, u : f = book.claimable /\ u = book.claims
    OBVIOUS
<1>2. /\ f = [a \in Account |-> 0] /\ u = <<>>
      /\ book.totalClaims = 0 /\ book.escrowCash = 0
    BY <1>1 DEF Init, EscrowInit
<1>3. DOMAIN f = Account /\ \A a \in Account : f[a] = 0
    BY <1>2
<1>4. SumFunctionOnSet(f, Account) = 0
    BY <1>3, AccountAssumption, SumZeros
<1>5. ASSUME NEW a \in Account PROVE SumFunction(UnpaidOf(book, a)) = 0
  <2>1. DOMAIN UnpaidOf(book, a) = {}
    BY <1>1, <1>2 DEF UnpaidOf
  <2> QED
    BY <2>1, SumEmpty DEF SumFunction
<1>6. BookBacked(book)
    BY <1>1, <1>2, <1>3, <1>4, <1>5 DEF BookBacked, TalliesMatch, SumFunction
<1>7. SumFunction(Proceeds) = 0
  <2>1. PICK g : g = Proceeds
    OBVIOUS
  <2>2. DOMAIN g = MarginIds /\ \A m \in MarginIds : g[m] = 0
    BY <2>1 DEF Proceeds, Init, NoMarginAccount
  <2>3. SumFunctionOnSet(g, MarginIds) = 0
    BY <2>2, VaultAssumption, SumZeros
  <2> QED
    BY <2>1, <2>2, <2>3 DEF SumFunction
<1>8. book \in Book
    BY InitTypes DEF MarginTypeOK, EscrowTypeOK
<1> QED
    BY <1>2, <1>6, <1>7, <1>8 DEF SharesSpared, Spares, Spare

(***************************************************************************)
(* The engine's books balance in every reachable state: no amount falls    *)
(* below zero, the aggregates that spare it a loop over lenders are the    *)
(* sums they stand for, every unit of collateral is in the one bucket its  *)
(* account's status names, no seller is funded beyond his mandate, and the *)
(* escrow holds the lenders' proceeds beyond everybody's claims.           *)
(***************************************************************************)
THEOREM MarginBooksBalance == Spec => []MarginBooks
<1>1. MInv /\ SharesSpared => MarginBooks
  <2>1. SharesSpared => ProceedsBacked
    BY DEF SharesSpared, Spares, Spare, Proceeds, ProceedsBacked
  <2> QED
    BY <2>1 DEF MInv, RecordsInv, PoolsInv, NettingSetSound, MarginBooks, DebtAddsUp,
                MarginCustody, MandateKept
<1> QED
    BY <1>1, NothingToShare, SharesSparedStep, MarginInvariance, PTL DEF Spec

-----------------------------------------------------------------------------
(* Closeouts.                                                               *)

\* What a step may do to an account's status and to the limits it was opened under.
TakenOnlyBy(m) ==
    /\ accounts'[m].snapshot \in {accounts[m].snapshot, SnapshotOf(risk)}
    /\ accounts[m].status \in Running /\ accounts'[m].status \in ClosedOut
          => StartMarginLiquidation(m) \/ StartInKindOracleFallback(m)

\* Two actions close an account out, and none changes the limits of one that is open.
LEMMA AccountSteps ==
    ASSUME MInv, [Next]_vars
    PROVE  \A m \in MarginIds : TakenOnlyBy(m)
<1> DEFINE Tame == \A m \in MarginIds : TakenOnlyBy(m)
<1> SUFFICES Tame
    OBVIOUS
<1>0. /\ accounts \in [MarginIds -> MarginAccount]
      /\ \A m \in MarginIds : accounts[m] \in MarginAccount
    BY DEF MInv, MarginTypeOK
<1>1. ASSUME UNCHANGED accounts PROVE Tame
    BY <1>1 DEF TakenOnlyBy, Running, ClosedOut
<1>2. ASSUME NEW m \in MarginIds, NEW new, accounts' = [accounts EXCEPT ![m] = new],
             new.snapshot \in {accounts[m].snapshot, SnapshotOf(risk)},
             accounts[m].status \in Running /\ new.status \in ClosedOut
                => StartMarginLiquidation(m) \/ StartInKindOracleFallback(m)
      PROVE  Tame
  <2> SUFFICES ASSUME NEW n \in MarginIds PROVE TakenOnlyBy(n)
    OBVIOUS
  <2>1. CASE n = m
    <3>1. accounts'[m] = new
      BY <1>0, <1>2
    <3> QED
      BY <1>2, <2>1, <3>1 DEF TakenOnlyBy
  <2>2. CASE n # m
    <3>1. accounts'[n] = accounts[n]
      BY <1>0, <1>2, <2>2
    <3> QED
      BY <3>1 DEF TakenOnlyBy, Running, ClosedOut
  <2> QED
    BY <2>1, <2>2
<1> HIDE DEF Tame
<1>3. CASE Tick \/ UNCHANGED vars
    BY <1>1, <1>3 DEF Tick, vars, engineVars, recordVars
<1>4. CASE InvalidateValuation \/ ChangeCompliance \/ GovernRisk \/ Administer
    BY <1>1, <1>4
       DEF InvalidateValuation, ChangeCompliance, GovernRisk, Administer, recordVars
<1>5. ASSUME NEW price, NEW observedAt, NEW v, NEW t, SubmitValuation(price, observedAt, v, t)
      PROVE  Tame
    BY <1>1, <1>5 DEF SubmitValuation, engineVars, recordVars
<1>6. ASSUME NEW a, NEW n, NEW b,
             DepositCollateral(a, n) \/ WithdrawAvailable(a, n, b) \/ (\E c : EscrowClaim(a, c, n, b))
      PROVE  Tame
    BY <1>1, <1>6 DEF DepositCollateral, CanDepositCollateral, WithdrawAvailable,
                      CanWithdrawAvailable, EscrowClaim, engineVars, recordVars
<1>7. ASSUME NEW a, NEW q, OpenMarginAccount(a, q)
      PROVE  Tame
  <2>1. PICK m, mandate :
          /\ m \in MarginIds
          /\ accounts' = [accounts EXCEPT ![m] =
                   [NoMarginAccount EXCEPT
                       !.status = "OPEN", !.seller = a, !.collateralAmount = q.collateralAmount,
                       !.mandate = mandate, !.snapshot = SnapshotOf(risk)]]
    BY <1>7 DEF OpenMarginAccount, CanOpenMarginAccount
  <2>2. PICK new : new = [NoMarginAccount EXCEPT
                        !.status = "OPEN", !.seller = a, !.collateralAmount = q.collateralAmount,
                        !.mandate = mandate, !.snapshot = SnapshotOf(risk)]
    OBVIOUS
  <2>3. new.snapshot = SnapshotOf(risk) /\ new.status = "OPEN"
    BY <2>2, NoAccountType DEF MarginAccount
  <2> QED
    BY <1>2, <2>1, <2>2, <2>3 DEF ClosedOut
<1>8. ASSUME NEW m \in MarginIds, NEW new, accounts' = [accounts EXCEPT ![m] = new],
             new.snapshot = accounts[m].snapshot,
             accounts[m].status \notin Running \/ new.status \notin ClosedOut
      PROVE  Tame
    BY <1>2, <1>8
<1>9. ASSUME NEW a, NEW m \in MarginIds, NEW n, NEW b,
             \/ AddMarginCollateral(a, m, n) \/ WithdrawExcessCollateral(a, m, n, b)
             \/ CloseFunding(a, m)
      PROVE  Tame
  <2>1. PICK new : /\ new.snapshot = accounts[m].snapshot /\ new.status = accounts[m].status
                   /\ accounts' = [accounts EXCEPT ![m] = new]
    BY <1>0, <1>9
       DEF AddMarginCollateral, WithdrawExcessCollateral, CloseFunding, SetAccount, MarginAccount
  <2> QED
    BY <1>8, <2>1 DEF Running, ClosedOut
<1>10. ASSUME NEW a, NEW m \in MarginIds,
              CloseMarginAccount(a, m) \/ OpenMarginCall(m) \/ CureMarginCall(m)
       PROVE  Tame
  <2>1. PICK new : /\ new.snapshot = accounts[m].snapshot /\ new.status \notin ClosedOut
                   /\ accounts' = [accounts EXCEPT ![m] = new]
    BY <1>0, <1>10
       DEF CloseMarginAccount, CanCloseMarginAccount, OpenMarginCall, CureMarginCall,
           CanCureMarginCall, SetAccount, MarginAccount, ClosedOut
  <2> QED
    BY <1>8, <2>1
<1>11. ASSUME NEW e, DeclarePaymentDefault(e)
       PROVE  Tame
  <2>1. \E m \in MarginIds : \E new :
          /\ new.snapshot = accounts[m].snapshot /\ new.status = accounts[m].status
          /\ accounts' = [accounts EXCEPT ![m] = new]
    BY <1>0, <1>11 DEF DeclarePaymentDefault, CanDeclarePaymentDefault, SetAccount, MarginAccount
  <2> QED
    BY <1>8, <2>1 DEF Running, ClosedOut
<1>12. ASSUME NEW a, NEW m \in MarginIds, NEW principal, NEW rate, NEW limit,
              FundMarginAccount(a, m, principal, rate, limit)
       PROVE  Tame
  <2>1. PICK new : new = Funded(accounts[m], principal, rate)
    OBVIOUS
  <2>2. new.snapshot = accounts[m].snapshot /\ new.status = accounts[m].status
    BY <1>0, <2>1 DEF Funded, MarginAccount
  <2>3. accounts' = [accounts EXCEPT ![m] = new]
    BY <1>12, <2>1 DEF FundMarginAccount, CanFundMarginAccount
  <2> QED
    BY <1>8, <2>2, <2>3 DEF Running, ClosedOut
<1>13. ASSUME NEW a, NEW e, NEW limit, NEW useEscrow, RepayExposure(a, e, limit, useEscrow)
       PROVE  Tame
  <2>1. PICK m, new :
          /\ m \in MarginIds
          /\ new = Repaid(accounts[m], exposures[e].faceDebt)
          /\ accounts' = [accounts EXCEPT ![m] = new]
    BY <1>13 DEF RepayExposure, CanRepayExposure, SetAccount
  <2>2. new.snapshot = accounts[m].snapshot /\ new.status = accounts[m].status
    BY <1>0, <2>1 DEF Repaid, MarginAccount
  <2> QED
    BY <1>8, <2>1, <2>2 DEF Running, ClosedOut
<1>14. ASSUME NEW a, NEW x, NEW limit,
              BuyMarginAuction(a, x, limit) \/ FinalizeFailedMarginAuction(x)
       PROVE  Tame
  <2>1. \E m \in MarginIds : \E new :
          /\ new.snapshot = accounts[m].snapshot /\ accounts[m].status = "LIQUIDATING"
          /\ accounts' = [accounts EXCEPT ![m] = new]
    BY <1>0, <1>14
       DEF BuyMarginAuction, FinalizeFailedMarginAuction, InAuction, SetAccount, MarginAccount
  <2> QED
    BY <1>8, <2>1 DEF Running
<1>15. ASSUME NEW a, NEW e, NEW b, MaterializeLiquidationClaim(e) \/ ClaimFailedCollateral(a, e, b)
       PROVE  Tame
  <2>1. \E m \in MarginIds : \E new :
          /\ new.snapshot = accounts[m].snapshot
          /\ accounts[m].status \in {"LIQUIDATED", "AUCTION_FAILED"}
          /\ accounts' = [accounts EXCEPT ![m] = new]
    BY <1>0, <1>15
       DEF MaterializeLiquidationClaim, CanMaterializeLiquidationClaim, ProceedsShare,
           ClaimFailedCollateral, CanClaimFailedCollateral, CollateralShare, SetAccount,
           MarginAccount
  <2> QED
    BY <1>8, <2>1 DEF Running
<1>16. ASSUME NEW m \in MarginIds, StartMarginLiquidation(m) PROVE Tame
  <2>1. PICK new : /\ new = Frozen(accounts[m], "LIQUIDATING", nextAuctionId, nextAuctionId)
                   /\ accounts' = [accounts EXCEPT ![m] = new]
    BY <1>16 DEF StartMarginLiquidation, CanStartMarginLiquidation
  <2>2. new.snapshot = accounts[m].snapshot
    BY <1>0, <2>1 DEF Frozen, MarginAccount
  <2> QED
    BY <1>2, <1>16, <2>1, <2>2
<1>17. ASSUME NEW m \in MarginIds, StartInKindOracleFallback(m) PROVE Tame
  <2>1. PICK frozen : frozen = Frozen(accounts[m], "AUCTION_FAILED", 0, InKindPool(m))
    OBVIOUS
  <2>2. PICK new : new = [frozen EXCEPT !.remainingCollateral = accounts[m].collateralAmount]
    OBVIOUS
  <2>3. new.snapshot = accounts[m].snapshot
    BY <1>0, <2>1, <2>2 DEF Frozen, MarginAccount
  <2>4. accounts' = [accounts EXCEPT ![m] = new]
    BY <1>17, <2>1, <2>2 DEF StartInKindOracleFallback, CanStartInKindOracleFallback, SetAccount
  <2> QED
    BY <1>2, <1>17, <2>3, <2>4
<1>18. CASE \E a \in Account : SellerStep(a)
    BY <1>6, <1>7, <1>9, <1>10, <1>13, <1>18 DEF SellerStep
<1>19. CASE \E a \in Account : BuyerStep(a)
    BY <1>6, <1>12, <1>14, <1>15, <1>19 DEF BuyerStep
<1>20. CASE LifecycleStep
    BY <1>10, <1>11, <1>14, <1>15, <1>16, <1>17, <1>20 DEF LifecycleStep
<1> QED
    BY <1>3, <1>4, <1>5, <1>18, <1>19, <1>20 DEF Next

\* A snapshot keeps the order of the limits that governance validated.
LimitsRise ==
    \A m \in MarginIds :
        accounts[m].snapshot.maintenanceLtvBps <= accounts[m].snapshot.liquidationLtvBps

LEMMA ValidLimitsRise ==
    ASSUME NEW c \in RiskConfig, ValidRisk(c)
    PROVE  SnapshotOf(c).maintenanceLtvBps <= SnapshotOf(c).liquidationLtvBps
BY DEF ValidRisk, RiskConfig, SnapshotOf

LEMMA LimitsRiseAtFirst == Init => LimitsRise
<1>1. SnapshotOf(InitialRisk).maintenanceLtvBps <= SnapshotOf(InitialRisk).liquidationLtvBps
    BY RiskAssumption, ValidLimitsRise
<1> QED
    BY <1>1 DEF Init, LimitsRise, NoMarginAccount

LEMMA LimitsRiseStep == MInv /\ LimitsRise /\ [Next]_vars => LimitsRise'
<1> SUFFICES ASSUME MInv, LimitsRise, [Next]_vars, NEW m \in MarginIds
             PROVE  accounts'[m].snapshot.maintenanceLtvBps
                       <= accounts'[m].snapshot.liquidationLtvBps
    BY DEF LimitsRise
<1>1. accounts'[m].snapshot \in {accounts[m].snapshot, SnapshotOf(risk)}
    BY AccountSteps DEF TakenOnlyBy
<1>2. SnapshotOf(risk).maintenanceLtvBps <= SnapshotOf(risk).liquidationLtvBps
    BY ValidLimitsRise DEF MInv, MarginTypeOK, RiskTypeOK
<1> QED
    BY <1>1, <1>2 DEF LimitsRise

\* An account beyond its liquidation limit is beyond its maintenance limit.
LEMMA BeyondMaintenance ==
    ASSUME MInv, LimitsRise, NEW m \in MarginIds,
           ~LtvWithin(accounts[m], accounts[m].snapshot.liquidationLtvBps)
    PROVE  ~LtvWithin(accounts[m], accounts[m].snapshot.maintenanceLtvBps)
<1>1. PICK account : account = accounts[m]
    OBVIOUS
<1>2. account \in MarginAccount /\ valuation.price \in Nat
    BY <1>1 DEF MInv, MarginTypeOK, FeedTypeOK, Valuation
<1>3. /\ account.collateralAmount \in Nat /\ account.totalFaceDebt \in Nat
      /\ account.snapshot.maintenanceLtvBps \in Nat /\ account.snapshot.liquidationLtvBps \in Nat
    BY <1>2 DEF MarginAccount, Snapshot
<1>4. PICK value \in Nat : value = CollateralValue(account.collateralAmount, valuation.price)
    BY <1>2, <1>3, CollateralValueType
<1>5. value # 0 => MulDivCeil(account.totalFaceDebt, BPS_DENOMINATOR, value) \in Nat
    BY <1>3, ScalesAssumption, MulDivType
<1>6. account.snapshot.maintenanceLtvBps <= account.snapshot.liquidationLtvBps
    BY <1>1 DEF LimitsRise
<1> QED
    BY <1>1, <1>3, <1>4, <1>5, <1>6 DEF LtvWithin, Covers, WithinLtv

\* Every closeout has its reason.
LEMMA CloseoutIsEarned ==
    ASSUME MInv, LimitsRise, [Next]_vars, NEW m \in MarginIds,
           accounts[m].status \in Running, accounts'[m].status \in ClosedOut
    PROVE  ClosedOutForAReason(m)
<1>1. StartMarginLiquidation(m) \/ StartInKindOracleFallback(m)
    BY AccountSteps DEF TakenOnlyBy
<1>2. /\ accounts[m].paymentDefaultDeclared => Overdue(m, accounts[m].defaultDeclaredAt)
      /\ accounts[m].status = "MARGIN_CALL"
            => accounts[m].marginCallDeadline > accounts[m].snapshot.marginCallPeriod
    BY RunningFacts
<1>3. CASE accounts[m].paymentDefaultDeclared
    BY <1>2, <1>3 DEF ClosedOutForAReason
<1>4. CASE ~accounts[m].paymentDefaultDeclared
  <2>1. /\ LiquidationOpen(accounts[m])
        /\ accounts' = [accounts EXCEPT ![m] =
                           Frozen(accounts[m], "LIQUIDATING", nextAuctionId, nextAuctionId)]
    BY <1>1, <1>4 DEF StartMarginLiquidation, CanStartMarginLiquidation,
                      StartInKindOracleFallback, CanStartInKindOracleFallback
  <2>2. PICK new : new = Frozen(accounts[m], "LIQUIDATING", nextAuctionId, nextAuctionId)
    OBVIOUS
  <2>3. accounts \in [MarginIds -> MarginAccount]
    BY DEF MInv, MarginTypeOK
  <2>4. new.status = "LIQUIDATING"
    BY <2>2, <2>3 DEF Frozen, MarginAccount
  <2>5. accounts'[m].status = "LIQUIDATING"
    BY <2>1, <2>2, <2>3, <2>4
  <2>6. \/ ~LtvWithin(accounts[m], accounts[m].snapshot.liquidationLtvBps)
        \/ UncuredCall(accounts[m])
    BY <1>4, <2>1 DEF LiquidationOpen
  <2>7. ~LtvWithin(accounts[m], accounts[m].snapshot.maintenanceLtvBps)
    BY <2>6, BeyondMaintenance DEF UncuredCall
  <2> QED
    BY <1>2, <2>5, <2>6, <2>7 DEF ClosedOutForAReason, UncuredCall
<1> QED
    BY <1>3, <1>4

-----------------------------------------------------------------------------
(* Where collateral leaves the vault.                                       *)

\* Whatever leaves the vault leaves by one of four ways.
LEMMA WaysOut ==
    ASSUME MInv, [Next]_vars, vaultAssets' < vaultAssets
    PROVE  \/ \E a \in Account, n \in Amounts, b \in Recipients : WithdrawAvailable(a, n, b)
           \/ \E a \in Account, m \in MarginIds, n \in Amounts, b \in Recipients :
                 WithdrawExcessCollateral(a, m, n, b)
           \/ \E a \in Account, x \in AuctionIds, limit \in Limits : BuyMarginAuction(a, x, limit)
           \/ \E a \in Account, e \in ExposureIds, b \in Recipients :
                 ClaimFailedCollateral(a, e, b)
<1>0. vaultAssets \in Nat /\ Amounts \subseteq Nat
    BY VaultAssumption DEF MInv, MarginTypeOK, VaultTypeOK
<1>1. ~ UNCHANGED vaultAssets
    BY <1>0
<1>2. /\ ~Tick /\ ~UNCHANGED vars /\ ~InvalidateValuation /\ ~ChangeCompliance /\ ~GovernRisk
      /\ ~Administer
    BY <1>1 DEF Tick, vars, InvalidateValuation, ChangeCompliance, GovernRisk, Administer, vaultVars
<1>3. ASSUME NEW a, NEW n \in Amounts PROVE ~DepositCollateral(a, n)
    BY <1>0 DEF DepositCollateral, CanDepositCollateral, DepositFor, CanDeposit
<1>4. ASSUME NEW a, NEW q PROVE ~OpenMarginAccount(a, q)
    BY <1>1 DEF OpenMarginAccount, CanOpenMarginAccount, ReserveMargin, tokensUnchanged
<1>5. ASSUME NEW a, NEW m, NEW n PROVE ~AddMarginCollateral(a, m, n) /\ ~CloseMarginAccount(a, m)
    BY <1>1 DEF AddMarginCollateral, AddMargin, CloseMarginAccount, CanCloseMarginAccount,
                ReleaseMargin, tokensUnchanged,
                vaultVars
<1>6. ASSUME NEW m PROVE ~StartMarginLiquidation(m) /\ ~StartInKindOracleFallback(m)
    BY <1>1 DEF StartMarginLiquidation, CanStartMarginLiquidation, StartInKindOracleFallback,
                CanStartInKindOracleFallback, AllocateMarginAuction,
                tokensUnchanged
<1>7. ASSUME NEW a, NEW m, NEW principal, NEW rate, NEW limit
      PROVE  ~FundMarginAccount(a, m, principal, rate, limit)
    BY <1>1 DEF FundMarginAccount, CanFundMarginAccount, vaultVars
<1>8. ASSUME NEW a, NEW e, NEW limit, NEW useEscrow PROVE ~RepayExposure(a, e, limit, useEscrow)
    BY <1>1 DEF RepayExposure, CanRepayExposure, vaultVars
<1>9. ASSUME NEW a, NEW m PROVE ~CloseFunding(a, m) /\ ~OpenMarginCall(m) /\ ~CureMarginCall(m)
    BY <1>1 DEF CloseFunding, OpenMarginCall, CureMarginCall, CanCureMarginCall, vaultVars
<1>10. ASSUME NEW e
       PROVE  /\ ~DeclarePaymentDefault(e) /\ ~MaterializeLiquidationClaim(e)
              /\ ~FinalizeFailedMarginAuction(e)
    BY <1>1 DEF DeclarePaymentDefault, CanDeclarePaymentDefault, MaterializeLiquidationClaim,
                CanMaterializeLiquidationClaim, ProceedsShare, FinalizeFailedMarginAuction,
                vaultVars
<1>11. ASSUME NEW a, NEW c, NEW n, NEW b PROVE ~EscrowClaim(a, c, n, b)
    BY <1>1 DEF EscrowClaim, vaultVars
<1>12. ASSUME NEW price, NEW observedAt, NEW v, NEW t
       PROVE  ~SubmitValuation(price, observedAt, v, t)
    BY <1>1 DEF SubmitValuation, vaultVars
<1>13. ~LifecycleStep
    BY <1>6, <1>9, <1>10 DEF LifecycleStep
<1>14. PICK a \in Account : SellerStep(a) \/ BuyerStep(a)
    BY <1>2, <1>12, <1>13 DEF Next
<1>15. CASE SellerStep(a)
    BY <1>3, <1>4, <1>5, <1>8, <1>9, <1>15 DEF SellerStep
<1>16. CASE BuyerStep(a)
    BY <1>7, <1>11, <1>16 DEF BuyerStep
<1> QED
    BY <1>14, <1>15, <1>16

\* A seller takes out no more than opening health allows.
LEMMA ExcessOnly ==
    ASSUME MInv, NEW a, NEW m \in MarginIds, NEW n \in Amounts, NEW b,
           WithdrawExcessCollateral(a, m, n, b)
    PROVE  TakenFromAccount(m)
<1>1. PICK account, rest :
        /\ account = accounts[m] /\ rest = account.collateralAmount - n
        /\ account.status = "OPEN" /\ n \in 1..account.collateralAmount
        /\ Covers(rest, account.totalFaceDebt, account.snapshot.initialLtvBps)
        /\ accounts' = [accounts EXCEPT ![m] = [account EXCEPT !.collateralAmount = rest]]
        /\ UNCHANGED availableBalance
    BY DEF WithdrawExcessCollateral, ReleaseMarginTo, SetAccount
<1>2. accounts \in [MarginIds -> MarginAccount] /\ account \in MarginAccount
    BY <1>1 DEF MInv, MarginTypeOK
<1>3. /\ accounts'[m].collateralAmount = rest
      /\ accounts'[m].totalFaceDebt = account.totalFaceDebt
    BY <1>1, <1>2 DEF MarginAccount
<1>4. rest # account.collateralAmount
    BY <1>1, <1>2 DEF MarginAccount
<1> QED
    BY <1>1, <1>3, <1>4 DEF TakenFromAccount, LtvWithin, Running

\* A sale changes an account that has been closed out.
LEMMA SoldOnly ==
    ASSUME MInv, NEW a, NEW x, NEW limit, BuyMarginAuction(a, x, limit)
    PROVE  \E m \in MarginIds : TakenFromAccount(m)
<1>1. PICK m, pool :
        /\ m \in MarginIds
        /\ accounts[m].status = "LIQUIDATING" /\ UNCHANGED availableBalance
        /\ accounts' = [accounts EXCEPT ![m] = [accounts[m] EXCEPT
              !.status = "LIQUIDATED", !.liquidationProceeds = pool, !.remainingProceeds = pool]]
    BY DEF BuyMarginAuction, InAuction, ReleaseAuction, SetAccount
<1>2. accounts'[m].status = "LIQUIDATED"
    BY <1>1 DEF MInv, MarginTypeOK, MarginAccount
<1> QED
    BY <1>1, <1>2 DEF TakenFromAccount, Running, ClosedOut

\* So does a claim in kind.
LEMMA ClaimedOnly ==
    ASSUME MInv, NEW a, NEW e, NEW b, ClaimFailedCollateral(a, e, b)
    PROVE  \E m \in MarginIds : TakenFromAccount(m)
<1>1. PICK m, rest, count :
        /\ m \in MarginIds
        /\ accounts[m].status = "AUCTION_FAILED"
        /\ count = accounts[m].unclaimedExposureCount - 1
        /\ accounts' = [accounts EXCEPT ![m] = [accounts[m] EXCEPT
              !.unclaimedExposureCount = count, !.remainingCollateral = rest]]
        /\ \E pool, amount : PayFromPool(pool, b, amount)
    BY DEF ClaimFailedCollateral, CanClaimFailedCollateral, CollateralShare, SetAccount
<1>2. accounts \in [MarginIds -> MarginAccount]
    BY DEF MInv, MarginTypeOK
<1>3. accounts'[m].unclaimedExposureCount = count /\ count # accounts[m].unclaimedExposureCount
    BY <1>1, <1>2 DEF MarginAccount
<1>4. UNCHANGED availableBalance
    BY <1>1 DEF PayFromPool, ReleaseAuctionPartial, vaultVars, bucketVars
<1>5. accounts[m].status \notin Running /\ accounts[m].status \in ClosedOut
    BY <1>1 DEF Running, ClosedOut
<1>6. accounts[m] # accounts'[m]
    BY <1>3
<1> QED
    BY <1>1, <1>4, <1>5, <1>6 DEF TakenFromAccount

\* Free balance goes to its owner alone, who must still be admitted.
LEMMA OwnBalanceOnly ==
    ASSUME MInv, NEW a \in Account, NEW n \in Amounts, NEW b, WithdrawAvailable(a, n, b)
    PROVE  TakenFromBalance
<1>1. /\ a \in compliant /\ UNCHANGED <<accounts, marginLocked, auctionLocked>>
      /\ availableBalance' = [availableBalance EXCEPT ![a] = @ - n]
      /\ vaultAssets' = vaultAssets - n
    BY DEF WithdrawAvailable, CanWithdrawAvailable, WithdrawTo, Debit, PayOut, CanPayOut,
           engineVars, recordVars
<1>2. availableBalance \in [Account -> Nat] /\ vaultAssets \in Nat /\ n \in Nat
    BY VaultAssumption DEF MInv, MarginTypeOK, VaultTypeOK
<1>3. availableBalance[a] - availableBalance'[a] = n /\ vaultAssets - vaultAssets' = n
    BY <1>1, <1>2
<1> QED
    BY <1>1, <1>3 DEF TakenFromBalance

LEMMA ExitIsAllowed ==
    ASSUME MInv, [Next]_vars, vaultAssets' < vaultAssets
    PROVE  TakenFromBalance \/ \E m \in MarginIds : TakenFromAccount(m)
<1>1. ASSUME NEW a \in Account, NEW n \in Amounts, NEW b \in Recipients, WithdrawAvailable(a, n, b)
      PROVE  TakenFromBalance
    BY <1>1, OwnBalanceOnly
<1>2. ASSUME NEW a \in Account, NEW m \in MarginIds, NEW n \in Amounts, NEW b \in Recipients,
             WithdrawExcessCollateral(a, m, n, b)
      PROVE  TakenFromAccount(m)
    BY <1>2, ExcessOnly
<1>3. ASSUME NEW a, NEW x, NEW limit, BuyMarginAuction(a, x, limit)
      PROVE  \E m \in MarginIds : TakenFromAccount(m)
    BY <1>3, SoldOnly
<1>4. ASSUME NEW a, NEW e, NEW b, ClaimFailedCollateral(a, e, b)
      PROVE  \E m \in MarginIds : TakenFromAccount(m)
    BY <1>4, ClaimedOnly
<1> QED
    BY <1>1, <1>2, <1>3, <1>4, WaysOut

(***************************************************************************)
(* Margin collateral is kept: whatever the oracle, governance and the      *)
(* lenders do, a netting set is closed out only over an overdue exposure,  *)
(* a breach of the liquidation limit or an uncured call, and nothing       *)
(* leaves the vault but a seller's own balance or excess and what has been *)
(* closed out.                                                             *)
(***************************************************************************)
THEOREM MarginCollateralIsKept == Spec => CollateralIsKept
<1> DEFINE Earned == \A m \in MarginIds :
                        accounts[m].status \in Running /\ accounts'[m].status \in ClosedOut
                        => ClosedOutForAReason(m)
           Allowed == vaultAssets' < vaultAssets =>
                         TakenFromBalance \/ \E m \in MarginIds : TakenFromAccount(m)
<1>1. MInv /\ LimitsRise /\ [Next]_vars => [Earned]_vars
    BY CloseoutIsEarned
<1>2. MInv /\ LimitsRise /\ [Next]_vars => [Allowed]_vars
    BY ExitIsAllowed
<1>3. Spec => [][Earned]_vars /\ [][Allowed]_vars
  <2> HIDE DEF Earned, Allowed
  <2> QED
    BY <1>1, <1>2, MarginInvariance, LimitsRiseAtFirst, LimitsRiseStep, PTL DEF Spec
<1> QED
    BY <1>3 DEF CollateralIsKept, LiquidationIsEarned, MarginCollateralExit

-----------------------------------------------------------------------------
(* Recovery.                                                                *)

\* A lender whose turn has not come is covered by what is left of the pool, and the last one
\* finds less than a unit per lender more than his share.
LEMMA LeftCoversShares ==
    ASSUME MInv, NEW m \in MarginIds, NEW e \in ExposuresOf(m, {"ACTIVE"}),
           accounts[m].status \in {"LIQUIDATED", "AUCTION_FAILED"},
           NEW pool \in Nat, NEW remaining \in Nat, LeftOf(m, pool, remaining),
           NEW share, share = MulDiv(pool, exposures[e].faceDebt, accounts[m].frozenDebt),
           NEW claimants, claimants = Cardinality(ExposuresOf(m, {"ACTIVE"} \cup Claimed))
    PROVE  /\ share \in Nat /\ claimants \in Nat \ {0} /\ share <= remaining
           /\ ExposuresOf(m, {"ACTIVE"}) = {e} => remaining < share + claimants
<1>1. /\ exposures \in [ExposureIds -> Exposure] /\ accounts[m] \in MarginAccount
      /\ NettingSetSound(m) /\ accounts[m].status \in ClosedOut
    BY DEF MInv, MarginTypeOK, RecordsInv, ClosedOut
<1>2. e \in ExposureIds /\ exposures[e].accountId = m /\ exposures[e].status = "ACTIVE"
    BY DEF ExposuresOf
<1>3. PICK whole \in Nat \ {0} : whole = accounts[m].frozenDebt
    BY <1>2, ClaimFacts
<1>4. PICK S, taken : S = ExposuresOf(m, {"ACTIVE"} \cup Claimed) /\ taken = ExposuresOf(m, Claimed)
    OBVIOUS
<1>5. PICK parts, shares : /\ parts = [i \in ExposureIds |-> exposures[i].faceDebt]
                           /\ shares = SharesIn(m, pool)
    OBVIOUS
<1>6. /\ S \subseteq ExposureIds /\ e \in S /\ taken \subseteq S /\ e \notin taken
      /\ IsFiniteSet(S) /\ IsFiniteSet(taken)
  <2>1. /\ S \subseteq ExposureIds /\ e \in S /\ taken \subseteq S /\ e \notin taken
    BY <1>2, <1>4 DEF ExposuresOf, Claimed
  <2> QED
    BY <2>1, MarginAssumption, FS_Subset
<1>7. whole = SumFunctionOnSet(parts, S)
    BY <1>1, <1>3, <1>4, <1>5 DEF NettingSetSound, AggregatesRight, FaceDebtOf
<1>8. \A i \in S : parts[i] \in Nat /\ shares[i] = MulDiv(pool, parts[i], whole)
    BY <1>1, <1>3, <1>5, <1>6 DEF SharesIn, Exposure
<1>9. /\ \A P \in SUBSET S : SumFunctionOnSet(shares, P) <= pool
      /\ pool < SumFunctionOnSet(shares, S) + Cardinality(S)
    BY <1>3, <1>6, <1>7, <1>8, SharesOfPool
<1>10. \A i \in S : shares[i] \in Nat
  <2> SUFFICES ASSUME NEW i \in S PROVE shares[i] \in Nat
    OBVIOUS
  <2>1. PICK q \in Nat : q = parts[i] /\ shares[i] = MulDiv(pool, q, whole)
    BY <1>8
  <2>2. MulDiv(pool, q, whole) \in Nat
    BY <1>3, ShareBounds
  <2> QED
    BY <2>1, <2>2
<1>11. share = shares[e] /\ share \in Nat
    BY <1>2, <1>3, <1>5, <1>6, <1>10 DEF SharesIn
<1>12. PICK P : P = taken \cup {e}
    OBVIOUS
<1>13. P \in SUBSET S
    BY <1>6, <1>12
<1>14. /\ SumFunctionOnSet(shares, P) = SumFunctionOnSet(shares, taken) + share
       /\ SumFunctionOnSet(shares, taken) \in Nat
  <2>1. /\ \A i \in taken \cup {e} : shares[i] \in Int
        /\ \A i \in taken : shares[i] \in Nat
    BY <1>6, <1>10
  <2>2. SumFunctionOnSet(shares, taken \cup {e}) = SumFunctionOnSet(shares, taken) + shares[e]
    BY <1>6, <2>1, SumAdd
  <2>3. SumFunctionOnSet(shares, taken) \in Nat
    BY <1>6, <2>1, SumNat
  <2> QED
    BY <1>11, <1>12, <2>2, <2>3
<1>15. remaining = pool - SumFunctionOnSet(shares, taken)
    BY <1>4, <1>5 DEF LeftOf
<1>16. share <= remaining
    BY <1>9, <1>11, <1>13, <1>14, <1>15
<1>17. claimants = Cardinality(S) /\ claimants \in Nat \ {0}
  <2>1. Cardinality(S) \in Nat /\ Cardinality(S) # 0
    BY <1>6, FS_CardinalityType, FS_EmptySet
  <2> QED
    BY <1>4, <2>1
<1>18. ASSUME ExposuresOf(m, {"ACTIVE"}) = {e} PROVE remaining < share + claimants
  <2>1. S = P
    BY <1>4, <1>12, <1>18 DEF ExposuresOf
  <2>2. pool < SumFunctionOnSet(shares, P) + claimants
    BY <1>9, <1>17, <2>1
  <2> QED
    BY <1>11, <1>14, <1>15, <1>17, <2>2
<1> QED
    BY <1>11, <1>16, <1>17, <1>18

\* What a claim takes out of what is left is a fair share.
LEMMA FairShare ==
    ASSUME MInv, NEW m \in MarginIds, NEW e \in ExposureIds, exposures[e].accountId = m,
           exposures[e].status = "ACTIVE", accounts[m].status \in {"LIQUIDATED", "AUCTION_FAILED"},
           NEW pool \in Nat, NEW remaining \in Nat, LeftOf(m, pool, remaining), NEW amount,
           amount = ProRataShare(accounts[m], exposures[e], pool, remaining)
    PROVE  /\ amount \in Nat /\ amount <= remaining
           /\ SharedOut(e, m, pool, remaining, remaining - amount,
                        Cardinality(ExposuresOf(m, {"ACTIVE"} \cup Claimed)))
<1>1. PICK share, claimants :
        /\ share = MulDiv(pool, exposures[e].faceDebt, accounts[m].frozenDebt)
        /\ claimants = Cardinality(ExposuresOf(m, {"ACTIVE"} \cup Claimed))
    OBVIOUS
<1>2. PICK active : active = ExposuresOf(m, {"ACTIVE"})
    OBVIOUS
<1>3. e \in active /\ IsFiniteSet(active)
  <2>1. e \in active /\ active \in SUBSET ExposureIds
    BY <1>2 DEF ExposuresOf
  <2> QED
    BY <2>1, MarginAssumption, FS_Subset
<1>4. /\ share \in Nat /\ claimants \in Nat \ {0} /\ share <= remaining
      /\ active = {e} => remaining < share + claimants
    BY <1>1, <1>2, <1>3, LeftCoversShares
<1>5. accounts[m].unclaimedExposureCount = 1 <=> active = {e}
  <2>1. accounts[m].unclaimedExposureCount = Cardinality(active)
    BY <1>2, ClaimFacts
  <2>2. Cardinality(active \ {e}) = Cardinality(active) - 1 /\ IsFiniteSet(active \ {e})
    BY <1>3, FS_RemoveElement
  <2>3. Cardinality(active) \in Nat /\ (Cardinality(active \ {e}) = 0 <=> active \ {e} = {})
    BY <1>3, <2>2, FS_EmptySet, FS_CardinalityType
  <2> QED
    BY <1>3, <2>1, <2>2, <2>3
<1>6. amount = IF active = {e} THEN remaining ELSE share
    BY <1>1, <1>5 DEF ProRataShare
<1>7. remaining - (remaining - amount) = amount /\ amount \in Nat /\ amount <= remaining
    BY <1>4, <1>6
<1>8. /\ amount >= share /\ (amount = share \/ active = {e}) /\ amount < share + claimants
      /\ active = {e} => remaining - amount = 0
    BY <1>4, <1>6
<1> QED
    BY <1>1, <1>2, <1>7, <1>8 DEF SharedOut

\* An exposure is claimed by a claim on it and by nothing else.
LEMMA ClaimedByClaims ==
    ASSUME MInv, [Next]_vars, NEW e \in ExposureIds, exposures[e].status = "ACTIVE",
           exposures'[e].status \in Claimed
    PROVE  MaterializeLiquidationClaim(e) \/ \E a, b : ClaimFailedCollateral(a, e, b)
<1>0. exposures \in [ExposureIds -> Exposure]
    BY DEF MInv, MarginTypeOK
<1>1. exposures'[e] # exposures[e] /\ exposures'[e].status \notin {"ACTIVE", "REPAID"}
    BY DEF Claimed
<1>2. /\ ~Tick /\ ~UNCHANGED vars /\ ~InvalidateValuation /\ ~ChangeCompliance /\ ~GovernRisk
      /\ ~Administer
    BY <1>1 DEF Tick, vars, InvalidateValuation, ChangeCompliance, GovernRisk, Administer,
                engineVars, recordVars
<1>3. ASSUME NEW a, NEW n, NEW b
      PROVE  /\ ~DepositCollateral(a, n) /\ ~WithdrawAvailable(a, n, b) /\ ~OpenMarginAccount(a, n)
             /\ \A c : ~EscrowClaim(a, c, n, b)
    BY <1>1 DEF DepositCollateral, CanDepositCollateral, WithdrawAvailable, CanWithdrawAvailable,
                OpenMarginAccount, CanOpenMarginAccount, EscrowClaim,
                engineVars, recordVars
<1>4. ASSUME NEW a, NEW m, NEW n, NEW b
      PROVE  /\ ~AddMarginCollateral(a, m, n) /\ ~WithdrawExcessCollateral(a, m, n, b)
             /\ ~CloseFunding(a, m) /\ ~CloseMarginAccount(a, m)
             /\ ~OpenMarginCall(m) /\ ~CureMarginCall(m)
             /\ ~StartMarginLiquidation(m) /\ ~StartInKindOracleFallback(m)
    BY <1>1 DEF AddMarginCollateral, WithdrawExcessCollateral, CloseFunding, CloseMarginAccount,
                CanCloseMarginAccount,
                OpenMarginCall, CureMarginCall, CanCureMarginCall, StartMarginLiquidation,
                CanStartMarginLiquidation, StartInKindOracleFallback, CanStartInKindOracleFallback
<1>5. ASSUME NEW a, NEW x, NEW limit
      PROVE  /\ ~BuyMarginAuction(a, x, limit) /\ ~FinalizeFailedMarginAuction(x)
             /\ ~DeclarePaymentDefault(x)
    BY <1>1 DEF BuyMarginAuction, FinalizeFailedMarginAuction, DeclarePaymentDefault,
                CanDeclarePaymentDefault
<1>6. ASSUME NEW a, NEW i, NEW limit, NEW useEscrow PROVE ~RepayExposure(a, i, limit, useEscrow)
  <2> SUFFICES ASSUME RepayExposure(a, i, limit, useEscrow) PROVE FALSE
    OBVIOUS
  <2>1. exposures' = [exposures EXCEPT ![i].status = "REPAID"]
    BY DEF RepayExposure, CanRepayExposure
  <2> QED
    BY <1>0, <1>1, <2>1 DEF Exposure
<1>7. ASSUME NEW a, NEW m, NEW principal, NEW rate, NEW limit
      PROVE  ~FundMarginAccount(a, m, principal, rate, limit)
  <2> SUFFICES ASSUME FundMarginAccount(a, m, principal, rate, limit) PROVE FALSE
    OBVIOUS
  <2>1. PICK new : new.status = "ACTIVE" /\ exposures' = [exposures EXCEPT ![nextExposureId] = new]
    BY DEF FundMarginAccount, CanFundMarginAccount
  <2> QED
    BY <1>0, <1>1, <2>1
<1>8. ASSUME NEW price, NEW observedAt, NEW v, NEW t
      PROVE  ~SubmitValuation(price, observedAt, v, t)
    BY <1>1 DEF SubmitValuation, engineVars, recordVars
<1>9. ASSUME NEW i \in ExposureIds,
             MaterializeLiquidationClaim(i) \/ \E a, b : ClaimFailedCollateral(a, i, b)
      PROVE  i = e
  <2>1. PICK status : exposures' = [exposures EXCEPT ![i].status = status]
    BY <1>9 DEF MaterializeLiquidationClaim, CanMaterializeLiquidationClaim, ProceedsShare,
                ClaimFailedCollateral, CanClaimFailedCollateral, CollateralShare
  <2> QED
    BY <1>0, <1>1, <2>1
<1>10. CASE LifecycleStep
    BY <1>4, <1>5, <1>9, <1>10 DEF LifecycleStep
<1>11. CASE \E a \in Account : SellerStep(a)
    BY <1>3, <1>4, <1>6, <1>11 DEF SellerStep
<1>12. CASE \E a \in Account : BuyerStep(a)
    BY <1>3, <1>5, <1>7, <1>9, <1>12 DEF BuyerStep
<1> QED
    BY <1>2, <1>8, <1>10, <1>11, <1>12 DEF Next

\* Each claim takes a fair share of its account's pool.
LEMMA ClaimIsFair ==
    ASSUME MInv, [Next]_vars, NEW e \in ExposureIds, NEW m \in MarginIds,
           exposures[e].accountId = m, exposures[e].status = "ACTIVE",
           exposures'[e].status \in Claimed
    PROVE  SharedPariPassu(e, m)
<1>0. /\ accounts \in [MarginIds -> MarginAccount] /\ exposures \in [ExposureIds -> Exposure]
      /\ NettingSetSound(m)
    BY DEF MInv, MarginTypeOK, RecordsInv
<1>1. CASE MaterializeLiquidationClaim(e)
  <2>1. PICK amount :
          /\ accounts[m].status = "LIQUIDATED"
          /\ amount = ProRataShare(accounts[m], exposures[e], accounts[m].liquidationProceeds,
                                   accounts[m].remainingProceeds)
          /\ exposures' = [exposures EXCEPT ![e].status = "PROCEEDS_CLAIMED"]
          /\ accounts' = [accounts EXCEPT ![m] = [accounts[m] EXCEPT
                !.unclaimedExposureCount = accounts[m].unclaimedExposureCount - 1,
                !.remainingProceeds = accounts[m].remainingProceeds - amount]]
    BY <1>1 DEF MaterializeLiquidationClaim, CanMaterializeLiquidationClaim, ProceedsShare,
                SetAccount
  <2>2. PICK pool, remaining \in Nat :
          pool = accounts[m].liquidationProceeds /\ remaining = accounts[m].remainingProceeds
    BY <1>0 DEF MarginAccount
  <2>3. LeftOf(m, pool, remaining)
    BY <1>0, <2>1, <2>2 DEF NettingSetSound, PoolLeft
  <2>4. SharedOut(e, m, pool, remaining, remaining - amount,
                  Cardinality(ExposuresOf(m, {"ACTIVE"} \cup Claimed)))
    BY <2>1, <2>2, <2>3, FairShare
  <2>5. /\ accounts'[m].remainingProceeds = accounts[m].remainingProceeds - amount
        /\ exposures'[e].status = "PROCEEDS_CLAIMED"
    BY <1>0, <2>1 DEF MarginAccount, Exposure
  <2> QED
    BY <2>1, <2>2, <2>4, <2>5 DEF SharedPariPassu
<1>2. CASE \E a, b : ClaimFailedCollateral(a, e, b)
  <2>1. PICK amount :
          /\ accounts[m].status = "AUCTION_FAILED"
          /\ amount = ProRataShare(accounts[m], exposures[e], accounts[m].collateralAmount,
                                   accounts[m].remainingCollateral)
          /\ exposures' = [exposures EXCEPT ![e].status = "COLLATERAL_CLAIMED"]
          /\ accounts' = [accounts EXCEPT ![m] = [accounts[m] EXCEPT
                !.unclaimedExposureCount = accounts[m].unclaimedExposureCount - 1,
                !.remainingCollateral = accounts[m].remainingCollateral - amount]]
    BY <1>2 DEF ClaimFailedCollateral, CanClaimFailedCollateral, CollateralShare, SetAccount
  <2>2. PICK pool, remaining \in Nat :
          pool = accounts[m].collateralAmount /\ remaining = accounts[m].remainingCollateral
    BY <1>0 DEF MarginAccount
  <2>3. LeftOf(m, pool, remaining)
    BY <1>0, <2>1, <2>2 DEF NettingSetSound, PoolLeft
  <2>4. SharedOut(e, m, pool, remaining, remaining - amount,
                  Cardinality(ExposuresOf(m, {"ACTIVE"} \cup Claimed)))
    BY <2>1, <2>2, <2>3, FairShare
  <2>5. /\ accounts'[m].remainingCollateral = accounts[m].remainingCollateral - amount
        /\ exposures'[e].status = "COLLATERAL_CLAIMED"
    BY <1>0, <2>1 DEF MarginAccount, Exposure
  <2> QED
    BY <2>1, <2>2, <2>4, <2>5 DEF SharedPariPassu
<1> QED
    BY <1>1, <1>2, ClaimedByClaims

(***************************************************************************)
(* Recovery is pari passu: in whatever order the lenders of a netting set  *)
(* claim, each is given his rounded share by face debt, the last what is   *)
(* left, which is no less than his share and less than a unit per lender   *)
(* above it.                                                               *)
(***************************************************************************)
THEOREM RecoveryIsPariPassu == Spec => PariPassu
<1> DEFINE Fair == \A e \in ExposureIds, m \in MarginIds :
                     /\ exposures[e].accountId = m
                     /\ exposures[e].status = "ACTIVE" /\ exposures'[e].status \in Claimed
                     => SharedPariPassu(e, m)
<1>1. MInv /\ [Next]_vars => [Fair]_vars
    BY ClaimIsFair
<1>2. Spec => [][Fair]_vars
  <2> HIDE DEF Fair
  <2> QED
    BY <1>1, MarginInvariance, PTL DEF Spec
<1> QED
    BY <1>2 DEF PariPassu

\* In the bucket of a failed closeout's pool lies what is left for its lenders, and the vault
\* has it.
LEMMA PoolHolds ==
    ASSUME MInv, VaultBooks, NEW m \in MarginIds, accounts[m].status = "AUCTION_FAILED"
    PROVE  /\ auctionLocked[accounts[m].claimPoolId].amount = accounts[m].remainingCollateral
           /\ accounts[m].remainingCollateral <= totalAccounted
           /\ accounts[m].remainingCollateral <= vaultAssets
<1>1. PICK x, left : x = accounts[m].claimPoolId /\ left = accounts[m].remainingCollateral
    OBVIOUS
<1>2. accounts[m] \in MarginAccount /\ AccountSound(m) /\ VaultTypeOK /\ VaultSolvent
    BY DEF MInv, MarginTypeOK, RecordsInv, NettingSetSound, VaultBooks
<1>3. x \in AuctionIds /\ left \in Nat
    BY <1>1, <1>2 DEF AccountSound, PoolNamed, MarginAccount
<1>4. auctionLocked[x].amount = left
  <2>1. LiesIn(m, x) /\ PoolCustody(x)
    BY <1>1, <1>3 DEF LiesIn, MInv, PoolsInv
  <2>2. auctionLocked[x] = HeldFor(accounts[m].seller, left)
    BY <1>1, <2>1 DEF PoolCustody, PoolOf
  <2> QED
    BY <1>3, <2>2 DEF HeldFor, FullBucket, EmptyBucket
<1>5. PICK pools : pools = AmountsOf(auctionLocked)
    OBVIOUS
<1>6. pools[x] = left /\ \A i \in AuctionIds : pools[i] \in Nat
    BY <1>2, <1>3, <1>4, <1>5 DEF AmountsOf, VaultTypeOK, Bucket
<1>7. left <= SumFunction(pools)
  <2>1. DOMAIN pools = AuctionIds
    BY <1>2, <1>5 DEF AmountsOf, VaultTypeOK
  <2>2. pools[x] <= SumFunctionOnSet(pools, AuctionIds)
    BY <1>3, <1>6, AuctionIdsAssumption, SumNat
  <2> QED
    BY <1>6, <2>1, <2>2 DEF SumFunction
<1>8. /\ SumFunction(pools) <= totalAccounted /\ totalAccounted <= vaultAssets
      /\ SumFunction(pools) \in Nat /\ totalAccounted \in Nat /\ vaultAssets \in Nat
  <2>1. /\ SumFunction(availableBalance) \in Nat /\ Total(offerReserved) \in Nat
        /\ Total(positionLocked) \in Nat /\ Total(auctionLocked) \in Nat
        /\ Total(marginLocked) \in Nat
    BY <1>2, InsideType
  <2>2. /\ totalAccounted = SumFunction(availableBalance) + Total(offerReserved)
                              + Total(positionLocked) + Total(auctionLocked) + Total(marginLocked)
        /\ totalAccounted <= vaultAssets
    BY <1>2 DEF VaultSolvent, Total
  <2>3. SumFunction(pools) = Total(auctionLocked)
    BY <1>5 DEF Total
  <2>4. totalAccounted \in Nat /\ vaultAssets \in Nat
    BY <1>2 DEF VaultTypeOK
  <2> QED
    BY <2>1, <2>2, <2>3, <2>4
<1> QED
    BY <1>1, <1>3, <1>4, <1>7, <1>8

\* No account's proceeds are more than all of them.
LEMMA ProceedsInSum ==
    ASSUME MInv, NEW m \in MarginIds
    PROVE  accounts[m].remainingProceeds <= SumFunction(Proceeds)
<1>1. PICK f : f = Proceeds
    OBVIOUS
<1>2. DOMAIN f = MarginIds /\ \A i \in MarginIds : f[i] \in Nat /\ f[i] = accounts[i].remainingProceeds
    BY <1>1 DEF Proceeds, MInv, MarginTypeOK, MarginAccount
<1>3. f[m] <= SumFunctionOnSet(f, MarginIds)
    BY <1>2, VaultAssumption, SumNat
<1> QED
    BY <1>1, <1>2, <1>3 DEF SumFunction

LEMMA SharesCovered == MInv /\ VaultBooks /\ SharesSpared => EveryShareIsCovered
<1> SUFFICES ASSUME MInv, VaultBooks, SharesSpared, NEW e \in ExposureIds, NEW m \in MarginIds,
                    exposures[e].accountId = m, exposures[e].status = "ACTIVE"
             PROVE  ShareIsCovered(e, m)
    BY DEF EveryShareIsCovered
<1>0. accounts[m] \in MarginAccount /\ PoolLeft(m)
    BY DEF MInv, MarginTypeOK, RecordsInv, NettingSetSound
<1>1. CASE accounts[m].status = "LIQUIDATED"
  <2>1. PICK pool, remaining \in Nat :
          pool = accounts[m].liquidationProceeds /\ remaining = accounts[m].remainingProceeds
    BY <1>0 DEF MarginAccount
  <2>2. PICK share : share = ProRataShare(accounts[m], exposures[e], pool, remaining)
    OBVIOUS
  <2>3. share \in Nat /\ share <= remaining
    BY <1>0, <1>1, <2>1, <2>2, FairShare DEF PoolLeft
  <2>4. PICK spare \in Int : spare = SumFunction(Proceeds) /\ Spares(book, spare)
    BY ProceedsType DEF SharesSpared
  <2>5. share <= spare
    BY <2>1, <2>3, <2>4, ProceedsInSum
  <2> QED
    BY <1>1, <2>1, <2>2, <2>3, <2>4, <2>5, SpareIsClaimable DEF ShareIsCovered, ProceedsShare,
                                                                CollateralShare
<1>2. CASE accounts[m].status = "AUCTION_FAILED"
  <2>1. PICK pool, remaining \in Nat :
          pool = accounts[m].collateralAmount /\ remaining = accounts[m].remainingCollateral
    BY <1>0 DEF MarginAccount
  <2>2. PICK share : share = ProRataShare(accounts[m], exposures[e], pool, remaining)
    OBVIOUS
  <2>3. share \in Nat /\ share <= remaining
    BY <1>0, <1>2, <2>1, <2>2, FairShare DEF PoolLeft
  <2>4. PICK held, accounted, assets :
          /\ held = auctionLocked[accounts[m].claimPoolId].amount
          /\ accounted = totalAccounted /\ assets = vaultAssets
    OBVIOUS
  <2>5. held = remaining /\ remaining <= accounted /\ remaining <= assets
    BY <1>2, <2>1, <2>4, PoolHolds
  <2>6. accounted \in Nat /\ assets \in Nat
    BY <2>4 DEF MInv, MarginTypeOK, VaultTypeOK
  <2>7. share <= held /\ share <= accounted /\ share <= assets
    BY <2>3, <2>5, <2>6
  <2> QED
    BY <1>2, <2>1, <2>2, <2>3, <2>4, <2>7 DEF ShareIsCovered, ProceedsShare, CollateralShare
<1> QED
    BY <1>1, <1>2 DEF ShareIsCovered, ProceedsShare, CollateralShare

\* A claim whose share is covered can be made.
LEMMA LendersCanClaim ==
    ASSUME EveryShareIsCovered
    PROVE  EveryLenderCanClaim
<1> SUFFICES ASSUME NEW e \in ExposureIds, NEW m \in MarginIds,
                    exposures[e].status = "ACTIVE", exposures[e].accountId = m
             PROVE  /\ accounts[m].status = "LIQUIDATED" => CanMaterializeLiquidationClaim(e, m)
                    /\ /\ accounts[m].status = "AUCTION_FAILED"
                       /\ exposures[e].lender \in compliant
                       => CanClaimFailedCollateral(exposures[e].lender, e, m, exposures[e].lender)
    BY DEF EveryLenderCanClaim
<1>1. ShareIsCovered(e, m)
    BY DEF EveryShareIsCovered
<1>2. accounts[m].status = "LIQUIDATED" => CanMaterializeLiquidationClaim(e, m)
    BY <1>1 DEF ShareIsCovered, CanMaterializeLiquidationClaim
<1>3. accounts[m].status = "AUCTION_FAILED"
         => CanPayFromPool(accounts[m].claimPoolId, CollateralShare(e, m))
    BY <1>1 DEF ShareIsCovered, CanPayFromPool, CanDebitBucket, CanPayOut
<1> QED
    BY <1>1, <1>2, <1>3 DEF ShareIsCovered, CanClaimFailedCollateral

(***************************************************************************)
(* What a closeout leaves reaches its lenders, in every reachable state:   *)
(* whoever has claimed before, and whatever other accounts, auctions and   *)
(* claims share escrow and vault, each lender's share is there and his     *)
(* call succeeds; no rounding, zero share or earlier payment leaves the    *)
(* last lender with a claim that reverts.                                  *)
(***************************************************************************)
THEOREM LendersAreServed == Spec => []SharesAreBacked
<1> DEFINE Covered == VaultBooks /\ SharesSpared
<1>1. Init => Covered
  <2>1. ASSUME Init PROVE VaultBooks
    <3>1. VaultInit
      BY <2>1 DEF Init
    <3> QED
      BY <3>1, EmptyVault
  <2> QED
    BY <2>1, NothingToShare
<1>2. MInv /\ Covered /\ [Next]_vars => Covered'
    BY VaultBooksStep, SharesSparedStep
<1>3. MInv /\ Covered /\ MarginBooks => SharesAreBacked
    BY SharesCovered, LendersCanClaim DEF SharesAreBacked, MarginBooks
<1> QED
  <2> HIDE DEF Covered
  <2> QED
    BY <1>1, <1>2, <1>3, MarginInvariance, MarginBooksBalance, PTL DEF Spec

-----------------------------------------------------------------------------
(* Nobody is locked in: overdue debt can be closed out and sellers can      *)
(* leave.  An auction needs collateral, a length of time and an id that is  *)
(* left, and an account that runs has had no auction.                       *)

\* Debt stands against some collateral.
Secured(account) ==
    account.status \in Running /\ account.totalFaceDebt > 0 => account.collateralAmount > 0

\* What a step may do to an account: what is closed out stays so, what is secured too.
Advances(old, new) ==
    /\ old.status \in ClosedOut => new.status \in ClosedOut
    /\ Secured(old) => Secured(new)

\* What is left of an account's health after a step that checks it.
LEMMA CoveredIsSecured ==
    ASSUME NEW collateral \in Nat, NEW debt, debt # 0, NEW limitBps,
           Covers(collateral, debt, limitBps), valuation.price \in Nat
    PROVE  collateral > 0
<1>1. CollateralValue(collateral, valuation.price) # 0
    BY DEF Covers, WithinLtv
<1>2. \A b \in Nat, c \in Nat \ {0} : MulDiv(0, b, c) = 0
    BY DEF MulDiv
<1>3. CollateralValue(0, valuation.price) = 0
    BY <1>2, ScalesAssumption DEF CollateralValue
<1> QED
    BY <1>1, <1>3

LEMMA AccountsAdvance ==
    ASSUME MInv, [Next]_vars
    PROVE  \A m \in MarginIds : Advances(accounts[m], accounts'[m])
<1> DEFINE Tame == \A m \in MarginIds : Advances(accounts[m], accounts'[m])
<1> SUFFICES Tame
    OBVIOUS
<1>0. /\ accounts \in [MarginIds -> MarginAccount] /\ valuation.price \in Nat
      /\ \A m \in MarginIds : accounts[m] \in MarginAccount
    BY DEF MInv, MarginTypeOK, FeedTypeOK, Valuation
<1>1. ASSUME UNCHANGED accounts PROVE Tame
    BY <1>1 DEF Advances
<1>2. ASSUME NEW m \in MarginIds, NEW new, accounts' = [accounts EXCEPT ![m] = new],
             Advances(accounts[m], new)
      PROVE  Tame
  <2>1. accounts'[m] = new /\ \A n \in MarginIds \ {m} : accounts'[n] = accounts[n]
    BY <1>0, <1>2
  <2>2. \A n \in MarginIds \ {m} : Advances(accounts[n], accounts'[n])
    BY <2>1 DEF Advances
  <2> QED
    BY <1>2, <2>1, <2>2
<1> HIDE DEF Tame
<1>3. CASE Tick \/ UNCHANGED vars
    BY <1>1, <1>3 DEF Tick, vars, engineVars, recordVars
<1>4. CASE InvalidateValuation \/ ChangeCompliance \/ GovernRisk \/ Administer
    BY <1>1, <1>4
       DEF InvalidateValuation, ChangeCompliance, GovernRisk, Administer, recordVars
<1>5. ASSUME NEW price, NEW observedAt, NEW v, NEW t, SubmitValuation(price, observedAt, v, t)
      PROVE  Tame
    BY <1>1, <1>5 DEF SubmitValuation, engineVars, recordVars
<1>6. ASSUME NEW a, NEW n, NEW b,
             DepositCollateral(a, n) \/ WithdrawAvailable(a, n, b) \/ (\E c : EscrowClaim(a, c, n, b))
      PROVE  Tame
    BY <1>1, <1>6 DEF DepositCollateral, CanDepositCollateral, WithdrawAvailable,
                      CanWithdrawAvailable, EscrowClaim, engineVars, recordVars
<1>7. ASSUME NEW a, NEW q, OpenMarginAccount(a, q)
      PROVE  Tame
  <2>1. PICK m, mandate :
          /\ m \in MarginIds /\ m = nextAccountId
          /\ accounts' = [accounts EXCEPT ![m] =
                   [NoMarginAccount EXCEPT
                       !.status = "OPEN", !.seller = a, !.collateralAmount = q.collateralAmount,
                       !.mandate = mandate, !.snapshot = SnapshotOf(risk)]]
    BY <1>7 DEF OpenMarginAccount, CanOpenMarginAccount
  <2>2. PICK new : new = [NoMarginAccount EXCEPT
                        !.status = "OPEN", !.seller = a, !.collateralAmount = q.collateralAmount,
                        !.mandate = mandate, !.snapshot = SnapshotOf(risk)]
    OBVIOUS
  <2>3. new.totalFaceDebt = 0
    BY <2>2, NoAccountType DEF MarginAccount, NoMarginAccount
  <2>4. accounts[m].status = "NONE"
    <3>1. AccountSound(m) /\ nextAccountId \in Nat
      BY <2>1 DEF MInv, RecordsInv, NettingSetSound, MarginTypeOK
    <3> QED
      BY <2>1, <3>1 DEF AccountSound
  <2>5. Advances(accounts[m], new)
    BY <2>3, <2>4 DEF Advances, Secured, ClosedOut
  <2> QED
    BY <1>2, <2>1, <2>2, <2>5
<1>8. ASSUME NEW m \in MarginIds, NEW new, accounts' = [accounts EXCEPT ![m] = new],
             new.status = accounts[m].status,
             new.totalFaceDebt = accounts[m].totalFaceDebt,
             new.collateralAmount = accounts[m].collateralAmount
      PROVE  Tame
    BY <1>2, <1>8 DEF Advances, Secured
<1>9. ASSUME NEW m \in MarginIds, NEW new, accounts' = [accounts EXCEPT ![m] = new],
             accounts[m].status \in ClosedOut => new.status \in ClosedOut,
             new.status \notin Running
      PROVE  Tame
    BY <1>2, <1>9 DEF Advances, Secured
<1>10. ASSUME NEW a, NEW m \in MarginIds, NEW n \in Amounts, AddMarginCollateral(a, m, n)
       PROVE  Tame
  <2>1. PICK new : /\ new = [accounts[m] EXCEPT !.collateralAmount = @ + n]
                   /\ accounts' = [accounts EXCEPT ![m] = new]
    BY <1>10 DEF AddMarginCollateral, SetAccount
  <2>2. /\ new.status = accounts[m].status /\ new.totalFaceDebt = accounts[m].totalFaceDebt
        /\ new.collateralAmount = accounts[m].collateralAmount + n
    BY <1>0, <2>1 DEF MarginAccount
  <2>3. n \in Nat /\ accounts[m].collateralAmount \in Nat
    BY <1>0, VaultAssumption DEF MarginAccount
  <2>4. Advances(accounts[m], new)
    BY <2>2, <2>3 DEF Advances, Secured
  <2> QED
    BY <1>2, <2>1, <2>4
<1>11. ASSUME NEW a, NEW m \in MarginIds, NEW n \in Amounts, NEW b,
              WithdrawExcessCollateral(a, m, n, b)
       PROVE  Tame
  <2>1. PICK remaining, new :
          /\ remaining = accounts[m].collateralAmount - n
          /\ new = [accounts[m] EXCEPT !.collateralAmount = remaining]
          /\ accounts' = [accounts EXCEPT ![m] = new]
          /\ n \in 1..accounts[m].collateralAmount
          /\ Covers(remaining, accounts[m].totalFaceDebt, accounts[m].snapshot.initialLtvBps)
    BY <1>11 DEF WithdrawExcessCollateral, SetAccount
  <2>2. /\ new.status = accounts[m].status /\ new.totalFaceDebt = accounts[m].totalFaceDebt
        /\ new.collateralAmount = remaining
    BY <1>0, <2>1 DEF MarginAccount
  <2>3. remaining \in Nat /\ accounts[m].totalFaceDebt \in Nat
    BY <1>0, <2>1 DEF MarginAccount
  <2>4. accounts[m].totalFaceDebt > 0 => remaining > 0
    BY <1>0, <2>1, <2>3, CoveredIsSecured
  <2> QED
    BY <1>2, <2>1, <2>2, <2>4 DEF Advances, Secured
<1>12. ASSUME NEW a, NEW m \in MarginIds, CloseMarginAccount(a, m)
       PROVE  Tame
  <2>1. PICK new : /\ new = [accounts[m] EXCEPT !.status = "CLOSED", !.collateralAmount = 0]
                   /\ accounts' = [accounts EXCEPT ![m] = new]
                   /\ accounts[m].status = "OPEN"
    BY <1>12 DEF CloseMarginAccount, CanCloseMarginAccount, SetAccount
  <2>2. new.status = "CLOSED"
    BY <1>0, <2>1 DEF MarginAccount
  <2> QED
    BY <1>9, <2>1, <2>2 DEF Running, ClosedOut
<1>13. ASSUME NEW a, NEW m \in MarginIds, CloseFunding(a, m)
       PROVE  Tame
  <2>1. PICK new : /\ new = [accounts[m] EXCEPT !.fundingClosed = TRUE]
                   /\ accounts' = [accounts EXCEPT ![m] = new]
    BY <1>13 DEF CloseFunding, SetAccount
  <2>2. /\ new.status = accounts[m].status /\ new.totalFaceDebt = accounts[m].totalFaceDebt
        /\ new.collateralAmount = accounts[m].collateralAmount
    BY <1>0, <2>1 DEF MarginAccount
  <2> QED
    BY <1>8, <2>1, <2>2
<1>14. ASSUME NEW m \in MarginIds, OpenMarginCall(m) \/ CureMarginCall(m)
       PROVE  Tame
  <2>1. CASE OpenMarginCall(m)
    <3>1. PICK deadline, new :
            /\ new = [accounts[m] EXCEPT !.status = "MARGIN_CALL", !.marginCallDeadline = deadline]
            /\ accounts' = [accounts EXCEPT ![m] = new]
            /\ accounts[m].status = "OPEN"
      BY <2>1 DEF OpenMarginCall, SetAccount
    <3>2. /\ new.status = "MARGIN_CALL" /\ new.totalFaceDebt = accounts[m].totalFaceDebt
          /\ new.collateralAmount = accounts[m].collateralAmount
      BY <1>0, <3>1 DEF MarginAccount
    <3>3. Advances(accounts[m], new)
      BY <3>1, <3>2 DEF Advances, Secured, ClosedOut, Running
    <3> QED
      BY <1>2, <3>1, <3>3
  <2>2. CASE CureMarginCall(m)
    <3>1. PICK new :
            /\ new = [accounts[m] EXCEPT !.status = "OPEN", !.marginCallDeadline = 0]
            /\ accounts' = [accounts EXCEPT ![m] = new]
            /\ accounts[m].status = "MARGIN_CALL"
      BY <2>2 DEF CureMarginCall, CanCureMarginCall, SetAccount
    <3>2. /\ new.status = "OPEN" /\ new.totalFaceDebt = accounts[m].totalFaceDebt
          /\ new.collateralAmount = accounts[m].collateralAmount
      BY <1>0, <3>1 DEF MarginAccount
    <3>3. Advances(accounts[m], new)
      BY <3>1, <3>2 DEF Advances, Secured, ClosedOut, Running
    <3> QED
      BY <1>2, <3>1, <3>3
  <2> QED
    BY <1>14, <2>1, <2>2
<1>15. ASSUME NEW e, DeclarePaymentDefault(e)
       PROVE  Tame
  <2>1. PICK m, new :
          /\ m \in MarginIds
          /\ new = [accounts[m] EXCEPT !.paymentDefaultDeclared = TRUE, !.defaultDeclaredAt = now]
          /\ accounts' = [accounts EXCEPT ![m] = new]
    BY <1>15 DEF DeclarePaymentDefault, SetAccount
  <2>2. /\ new.status = accounts[m].status /\ new.totalFaceDebt = accounts[m].totalFaceDebt
        /\ new.collateralAmount = accounts[m].collateralAmount
    BY <1>0, <2>1 DEF MarginAccount
  <2> QED
    BY <1>8, <2>1, <2>2
<1>16. ASSUME NEW a, NEW m \in MarginIds, NEW rate \in Rates, NEW limit,
              NEW principal \in 1..accounts[m].mandate.fundingTarget,
              FundMarginAccount(a, m, principal, rate, limit)
       PROVE  Tame
  <2>1. PICK new : /\ new = Funded(accounts[m], principal, rate)
                   /\ accounts' = [accounts EXCEPT ![m] = new]
    BY <1>16 DEF FundMarginAccount
  <2>2. PICK face : face = FaceDebt(accounts[m], principal, rate)
    OBVIOUS
  <2>3. /\ new.status = accounts[m].status
        /\ new.totalFaceDebt = accounts[m].totalFaceDebt + face
        /\ new.collateralAmount = accounts[m].collateralAmount
    BY <1>0, <2>1, <2>2 DEF Funded, MarginAccount
  <2>4. PICK limitBps : Covers(accounts[m].collateralAmount, accounts[m].totalFaceDebt + face, limitBps)
    BY <1>16, <2>2 DEF FundMarginAccount, CanFundMarginAccount, CanFund
  <2>5. accounts[m].collateralAmount \in Nat
    BY <1>0 DEF MarginAccount
  <2>6. accounts[m].totalFaceDebt + face > 0 => accounts[m].collateralAmount > 0
    BY <1>0, <2>4, <2>5, CoveredIsSecured
  <2> QED
    BY <1>2, <2>1, <2>3, <2>6 DEF Advances, Secured
<1>17. ASSUME NEW a, NEW e \in ExposureIds, NEW limit, NEW useEscrow,
              RepayExposure(a, e, limit, useEscrow)
       PROVE  Tame
  <2>1. PICK m, new :
          /\ m \in MarginIds /\ new = Repaid(accounts[m], exposures[e].faceDebt)
          /\ accounts' = [accounts EXCEPT ![m] = new]
    BY <1>17 DEF RepayExposure, SetAccount
  <2>2. /\ new.status = accounts[m].status
        /\ new.totalFaceDebt = accounts[m].totalFaceDebt - exposures[e].faceDebt
        /\ new.collateralAmount = accounts[m].collateralAmount
    BY <1>0, <2>1 DEF Repaid, MarginAccount
  <2>3. exposures[e].faceDebt \in Nat /\ accounts[m].totalFaceDebt \in Nat
    <3>1. exposures \in [ExposureIds -> Exposure]
      BY DEF MInv, MarginTypeOK
    <3> QED
      BY <1>0, <2>1, <3>1 DEF Exposure, MarginAccount
  <2>4. Advances(accounts[m], new)
    BY <2>2, <2>3 DEF Advances, Secured
  <2> QED
    BY <1>2, <2>1, <2>4
<1>18. ASSUME NEW a, NEW x, NEW limit,
              BuyMarginAuction(a, x, limit) \/ FinalizeFailedMarginAuction(x)
       PROVE  Tame
  <2>1. PICK m, new, pool, remaining :
          /\ m \in MarginIds
          /\ \/ new = [accounts[m] EXCEPT !.status = "LIQUIDATED", !.liquidationProceeds = pool,
                                          !.remainingProceeds = pool]
             \/ new = [accounts[m] EXCEPT !.status = "AUCTION_FAILED",
                                          !.remainingCollateral = remaining]
          /\ accounts' = [accounts EXCEPT ![m] = new]
    BY <1>18 DEF BuyMarginAuction, FinalizeFailedMarginAuction, SetAccount
  <2>2. new.status \in {"LIQUIDATED", "AUCTION_FAILED"}
    BY <1>0, <2>1 DEF MarginAccount
  <2> QED
    BY <1>9, <2>1, <2>2 DEF Running, ClosedOut
<1>19. ASSUME NEW a, NEW e, NEW b, MaterializeLiquidationClaim(e) \/ ClaimFailedCollateral(a, e, b)
       PROVE  Tame
  <2>1. \E m \in MarginIds : \E new :
          /\ new.status = accounts[m].status
          /\ accounts[m].status \in {"LIQUIDATED", "AUCTION_FAILED"}
          /\ accounts' = [accounts EXCEPT ![m] = new]
    BY <1>0, <1>19
       DEF MaterializeLiquidationClaim, CanMaterializeLiquidationClaim,
           ClaimFailedCollateral, CanClaimFailedCollateral, SetAccount, MarginAccount
  <2> QED
    BY <1>9, <2>1 DEF Running, ClosedOut
<1>20. ASSUME NEW m \in MarginIds, StartMarginLiquidation(m) PROVE Tame
  <2>1. PICK new : /\ new = Frozen(accounts[m], "LIQUIDATING", nextAuctionId, nextAuctionId)
                   /\ accounts' = [accounts EXCEPT ![m] = new]
    BY <1>20 DEF StartMarginLiquidation
  <2>2. new.status = "LIQUIDATING"
    BY <1>0, <2>1 DEF Frozen, MarginAccount
  <2> QED
    BY <1>9, <2>1, <2>2 DEF Running, ClosedOut
<1>21. ASSUME NEW m \in MarginIds, StartInKindOracleFallback(m) PROVE Tame
  <2>1. PICK frozen : frozen = Frozen(accounts[m], "AUCTION_FAILED", 0, InKindPool(m))
    OBVIOUS
  <2>2. PICK new : new = [frozen EXCEPT !.remainingCollateral = accounts[m].collateralAmount]
    OBVIOUS
  <2>3. new.status = "AUCTION_FAILED"
    BY <1>0, <2>1, <2>2 DEF Frozen, MarginAccount
  <2>4. accounts' = [accounts EXCEPT ![m] = new]
    BY <1>21, <2>1, <2>2 DEF StartInKindOracleFallback, SetAccount
  <2> QED
    BY <1>9, <2>3, <2>4 DEF Running, ClosedOut
<1>22. CASE \E a \in Account : SellerStep(a)
    BY <1>6, <1>7, <1>10, <1>11, <1>12, <1>13, <1>17, <1>22 DEF SellerStep
<1>23. CASE \E a \in Account : BuyerStep(a)
    BY <1>6, <1>16, <1>18, <1>19, <1>23 DEF BuyerStep
<1>24. CASE LifecycleStep
    BY <1>14, <1>15, <1>18, <1>19, <1>20, <1>21, <1>24 DEF LifecycleStep
<1> QED
    BY <1>3, <1>4, <1>5, <1>22, <1>23, <1>24 DEF Next

\* An auction id is used once, in order, for the account that names it and is closed out.
AuctionIdsInOrder ==
    /\ 1..(nextAuctionId - 1) \subseteq AuctionIds
    /\ \A x \in 1..(nextAuctionId - 1) : accountForAuction[x] # 0
    /\ \A x \in AuctionIds : accountForAuction[x] # 0 =>
          x < nextAuctionId /\ auctionForReference[accountForAuction[x]] = x
    /\ \A m \in MarginIds : auctionForReference[m] # 0 => accounts[m].status \in ClosedOut

\* Every auction will run for some time, and debt is secured.
AuctionsPossible ==
    \A m \in MarginIds : accounts[m].snapshot.auctionDuration > 0 /\ Secured(accounts[m])

LEMMA AuctionsPossibleStep ==
    ASSUME MInv, AuctionsPossible, [Next]_vars
    PROVE  AuctionsPossible'
<1> SUFFICES ASSUME NEW m \in MarginIds
             PROVE  accounts'[m].snapshot.auctionDuration > 0 /\ Secured(accounts'[m])
    BY DEF AuctionsPossible
<1>1. accounts'[m].snapshot \in {accounts[m].snapshot, SnapshotOf(risk)}
    BY AccountSteps DEF TakenOnlyBy
<1>2. risk.auctionDuration > 0
    BY DEF MInv, MarginTypeOK, RiskTypeOK, ValidRisk
<1>3. accounts'[m].snapshot.auctionDuration > 0
    BY <1>1, <1>2 DEF AuctionsPossible, SnapshotOf
<1> QED
    BY <1>3, AccountsAdvance DEF AuctionsPossible, Advances

\* Only the start of a liquidation hands out an auction id.
LEMMA RegisterSteps ==
    ASSUME [Next]_vars
    PROVE  \/ \E m \in MarginIds : StartMarginLiquidation(m)
           \/ UNCHANGED <<accountForAuction, nextAuctionId, auctionForReference>>
<1> DEFINE kept == UNCHANGED <<accountForAuction, nextAuctionId, auctionForReference>>
<1>1. UNCHANGED <<accountForAuction, auctionVars>> => kept
    BY DEF auctionVars
<1>2. ASSUME NEW m, NEW new PROVE SetAccount(m, new) => UNCHANGED accountForAuction
    BY DEF SetAccount
<1> HIDE DEF kept
<1>3. Tick \/ UNCHANGED vars \/ InvalidateValuation \/ ChangeCompliance \/ GovernRisk
         \/ Administer => kept
    BY <1>1 DEF Tick, vars, engineVars, recordVars, InvalidateValuation, ChangeCompliance,
                GovernRisk, Administer
<1>4. ASSUME NEW price, NEW observedAt, NEW v, NEW t
      PROVE  SubmitValuation(price, observedAt, v, t) => kept
    BY <1>1 DEF SubmitValuation, engineVars, recordVars
<1>5. ASSUME NEW a, NEW n, NEW b, NEW c
      PROVE  DepositCollateral(a, n) \/ WithdrawAvailable(a, n, b) \/ EscrowClaim(a, c, n, b) => kept
    BY <1>1 DEF DepositCollateral, WithdrawAvailable, EscrowClaim, engineVars, recordVars
<1>6. ASSUME NEW a, NEW q PROVE OpenMarginAccount(a, q) => kept
    BY <1>1 DEF OpenMarginAccount
<1>7. ASSUME NEW a, NEW m, NEW n, NEW b
      PROVE  AddMarginCollateral(a, m, n) \/ WithdrawExcessCollateral(a, m, n, b)
                \/ CloseFunding(a, m) \/ CloseMarginAccount(a, m) => kept
    BY <1>1, <1>2 DEF AddMarginCollateral, WithdrawExcessCollateral, CloseFunding,
                      CloseMarginAccount
<1>8. ASSUME NEW a, NEW m, NEW principal, NEW rate, NEW limit
      PROVE  FundMarginAccount(a, m, principal, rate, limit) => kept
    BY <1>1 DEF FundMarginAccount
<1>9. ASSUME NEW a, NEW e, NEW limit, NEW useEscrow
      PROVE  RepayExposure(a, e, limit, useEscrow) => kept
    BY <1>1, <1>2 DEF RepayExposure
<1>10. ASSUME NEW m
       PROVE  OpenMarginCall(m) \/ CureMarginCall(m) \/ StartInKindOracleFallback(m) => kept
    BY <1>1, <1>2 DEF OpenMarginCall, CureMarginCall, StartInKindOracleFallback
<1>11. ASSUME NEW a, NEW x, NEW limit
       PROVE  BuyMarginAuction(a, x, limit) \/ FinalizeFailedMarginAuction(x) => kept
    BY <1>2 DEF BuyMarginAuction, FinalizeFailedMarginAuction, MarkSold, MarkFailed, kept
<1>12. ASSUME NEW a, NEW e, NEW b
       PROVE  DeclarePaymentDefault(e) \/ MaterializeLiquidationClaim(e)
                 \/ ClaimFailedCollateral(a, e, b) => kept
    BY <1>1, <1>2 DEF DeclarePaymentDefault, MaterializeLiquidationClaim, ClaimFailedCollateral
<1>13. kept \/ \E m \in MarginIds : StartMarginLiquidation(m)
    BY <1>3, <1>4, <1>5, <1>6, <1>7, <1>8, <1>9, <1>10, <1>11, <1>12
       DEF Next, SellerStep, BuyerStep, LifecycleStep
<1> QED
    BY <1>13 DEF kept

LEMMA AuctionIdsStep ==
    ASSUME MInv, AuctionIdsInOrder, [Next]_vars
    PROVE  AuctionIdsInOrder'
<1>1. /\ accountForAuction \in [AuctionIds -> MarginIds \cup {0}]
      /\ auctionForReference \in [MarginIds -> AuctionIds \cup {0}]
      /\ nextAuctionId \in Nat \ {0} /\ 0 \notin MarginIds
    BY MarginAssumption DEF MInv, MarginTypeOK, AuctionTypeOK
<1>2. \A m \in MarginIds : accounts[m].status \in ClosedOut => accounts'[m].status \in ClosedOut
    BY AccountsAdvance DEF Advances
<1>3. CASE UNCHANGED <<accountForAuction, nextAuctionId, auctionForReference>>
    BY <1>2, <1>3 DEF AuctionIdsInOrder
<1>4. ASSUME NEW m \in MarginIds, StartMarginLiquidation(m)
      PROVE  AuctionIdsInOrder'
  <2>1. PICK x : x = nextAuctionId
    OBVIOUS
  <2>2. /\ x \in AuctionIds /\ nextAuctionId' = x + 1 /\ x \in Nat \ {0}
        /\ auctionForReference[m] = 0
        /\ accountForAuction' = [accountForAuction EXCEPT ![x] = m]
        /\ auctionForReference' = [auctionForReference EXCEPT ![m] = x]
    BY <1>1, <1>4, <2>1 DEF StartMarginLiquidation, CanStartMarginLiquidation, Create, CanCreate
  <2>3. accounts'[m].status \in ClosedOut
    <3>1. PICK new : /\ new = Frozen(accounts[m], "LIQUIDATING", nextAuctionId, nextAuctionId)
                     /\ accounts' = [accounts EXCEPT ![m] = new]
      BY <1>4 DEF StartMarginLiquidation
    <3>2. accounts \in [MarginIds -> MarginAccount]
      BY DEF MInv, MarginTypeOK
    <3>3. new.status = "LIQUIDATING" /\ accounts'[m] = new
      BY <3>1, <3>2 DEF Frozen, MarginAccount
    <3> QED
      BY <3>3 DEF ClosedOut
  <2>4. 1..(nextAuctionId' - 1) \subseteq AuctionIds
    BY <2>1, <2>2 DEF AuctionIdsInOrder
  <2>5. ASSUME NEW y \in 1..(nextAuctionId' - 1) PROVE accountForAuction'[y] # 0
    BY <1>1, <2>1, <2>2, <2>4 DEF AuctionIdsInOrder
  <2>6. ASSUME NEW y \in AuctionIds, accountForAuction'[y] # 0
        PROVE  y < nextAuctionId' /\ auctionForReference'[accountForAuction'[y]] = y
    <3>1. CASE y = x
      BY <1>1, <2>2, <3>1
    <3>2. CASE y # x
      <4>1. PICK n : n = accountForAuction[y]
        OBVIOUS
      <4>2. accountForAuction'[y] = n /\ n \in MarginIds /\ y < x /\ auctionForReference[n] = y
        BY <1>1, <2>1, <2>2, <2>6, <3>2, <4>1 DEF AuctionIdsInOrder
      <4>3. n # m /\ y # 0
        BY <2>2, <4>2, AuctionIdsAssumption
      <4> QED
        BY <1>1, <2>2, <4>2, <4>3, AuctionIdsAssumption
    <3> QED
      BY <3>1, <3>2
  <2>7. ASSUME NEW n \in MarginIds, auctionForReference'[n] # 0
        PROVE  accounts'[n].status \in ClosedOut
    BY <1>1, <1>2, <2>2, <2>3, <2>7 DEF AuctionIdsInOrder
  <2> QED
    BY <2>4, <2>5, <2>6, <2>7 DEF AuctionIdsInOrder
<1> QED
    BY <1>3, <1>4, RegisterSteps

\* While an account runs, there is an auction id left for it.
LEMMA AuctionIdLeft ==
    ASSUME MInv, AuctionIdsInOrder, NEW m \in MarginIds, accounts[m].status \in Running
    PROVE  nextAuctionId \in AuctionIds /\ auctionForReference[m] = 0
<1> DEFINE used == 1..(nextAuctionId - 1)
           f == [x \in used |-> accountForAuction[x]]
<1>1. /\ accountForAuction \in [AuctionIds -> MarginIds \cup {0}]
      /\ nextAuctionId \in Nat \ {0} /\ used \subseteq AuctionIds
    BY DEF MInv, MarginTypeOK, AuctionTypeOK, AuctionIdsInOrder
<1>2. auctionForReference[m] = 0
    BY DEF AuctionIdsInOrder, Running, ClosedOut
<1>3. ASSUME NEW x \in used
      PROVE  f[x] \in MarginIds \ {m} /\ auctionForReference[f[x]] = x
  <2>1. /\ f[x] = accountForAuction[x] /\ x \in AuctionIds /\ accountForAuction[x] # 0
        /\ auctionForReference[accountForAuction[x]] = x
    BY <1>1 DEF AuctionIdsInOrder
  <2>2. accountForAuction[x] # m
    BY <1>2, <2>1, AuctionIdsAssumption
  <2> QED
    BY <1>1, <2>1, <2>2
<1> HIDE DEF used
<1>4. f \in Injection(used, MarginIds \ {m})
  <2>1. f \in [used -> MarginIds \ {m}]
    BY <1>3
  <2>2. \A x, y \in used : f[x] = f[y] => x = y
    BY <1>3
  <2> QED
    BY <2>1, <2>2 DEF Injection, IsInjective
<1>5. /\ IsFiniteSet(MarginIds \ {m})
      /\ Cardinality(MarginIds \ {m}) = Cardinality(MarginIds) - 1
      /\ Cardinality(MarginIds) \in Nat
    BY VaultAssumption, FS_RemoveElement, FS_CardinalityType
<1>6. Cardinality(used) <= Cardinality(MarginIds) - 1
  <2> HIDE DEF f
  <2> QED
    BY <1>4, <1>5, FS_Injection
<1>7. Cardinality(used) = nextAuctionId - 1
    BY <1>1, FS_Interval DEF used
<1>8. nextAuctionId \in 1..Cardinality(MarginIds)
    BY <1>1, <1>5, <1>6, <1>7
<1> QED
    BY <1>2, <1>8, AuctionIdsSuffice

\* The collateral of a running account in debt can be taken to a pool.
LEMMA CollateralHeld ==
    ASSUME MInv, AuctionsPossible, NEW m \in MarginIds, accounts[m].status \in Running,
           accounts[m].totalFaceDebt > 0
    PROVE  /\ accounts[m].collateralAmount > 0
           /\ Owns(marginLocked[m], accounts[m].seller) /\ marginLocked[m].amount > 0
<1>1. accounts[m].collateralAmount > 0
    BY DEF AuctionsPossible, Secured
<1>2. /\ accounts[m].collateralAmount \in Nat /\ accounts[m].seller \in Account
      /\ marginLocked[m] = HeldFor(accounts[m].seller, accounts[m].collateralAmount)
    BY RunningFacts
<1> QED
    BY <1>1, <1>2, AccountAssumption DEF HeldFor, FullBucket, Owns

\* With a fresh price anybody can start the auction of a declared default.
LEMMA LiquidationCanStart ==
    ASSUME MInv, AuctionIdsInOrder, AuctionsPossible, NEW m \in MarginIds,
           accounts[m].status \in Running, accounts[m].paymentDefaultDeclared,
           PriceIsFresh(accounts[m].snapshot.maxOracleAge)
    PROVE  CanStartMarginLiquidation(m)
<1>1. PICK account \in MarginAccount : account = accounts[m]
    BY DEF MInv, MarginTypeOK
<1>2. account.totalFaceDebt > 0 /\ account.totalFaceDebt \in Nat /\ account.collateralAmount \in Nat
    BY <1>1, RunningFacts
<1>3. account.collateralAmount > 0 /\ Owns(marginLocked[m], account.seller)
      /\ marginLocked[m].amount > 0
    BY <1>1, <1>2, CollateralHeld
<1>4. nextAuctionId \in AuctionIds /\ auctionForReference[m] = 0
    BY AuctionIdLeft
<1>5. auctionLocked[nextAuctionId].owner = NoAccount
  <2>1. PoolCustody(nextAuctionId)
    BY <1>4 DEF MInv, PoolsInv
  <2>2. auctionLocked[nextAuctionId] = EmptyBucket
    BY <1>4, <2>1, NextPoolIsFree DEF PoolCustody
  <2> QED
    BY <2>2 DEF EmptyBucket
<1>6. PICK value \in Nat : value = CollateralValue(account.collateralAmount, valuation.price)
  <2>1. valuation.price \in Nat
    BY DEF MInv, MarginTypeOK, FeedTypeOK, Valuation
  <2> QED
    BY <1>2, <2>1, CollateralValueType
<1>7. PICK floor \in Nat, start \in Nat :
        floor = AuctionFloor(account, value) /\ start = AuctionStart(account, value)
    BY LiquidationPriceType
<1>8. floor > 0 /\ floor <= start
  <2>1. account.snapshot \in Snapshot
    BY DEF MarginAccount
  <2>2. /\ MulDiv(value, account.snapshot.auctionFloorBps, BPS_DENOMINATOR) \in Nat
        /\ MulDivCeil(value, account.snapshot.auctionStartBps, BPS_DENOMINATOR) \in Nat
    BY <2>1, MulDivType, ScalesAssumption DEF Snapshot
  <2>3. floor > 0
    BY <1>7, <2>2 DEF AuctionFloor, Max2
  <2>4. floor <= start
    BY <1>2, <1>7, <2>2 DEF AuctionStart, Max2
  <2> QED
    BY <2>3, <2>4
<1>9. account.snapshot.auctionDuration > 0
    BY <1>1 DEF AuctionsPossible
<1>10. CanCreate(m, account.collateralAmount, start, floor, account.snapshot.auctionDuration)
    BY <1>3, <1>4, <1>8, <1>9 DEF CanCreate
<1> QED
    BY <1>1, <1>2, <1>3, <1>5, <1>6, <1>7, <1>10
       DEF CanStartMarginLiquidation, LtvKnown, LiquidationOpen

\* Without one, the lenders can have the collateral.
LEMMA OverdueResolvable ==
    ASSUME MInv, AuctionIdsInOrder, AuctionsPossible
    PROVE  OverdueAlwaysResolvable
<1> SUFFICES ASSUME NEW e \in ExposureIds, NEW m \in MarginIds,
                    exposures[e].status = "ACTIVE", exposures[e].accountId = m,
                    accounts[m].status \in Running
             PROVE  /\ /\ now > exposures[e].maturity + GracePeriod
                       /\ ~accounts[m].paymentDefaultDeclared
                       => CanDeclarePaymentDefault(e, m)
                    /\ /\ accounts[m].paymentDefaultDeclared
                       /\ now > accounts[m].defaultDeclaredAt
                                   + accounts[m].snapshot.staleOracleFallbackDelay
                       => CanStartMarginLiquidation(m) \/ CanStartInKindOracleFallback(m)
    BY DEF OverdueAlwaysResolvable
<1>1. accounts[m].totalFaceDebt > 0
  <2>1. NettingSetSound(m) /\ ExposureSound(e) /\ exposures \in [ExposureIds -> Exposure]
    BY DEF MInv, MarginTypeOK, RecordsInv
  <2>2. e \in ExposuresOf(m, {"ACTIVE"}) /\ ExposuresOf(m, {"ACTIVE"}) \in SUBSET ExposureIds
    BY DEF ExposuresOf
  <2>3. accounts[m].totalFaceDebt = FaceDebtOf(ExposuresOf(m, {"ACTIVE"}))
    BY <2>1 DEF NettingSetSound, AggregatesRight
  <2>4. FaceDebtOf(ExposuresOf(m, {"ACTIVE"})) # 0
    BY <2>2, NoDebtNoExposure
  <2>5. FaceDebtOf(ExposuresOf(m, {"ACTIVE"})) \in Nat
    BY <2>1, <2>2, ExposureSumTypes
  <2> QED
    BY <2>3, <2>4, <2>5
<1>2. /\ now > exposures[e].maturity + GracePeriod /\ ~accounts[m].paymentDefaultDeclared
      => CanDeclarePaymentDefault(e, m)
    BY <1>1 DEF CanDeclarePaymentDefault
<1>3. ASSUME accounts[m].paymentDefaultDeclared,
             now > accounts[m].defaultDeclaredAt + accounts[m].snapshot.staleOracleFallbackDelay,
             ~PriceIsFresh(accounts[m].snapshot.maxOracleAge)
      PROVE  CanStartInKindOracleFallback(m)
  <2>1. Owns(marginLocked[m], accounts[m].seller) /\ marginLocked[m].amount > 0
    BY <1>1, CollateralHeld
  <2>2. auctionLocked[InKindPool(m)] = EmptyBucket
    BY InKindPoolIsFree DEF MInv, PoolsInv, PoolCustody
  <2> QED
    BY <1>3, <2>1, <2>2 DEF CanStartInKindOracleFallback, EmptyBucket
<1> QED
    BY <1>2, <1>3, LiquidationCanStart

LEMMA SellerExits ==
    ASSUME MInv, VaultBooks, SharesSpared
    PROVE  SellerCanExit
<1>0. compliant \subseteq Account /\ book \in Book /\ VaultTypeOK /\ VaultSolvent
    BY DEF MInv, MarginTypeOK, EscrowTypeOK, VaultBooks
<1>1. ASSUME NEW a \in compliant, availableBalance[a] > 0
      PROVE  CanWithdrawAvailable(a, availableBalance[a], a)
  <2>1. CanPayOut(availableBalance[a]) /\ availableBalance[a] \in Nat
    BY <1>0, HeldCanBePaid DEF VaultTypeOK
  <2> QED
    BY <1>0, <1>1, <2>1 DEF CanWithdrawAvailable, CanDebitAvailable
<1>2. ASSUME NEW e \in ExposureIds, NEW m \in MarginIds,
             exposures[e].accountId = m, exposures[e].status = "ACTIVE",
             accounts[m].status \in Running, accounts[m].seller \in compliant,
             CanPay(book, accounts[m].seller, exposures[e].faceDebt)
      PROVE  CanRepayExposure(accounts[m].seller, e, m, exposures[e].faceDebt, TRUE)
  <2>1. PICK faceDebt \in Nat : faceDebt = exposures[e].faceDebt
    BY DEF MInv, MarginTypeOK, Exposure
  <2>2. PICK proceeds \in Nat : Spare(book) = proceeds
    BY ProceedsType DEF SharesSpared, Spares
  <2>3. book.totalClaims <= book.escrowCash
    BY <1>0, <2>2 DEF Spare, Book
  <2>4. CanRecordClaims(PaidToEscrow(book, accounts[m].seller, faceDebt), faceDebt)
    BY <1>0, <1>2, <2>3, PaidInIsClaimable
  <2> QED
    BY <1>2, <2>1, <2>4 DEF CanRepayExposure
<1>3. ASSUME NEW m \in MarginIds, accounts[m].totalFaceDebt = 0, accounts[m].status = "OPEN"
      PROVE  CanCloseMarginAccount(accounts[m].seller, m)
  <2>1. /\ accounts[m].collateralAmount \in Nat /\ accounts[m].seller \in Account
        /\ marginLocked[m] = HeldFor(accounts[m].seller, accounts[m].collateralAmount)
    BY <1>3, RunningFacts DEF Running
  <2>2. accounts[m].collateralAmount > 0
           => /\ Owns(marginLocked[m], accounts[m].seller)
              /\ CanDebitBucket(marginLocked[m], accounts[m].collateralAmount)
    BY <2>1, AccountAssumption DEF HeldFor, FullBucket, Owns, CanDebitBucket
  <2> QED
    BY <1>3, <2>2 DEF CanCloseMarginAccount
<1>4. ASSUME NEW m \in MarginIds, accounts[m].totalFaceDebt = 0,
             accounts[m].status = "MARGIN_CALL"
      PROVE  CanCureMarginCall(m)
  <2>1. ~accounts[m].paymentDefaultDeclared
    BY <1>4, RunningFacts DEF Running
  <2> QED
    BY <1>4, <2>1 DEF CanCureMarginCall, LtvKnown, LtvWithin, Covers
<1> QED
    BY <1>1, <1>2, <1>3, <1>4 DEF SellerCanExit

(***************************************************************************)
(* In every reachable state the lenders of overdue debt have a call that   *)
(* takes its closeout forward, whatever the oracle, the price, governance  *)
(* and other accounts' auctions have done, and a seller can repay, close   *)
(* his account and withdraw without any of them.                           *)
(***************************************************************************)
THEOREM NobodyIsLockedOut == Spec => []NobodyIsLockedIn
<1> DEFINE Books == VaultBooks /\ SharesSpared
           Ways == AuctionIdsInOrder /\ AuctionsPossible
<1>1. Init => Books /\ Ways
  <2> SUFFICES ASSUME Init PROVE Books /\ Ways
    OBVIOUS
  <2>1. Books
    BY EmptyVault, NothingToShare DEF Init
  <2>2. /\ accounts = [m \in MarginIds |-> NoMarginAccount] /\ nextAuctionId = 1
        /\ accountForAuction = [x \in AuctionIds |-> 0]
        /\ auctionForReference = [m \in MarginIds |-> 0]
    BY MarginAssumption DEF Init, AuctionInit
  <2>3. AuctionIdsInOrder
    BY <2>2 DEF AuctionIdsInOrder
  <2>4. AuctionsPossible
    BY <2>2, RiskAssumption
       DEF AuctionsPossible, Secured, Running, NoMarginAccount, SnapshotOf, ValidRisk
  <2> QED
    BY <2>1, <2>3, <2>4
<1>2. MInv /\ Books /\ Ways /\ [Next]_vars => Books' /\ Ways'
    BY VaultBooksStep, SharesSparedStep, AuctionIdsStep, AuctionsPossibleStep
<1>3. MInv /\ Books /\ Ways => NobodyIsLockedIn
    BY OverdueResolvable, SellerExits DEF NobodyIsLockedIn
<1> HIDE DEF Books, Ways
<1> QED
    BY <1>1, <1>2, <1>3, MarginInvariance, PTL DEF Spec

-----------------------------------------------------------------------------
(* Nobody's way out of a margin account is objected to.                     *)

\* The API can vouch for the engine and its custody.
Vouched == Api.sourcesRegistered /\ CustodyRecorded

LEMMA SourcesPass ==
    ASSUME Vouched
    PROVE  Sources = {}
<1>1. Blocking([CONTRACT_NOT_CONFIGURED |-> FALSE]) = {}
    BY DEF Blocking
<1>2. (~Api.sourcesRegistered) = FALSE
    BY DEF Vouched
<1> QED
    BY <1>1, <1>2 DEF Sources

\* Collateral that leaves the vault reaches nobody but the recipient.
LEMMA PaidOutTo ==
    ASSUME MInv, NEW recipient \in Account, NEW amount \in Nat, PayOut(recipient, amount)
    PROVE  CvaReceivers \subseteq {recipient} /\ vaultAssets - vaultAssets' = amount
<1>1. cva \in [Account -> Nat] /\ vaultAssets \in Nat
    BY DEF MInv, MarginTypeOK, VaultTypeOK
<1>2. CvaReceivers \subseteq {recipient}
    BY <1>1 DEF CvaReceivers, PayOut, CanPayOut
<1> QED
    BY <1>1, <1>2 DEF PayOut, CanPayOut

\* Between the vault and a wallet the pool admits, at its wish.
LEMMA PaymentPasses ==
    ASSUME Vouched, NEW owner \in compliant, NEW recipient \in compliant
    PROVE  /\ EvaluateEdges({Edge(Cva, Vault, recipient)}) = {}
           /\ EvaluateParticipants({owner}, Cva) = {}
<1>1. {owner} \in SUBSET compliant
    OBVIOUS
<1> QED
    BY <1>1, EdgePasses, ParticipantsPass DEF Vouched, Passes, CustodyContracts

LEMMA BalanceExits ==
    ASSUME MInv, Vouched, NEW a \in Account, NEW n \in Amounts, NEW b \in Recipients,
           WithdrawAvailable(a, n, b)
    PROVE  CollateralExitPrepared
<1>1. /\ a \in compliant /\ b \in compliant /\ b \in Account
      /\ n \in Nat /\ n <= availableBalance[a] /\ PayOut(b, n)
      /\ availableBalance' = [availableBalance EXCEPT ![a] = @ - n]
      /\ UNCHANGED accounts
    BY VaultAssumption, MarginAssumption
       DEF WithdrawAvailable, CanWithdrawAvailable, WithdrawTo, Debit, CanDebitAvailable,
           engineVars, recordVars
<1>2. availableBalance \in [Account -> Nat] /\ accounts \in [MarginIds -> MarginAccount]
    BY DEF MInv, MarginTypeOK, VaultTypeOK
<1>3. CvaReceivers \subseteq {b} /\ vaultAssets - vaultAssets' = n
    BY <1>1, PaidOutTo
<1>4. WithdrawPreflight(a, n, b).reasons = {}
  <2>1. (availableBalance[a] < n) = FALSE
    BY <1>1, <1>2
  <2>2. Blocking([INSUFFICIENT_BALANCE |-> FALSE]) = {}
    BY DEF Blocking
  <2> QED
    BY <1>1, <2>1, <2>2, SourcesPass, PaymentPasses DEF WithdrawPreflight, Prepared
<1>5. \A c \in Account : availableBalance'[c] < availableBalance[c] => c = a
    BY <1>1, <1>2
<1>6. \A m \in MarginIds : ~(accounts'[m].collateralAmount < accounts[m].collateralAmount)
    BY <1>1, <1>2 DEF MarginAccount
<1> QED
    BY <1>3, <1>4, <1>5, <1>6 DEF CollateralExitPrepared

LEMMA ExcessExits ==
    ASSUME MInv, Vouched, NEW a \in Account, NEW m \in MarginIds, NEW n \in Amounts,
           NEW b \in Recipients, WithdrawExcessCollateral(a, m, n, b)
    PROVE  CollateralExitPrepared
<1>1. PICK account \in MarginAccount : account = accounts[m]
    BY DEF MInv, MarginTypeOK
<1>2. /\ a \in compliant /\ b \in compliant /\ b \in Account /\ a = account.seller
      /\ n \in Nat /\ n <= account.collateralAmount /\ account.collateralAmount \in Nat
      /\ PayOut(b, n) /\ UNCHANGED availableBalance
      /\ accounts' = [accounts EXCEPT
            ![m] = [account EXCEPT !.collateralAmount = account.collateralAmount - n]]
    BY <1>1, MarginAssumption
       DEF WithdrawExcessCollateral, ReleaseMarginTo, SetAccount, MarginAccount
<1>3. availableBalance \in [Account -> Nat] /\ accounts \in [MarginIds -> MarginAccount]
    BY DEF MInv, MarginTypeOK, VaultTypeOK
<1>4. CvaReceivers \subseteq {b} /\ vaultAssets - vaultAssets' = n
    BY <1>2, PaidOutTo
<1>5. WithdrawExcessPreflight(account.seller, m, n, b).reasons = {}
  <2>1. (n > accounts[m].collateralAmount) = FALSE
    BY <1>1, <1>2
  <2>2. Blocking([INSUFFICIENT_BALANCE |-> FALSE]) = {}
    BY DEF Blocking
  <2> QED
    BY <1>1, <1>2, <2>1, <2>2, SourcesPass, PaymentPasses DEF WithdrawExcessPreflight, Prepared
<1>6. \A i \in MarginIds : accounts'[i].collateralAmount < accounts[i].collateralAmount => i = m
  <2> SUFFICES ASSUME NEW i \in MarginIds, i # m
               PROVE  ~(accounts'[i].collateralAmount < accounts[i].collateralAmount)
    OBVIOUS
  <2>1. accounts'[i] = accounts[i] /\ accounts[i].collateralAmount \in Nat
    BY <1>2, <1>3 DEF MarginAccount
  <2> QED
    BY <2>1
<1>7. \A c \in Account : ~(availableBalance'[c] < availableBalance[c])
    BY <1>2, <1>3
<1> QED
    BY <1>1, <1>4, <1>5, <1>6, <1>7 DEF CollateralExitPrepared

\* The other two ways collateral leaves are a sale and a lender's claim.
LEMMA CollateralExits ==
    ASSUME MInv, Vouched, [Next]_vars
    PROVE  CollateralExitPrepared
<1> SUFFICES ASSUME vaultAssets' < vaultAssets, UNCHANGED exposures
             PROVE  CollateralExitPrepared
    BY DEF CollateralExitPrepared
<1>1. availableBalance \in [Account -> Nat] /\ accounts \in [MarginIds -> MarginAccount]
      /\ exposures \in [ExposureIds -> Exposure]
    BY DEF MInv, MarginTypeOK, VaultTypeOK
<1>2. ASSUME NEW a, NEW x, NEW limit, BuyMarginAuction(a, x, limit)
      PROVE  CollateralExitPrepared
  <2>1. PICK m, pool :
          /\ m \in MarginIds
          /\ accounts' = [accounts EXCEPT ![m] = [accounts[m] EXCEPT
                !.status = "LIQUIDATED", !.liquidationProceeds = pool,
                !.remainingProceeds = pool]]
          /\ UNCHANGED availableBalance
    BY <1>2 DEF BuyMarginAuction, ReleaseAuction, SetAccount
  <2>2. \A i \in MarginIds : accounts'[i].collateralAmount = accounts[i].collateralAmount
                             /\ accounts[i].collateralAmount \in Nat
    BY <1>1, <2>1 DEF MarginAccount
  <2>3. \A i \in MarginIds : ~(accounts'[i].collateralAmount < accounts[i].collateralAmount)
    BY <2>2
  <2>4. \A c \in Account : ~(availableBalance'[c] < availableBalance[c])
    BY <1>1, <2>1
  <2> QED
    BY <2>3, <2>4 DEF CollateralExitPrepared
<1>3. ASSUME NEW a, NEW e \in ExposureIds, NEW b, ClaimFailedCollateral(a, e, b)
      PROVE  FALSE
  <2>1. /\ exposures' = [exposures EXCEPT ![e].status = "COLLATERAL_CLAIMED"]
        /\ exposures[e].status = "ACTIVE"
    BY <1>3 DEF ClaimFailedCollateral, CanClaimFailedCollateral, CollateralShare
  <2>2. exposures'[e].status = "COLLATERAL_CLAIMED"
    BY <1>1, <2>1 DEF Exposure
  <2> QED
    BY <2>1, <2>2
<1> QED
    BY <1>2, <1>3, WaysOut, BalanceExits, ExcessExits

\* Who raises a running account's collateral, and who sells one out.
MovedOnlyBy(m) ==
    /\ accounts[m].status \in Running /\ accounts'[m].collateralAmount > accounts[m].collateralAmount
          => \E a \in Account, n \in Amounts : AddMarginCollateral(a, m, n)
    /\ accounts[m].status # "LIQUIDATED" /\ accounts'[m].status = "LIQUIDATED"
          => \E a \in Account, x \in AuctionIds, limit \in Limits :
                BuyMarginAuction(a, x, limit) /\ InAuction(x, m)

LEMMA AccountMoves ==
    ASSUME MInv, [Next]_vars
    PROVE  \A m \in MarginIds : MovedOnlyBy(m)
<1> DEFINE Still == \A m \in MarginIds : MovedOnlyBy(m)
<1> SUFFICES Still
    OBVIOUS
<1>0. /\ accounts \in [MarginIds -> MarginAccount]
      /\ \A m \in MarginIds :
            accounts[m] \in MarginAccount /\ accounts[m].collateralAmount \in Nat
    BY DEF MInv, MarginTypeOK, MarginAccount
<1>1. ASSUME UNCHANGED accounts PROVE Still
    BY <1>0, <1>1 DEF MovedOnlyBy
<1>2. ASSUME NEW m \in MarginIds, NEW new, accounts' = [accounts EXCEPT ![m] = new], MovedOnlyBy(m)
      PROVE  Still
  <2> SUFFICES ASSUME NEW i \in MarginIds, i # m PROVE MovedOnlyBy(i)
    BY <1>2
  <2>1. accounts'[i] = accounts[i] /\ accounts[i].collateralAmount \in Nat
    BY <1>0, <1>2
  <2> QED
    BY <2>1 DEF MovedOnlyBy
<1>3. ASSUME NEW m \in MarginIds, NEW new, accounts' = [accounts EXCEPT ![m] = new],
             \/ accounts[m].status \notin Running
             \/ new.collateralAmount \in Int /\ new.collateralAmount <= accounts[m].collateralAmount,
             new.status # "LIQUIDATED" \/ accounts[m].status = "LIQUIDATED"
      PROVE  Still
  <2>1. accounts'[m] = new /\ accounts[m].collateralAmount \in Nat
    BY <1>0, <1>3
  <2>2. ~(accounts[m].status \in Running /\ new.collateralAmount > accounts[m].collateralAmount)
    BY <1>3, <2>1
  <2>3. MovedOnlyBy(m)
    BY <1>3, <2>1, <2>2 DEF MovedOnlyBy
  <2> QED
    BY <1>2, <1>3, <2>3
<1> HIDE DEF Still
<1>4. ASSUME NEW m \in MarginIds, NEW new, accounts' = [accounts EXCEPT ![m] = new],
             new.collateralAmount = accounts[m].collateralAmount,
             new.status # "LIQUIDATED" \/ accounts[m].status = "LIQUIDATED"
      PROVE  Still
  <2>1. new.collateralAmount \in Int /\ new.collateralAmount <= accounts[m].collateralAmount
    BY <1>0, <1>4
  <2> QED
    BY <1>3, <1>4, <2>1
<1>5. CASE Tick \/ UNCHANGED vars
    BY <1>1, <1>5 DEF Tick, vars, engineVars, recordVars
<1>6. CASE InvalidateValuation \/ ChangeCompliance \/ GovernRisk \/ Administer
    BY <1>1, <1>6
       DEF InvalidateValuation, ChangeCompliance, GovernRisk, Administer, recordVars
<1>7. ASSUME NEW price, NEW observedAt, NEW v, NEW t, SubmitValuation(price, observedAt, v, t)
      PROVE  Still
    BY <1>1, <1>7 DEF SubmitValuation, engineVars, recordVars
<1>8. ASSUME NEW a, NEW n, NEW b,
             DepositCollateral(a, n) \/ WithdrawAvailable(a, n, b) \/ (\E c : EscrowClaim(a, c, n, b))
      PROVE  Still
    BY <1>1, <1>8 DEF DepositCollateral, CanDepositCollateral, WithdrawAvailable,
                      CanWithdrawAvailable, EscrowClaim, engineVars, recordVars
<1>9. ASSUME NEW a, NEW q, OpenMarginAccount(a, q)
      PROVE  Still
  <2>1. PICK m, mandate :
          /\ m \in MarginIds /\ m = nextAccountId
          /\ accounts' = [accounts EXCEPT ![m] =
                   [NoMarginAccount EXCEPT
                       !.status = "OPEN", !.seller = a, !.collateralAmount = q.collateralAmount,
                       !.mandate = mandate, !.snapshot = SnapshotOf(risk)]]
    BY <1>9 DEF OpenMarginAccount, CanOpenMarginAccount
  <2>2. PICK new : new = [NoMarginAccount EXCEPT
                        !.status = "OPEN", !.seller = a, !.collateralAmount = q.collateralAmount,
                        !.mandate = mandate, !.snapshot = SnapshotOf(risk)]
    OBVIOUS
  <2>3. new.status = "OPEN"
    BY <2>2, NoAccountType DEF MarginAccount
  <2>4. accounts[m].status = "NONE"
    <3>1. NettingSetSound(m) /\ nextAccountId \in Nat
      BY <2>1 DEF MInv, RecordsInv, MarginTypeOK
    <3> QED
      BY <2>1, <3>1 DEF NettingSetSound, AccountSound
  <2> QED
    BY <1>3, <2>1, <2>2, <2>3, <2>4 DEF Running
<1>10. ASSUME NEW a \in Account, NEW m \in MarginIds, NEW n \in Amounts, AddMarginCollateral(a, m, n)
       PROVE  Still
  <2>1. PICK new : /\ new.status = accounts[m].status
                   /\ accounts' = [accounts EXCEPT ![m] = new]
    BY <1>0, <1>10 DEF AddMarginCollateral, SetAccount, MarginAccount
  <2>2. accounts'[m] = new
    BY <1>0, <2>1
  <2>3. MovedOnlyBy(m)
    BY <1>10, <2>1, <2>2 DEF MovedOnlyBy
  <2> QED
    BY <1>2, <2>1, <2>3
<1>11. ASSUME NEW a, NEW m \in MarginIds, NEW n, NEW b, WithdrawExcessCollateral(a, m, n, b)
       PROVE  Still
  <2>1. PICK rest, new :
          /\ n \in 1..accounts[m].collateralAmount /\ rest = accounts[m].collateralAmount - n
          /\ new = [accounts[m] EXCEPT !.collateralAmount = rest]
          /\ accounts' = [accounts EXCEPT ![m] = new]
    BY <1>11 DEF WithdrawExcessCollateral, SetAccount
  <2>2. new.status = accounts[m].status /\ new.collateralAmount = rest
    BY <1>0, <2>1 DEF MarginAccount
  <2>3. rest \in Int /\ rest <= accounts[m].collateralAmount
    BY <1>0, <2>1
  <2> QED
    BY <1>3, <2>1, <2>2, <2>3
<1>12. ASSUME NEW a, NEW m \in MarginIds, CloseMarginAccount(a, m)
       PROVE  Still
  <2>1. PICK new : /\ new = [accounts[m] EXCEPT !.status = "CLOSED", !.collateralAmount = 0]
                   /\ accounts' = [accounts EXCEPT ![m] = new]
    BY <1>12 DEF CloseMarginAccount, CanCloseMarginAccount, SetAccount
  <2>2. new.status = "CLOSED" /\ new.collateralAmount = 0
    BY <1>0, <2>1 DEF MarginAccount
  <2>3. new.collateralAmount \in Int /\ new.collateralAmount <= accounts[m].collateralAmount
    BY <1>0, <2>2
  <2>4. new.status # "LIQUIDATED" \/ accounts[m].status = "LIQUIDATED"
    BY <2>2
  <2> QED
    BY <1>3, <2>1, <2>3, <2>4
<1>13. ASSUME NEW a, NEW m \in MarginIds,
              CloseFunding(a, m) \/ OpenMarginCall(m) \/ CureMarginCall(m)
       PROVE  Still
  <2>1. PICK new : /\ new.collateralAmount = accounts[m].collateralAmount
                   /\ new.status # "LIQUIDATED" \/ accounts[m].status = "LIQUIDATED"
                   /\ accounts' = [accounts EXCEPT ![m] = new]
    BY <1>0, <1>13 DEF CloseFunding, OpenMarginCall, CureMarginCall, CanCureMarginCall,
                       SetAccount, MarginAccount
  <2> QED
    BY <1>4, <2>1
<1>14. ASSUME NEW e, DeclarePaymentDefault(e)
       PROVE  Still
  <2>1. \E m \in MarginIds : \E new :
          /\ new.collateralAmount = accounts[m].collateralAmount
          /\ new.status = accounts[m].status
          /\ accounts' = [accounts EXCEPT ![m] = new]
    BY <1>0, <1>14 DEF DeclarePaymentDefault, CanDeclarePaymentDefault, SetAccount, MarginAccount
  <2> QED
    BY <1>4, <2>1
<1>15. ASSUME NEW a, NEW m \in MarginIds, NEW principal, NEW rate, NEW limit,
              FundMarginAccount(a, m, principal, rate, limit)
       PROVE  Still
  <2>1. PICK new : new = Funded(accounts[m], principal, rate)
    OBVIOUS
  <2>2. new.collateralAmount = accounts[m].collateralAmount /\ new.status = accounts[m].status
    BY <1>0, <2>1 DEF Funded, MarginAccount
  <2>3. accounts' = [accounts EXCEPT ![m] = new]
    BY <1>15, <2>1 DEF FundMarginAccount, CanFundMarginAccount
  <2> QED
    BY <1>4, <2>2, <2>3
<1>16. ASSUME NEW a, NEW e, NEW limit, NEW useEscrow, RepayExposure(a, e, limit, useEscrow)
       PROVE  Still
  <2>1. PICK m, new :
          /\ m \in MarginIds
          /\ new = Repaid(accounts[m], exposures[e].faceDebt)
          /\ accounts' = [accounts EXCEPT ![m] = new]
    BY <1>16 DEF RepayExposure, CanRepayExposure, SetAccount
  <2>2. new.collateralAmount = accounts[m].collateralAmount /\ new.status = accounts[m].status
    BY <1>0, <2>1 DEF Repaid, MarginAccount
  <2> QED
    BY <1>4, <2>1, <2>2
<1>17. ASSUME NEW x, FinalizeFailedMarginAuction(x)
       PROVE  Still
  <2>1. \E m \in MarginIds : \E new :
          /\ new.collateralAmount = accounts[m].collateralAmount
          /\ new.status = "AUCTION_FAILED"
          /\ accounts' = [accounts EXCEPT ![m] = new]
    BY <1>0, <1>17 DEF FinalizeFailedMarginAuction, SetAccount, MarginAccount
  <2> QED
    BY <1>4, <2>1
<1>18. ASSUME NEW a, NEW e, NEW b, MaterializeLiquidationClaim(e) \/ ClaimFailedCollateral(a, e, b)
       PROVE  Still
  <2>1. \E m \in MarginIds : \E new :
          /\ new.collateralAmount = accounts[m].collateralAmount
          /\ new.status = accounts[m].status
          /\ accounts' = [accounts EXCEPT ![m] = new]
    BY <1>0, <1>18
       DEF MaterializeLiquidationClaim, CanMaterializeLiquidationClaim, ProceedsShare,
           ClaimFailedCollateral, CanClaimFailedCollateral, CollateralShare, SetAccount,
           MarginAccount
  <2> QED
    BY <1>4, <2>1
<1>19. ASSUME NEW m \in MarginIds, StartMarginLiquidation(m) PROVE Still
  <2>1. PICK new : /\ new = Frozen(accounts[m], "LIQUIDATING", nextAuctionId, nextAuctionId)
                   /\ accounts' = [accounts EXCEPT ![m] = new]
    BY <1>19 DEF StartMarginLiquidation, CanStartMarginLiquidation
  <2>2. new.collateralAmount = accounts[m].collateralAmount /\ new.status = "LIQUIDATING"
    BY <1>0, <2>1 DEF Frozen, MarginAccount
  <2> QED
    BY <1>4, <2>1, <2>2
<1>20. ASSUME NEW m \in MarginIds, StartInKindOracleFallback(m) PROVE Still
  <2>1. PICK frozen : frozen = Frozen(accounts[m], "AUCTION_FAILED", 0, InKindPool(m))
    OBVIOUS
  <2>2. PICK new : new = [frozen EXCEPT !.remainingCollateral = accounts[m].collateralAmount]
    OBVIOUS
  <2>3. new.collateralAmount = accounts[m].collateralAmount /\ new.status = "AUCTION_FAILED"
    BY <1>0, <2>1, <2>2 DEF Frozen, MarginAccount
  <2>4. accounts' = [accounts EXCEPT ![m] = new]
    BY <1>20, <2>1, <2>2 DEF StartInKindOracleFallback, CanStartInKindOracleFallback, SetAccount
  <2> QED
    BY <1>4, <2>3, <2>4
<1>21. ASSUME NEW a \in Account, NEW x \in AuctionIds, NEW limit \in Limits,
              BuyMarginAuction(a, x, limit)
       PROVE  Still
  <2>1. PICK m, pool, new :
          /\ m \in MarginIds /\ InAuction(x, m)
          /\ new = [accounts[m] EXCEPT !.status = "LIQUIDATED", !.liquidationProceeds = pool,
                                       !.remainingProceeds = pool]
          /\ accounts' = [accounts EXCEPT ![m] = new]
    BY <1>21 DEF BuyMarginAuction, SetAccount
  <2>2. accounts'[m] = new /\ new.collateralAmount = accounts[m].collateralAmount
        /\ accounts[m].collateralAmount \in Nat
    BY <1>0, <2>1 DEF MarginAccount
  <2>3. MovedOnlyBy(m)
    BY <1>21, <2>1, <2>2 DEF MovedOnlyBy
  <2> QED
    BY <1>2, <2>1, <2>3
<1>22. CASE \E a \in Account : SellerStep(a)
    BY <1>8, <1>9, <1>10, <1>11, <1>12, <1>13, <1>16, <1>22 DEF SellerStep
<1>23. CASE \E a \in Account : BuyerStep(a)
    BY <1>8, <1>15, <1>18, <1>21, <1>23 DEF BuyerStep
<1>24. CASE LifecycleStep
    BY <1>13, <1>14, <1>17, <1>18, <1>19, <1>20, <1>24 DEF LifecycleStep
<1> QED
    BY <1>5, <1>6, <1>7, <1>22, <1>23, <1>24 DEF Next

\* More collateral for an account, from the seller's free balance.
LEMMA TopUps ==
    ASSUME MInv, Vouched, [Next]_vars
    PROVE  TopUpPrepared
<1> SUFFICES ASSUME NEW m \in MarginIds, accounts[m].status \in Running,
                    accounts'[m].collateralAmount - accounts[m].collateralAmount > 0
             PROVE  AddCollateralPreflight(accounts[m].seller, m,
                        accounts'[m].collateralAmount - accounts[m].collateralAmount).reasons = {}
    BY DEF TopUpPrepared
<1>1. PICK account \in MarginAccount : account = accounts[m]
    BY DEF MInv, MarginTypeOK
<1>2. account.collateralAmount \in Nat /\ accounts \in [MarginIds -> MarginAccount]
      /\ availableBalance \in [Account -> Nat]
    BY DEF MarginAccount, MInv, MarginTypeOK, VaultTypeOK
<1>3. accounts'[m].collateralAmount > accounts[m].collateralAmount
  <2> SUFFICES accounts'[m].collateralAmount \in Nat
    BY <1>1, <1>2
  <2>1. MInv'
    BY NextInvariant
  <2> QED
    BY <2>1 DEF MInv, MarginTypeOK, MarginAccount
<1>4. MovedOnlyBy(m)
    BY AccountMoves
<1>5. PICK a \in Account, n \in Amounts : AddMarginCollateral(a, m, n)
    BY <1>3, <1>4 DEF MovedOnlyBy
<1>6. /\ a = account.seller /\ n \in Nat /\ n <= availableBalance[a]
      /\ accounts' = [accounts EXCEPT
            ![m] = [account EXCEPT !.collateralAmount = account.collateralAmount + n]]
    BY <1>1, <1>2, <1>5, VaultAssumption
       DEF AddMarginCollateral, AddMargin, Debit, CanDebitAvailable, SetAccount, MarginAccount
<1>7. accounts'[m].collateralAmount - account.collateralAmount = n
    BY <1>2, <1>6 DEF MarginAccount
<1>8. (availableBalance[a] < n) = FALSE
    BY <1>2, <1>6
<1>9. Blocking([INSUFFICIENT_BALANCE |-> FALSE]) = {}
    BY DEF Blocking
<1> QED
    BY <1>1, <1>6, <1>7, <1>8, <1>9, SourcesPass DEF AddCollateralPreflight, Prepared

\* A sale: the bidder may buy it, holds the price, and can receive the collateral.
LEMMA SaleExits ==
    ASSUME MInv, Vouched, NEW a \in Account, NEW x \in AuctionIds, NEW m \in MarginIds, NEW limit,
           BuyMarginAuction(a, x, limit), InAuction(x, m)
    PROVE  BuyAuctionPreflight(auctions'[x].buyer, x, 0, auctions'[x].salePrice).reasons = {}
<1>1. PICK auction \in Auction : auction = auctions[x]
    BY DEF MInv, MarginTypeOK, AuctionTypeOK
<1>2. /\ a # accounts[m].seller /\ a \in compliant /\ MarkSold(x, a, limit)
      /\ CanPay(book, a, PriceAt(auctions[x], now)) /\ accountForAuction[x] = m
    BY DEF BuyMarginAuction, InAuction
<1>3. PICK price \in Nat : price = PriceAt(auctions[x], now)
    BY <1>2, LivePrice DEF MarkSold
<1>4. auctions'[x].buyer = a /\ auctions'[x].salePrice = price
  <2>1. PICK sold : sold = [auction EXCEPT !.status = "SOLD", !.buyer = a, !.salePrice = price]
    OBVIOUS
  <2>2. auctions' = [auctions EXCEPT ![x] = sold]
    BY <1>1, <1>2, <1>3, <2>1 DEF MarkSold, MInv, MarginTypeOK, AuctionTypeOK
  <2>3. sold.buyer = a /\ sold.salePrice = price
    BY <2>1 DEF Auction
  <2> QED
    BY <2>2, <2>3 DEF MInv, MarginTypeOK, AuctionTypeOK
<1>5. EvaluateEdges({Edge(Settlement, a, Escrow), Edge(Cva, Vault, a)}) = {}
  <2>1. \A edge \in {Edge(Settlement, a, Escrow), Edge(Cva, Vault, a)} :
           Passes(edge.from) /\ Passes(edge.to)
    BY <1>2 DEF Passes, CustodyContracts, Edge
  <2> QED
    BY <2>1, EdgesPass DEF Vouched
<1>6. FundsReasons(book.cash[a], price, price) = {}
  <2>1. book.cash[a] \in Nat /\ price <= book.cash[a]
    BY <1>2, <1>3 DEF MInv, MarginTypeOK, EscrowTypeOK, Book, CanPay
  <2> QED
    BY <2>1, FundsSuffice
<1>7. (accounts[accountForAuction[x]].seller = a) = FALSE /\ (price < price) = FALSE
    BY <1>2
<1>8. Blocking([BUYER_NOT_PERMITTED |-> FALSE, SLIPPAGE_EXCEEDED |-> FALSE]) = {}
    BY DEF Blocking
<1>9. BuyAuctionPreflight(a, x, 0, price).reasons = {}
    BY <1>3, <1>5, <1>6, <1>7, <1>8, SourcesPass DEF BuyAuctionPreflight, Prepared
<1> QED
    BY <1>4, <1>9

LEMMA AccountExits ==
    ASSUME MInv, Vouched, [Next]_vars, NEW m \in MarginIds,
           accounts'[m].status # accounts[m].status
    PROVE  AccountExitPrepared(m)
<1>1. MovedOnlyBy(m)
    BY AccountMoves
<1>2. AccountPreflight(accounts[m].seller, m, "CLOSE_ACCOUNT").reasons = {}
    BY SourcesPass DEF AccountPreflight, Prepared
<1>3. ASSUME accounts'[m].status = "LIQUIDATED"
      PROVE  BuyAuctionPreflight(auctions'[accounts[m].auctionId].buyer, accounts[m].auctionId, 0,
                                 auctions'[accounts[m].auctionId].salePrice).reasons = {}
  <2>1. PICK a \in Account, x \in AuctionIds, limit \in Limits :
           BuyMarginAuction(a, x, limit) /\ InAuction(x, m)
    BY <1>1, <1>3 DEF MovedOnlyBy
  <2>2. accounts[m].auctionId = x
    BY <2>1 DEF InAuction
  <2> QED
    BY <2>1, <2>2, SaleExits
<1> QED
    BY <1>2, <1>3 DEF AccountExitPrepared

\* Only its repayment ends an exposure as repaid.
LEMMA RepaidByRepayment ==
    ASSUME MInv, [Next]_vars, NEW e \in ExposureIds, exposures[e].status = "ACTIVE",
           exposures'[e].status = "REPAID"
    PROVE  \E a \in Account, limit \in Limits, useEscrow \in BOOLEAN :
              RepayExposure(a, e, limit, useEscrow)
<1>0. exposures \in [ExposureIds -> Exposure]
    BY DEF MInv, MarginTypeOK
<1>1. exposures'[e] # exposures[e]
    OBVIOUS
<1>2. /\ ~Tick /\ ~UNCHANGED vars /\ ~InvalidateValuation /\ ~ChangeCompliance /\ ~GovernRisk
      /\ ~Administer
    BY <1>1 DEF Tick, vars, InvalidateValuation, ChangeCompliance, GovernRisk, Administer,
                engineVars, recordVars
<1>3. ASSUME NEW a, NEW n, NEW b
      PROVE  /\ ~DepositCollateral(a, n) /\ ~WithdrawAvailable(a, n, b) /\ ~OpenMarginAccount(a, n)
             /\ \A c : ~EscrowClaim(a, c, n, b)
    BY <1>1 DEF DepositCollateral, CanDepositCollateral, WithdrawAvailable, CanWithdrawAvailable,
                OpenMarginAccount, CanOpenMarginAccount, EscrowClaim,
                engineVars, recordVars
<1>4. ASSUME NEW a, NEW m, NEW n, NEW b
      PROVE  /\ ~AddMarginCollateral(a, m, n) /\ ~WithdrawExcessCollateral(a, m, n, b)
             /\ ~CloseFunding(a, m) /\ ~CloseMarginAccount(a, m)
             /\ ~OpenMarginCall(m) /\ ~CureMarginCall(m)
             /\ ~StartMarginLiquidation(m) /\ ~StartInKindOracleFallback(m)
    BY <1>1 DEF AddMarginCollateral, WithdrawExcessCollateral, CloseFunding, CloseMarginAccount,
                CanCloseMarginAccount,
                OpenMarginCall, CureMarginCall, CanCureMarginCall, StartMarginLiquidation,
                CanStartMarginLiquidation, StartInKindOracleFallback, CanStartInKindOracleFallback
<1>5. ASSUME NEW a, NEW x, NEW limit
      PROVE  /\ ~BuyMarginAuction(a, x, limit) /\ ~FinalizeFailedMarginAuction(x)
             /\ ~DeclarePaymentDefault(x)
    BY <1>1 DEF BuyMarginAuction, FinalizeFailedMarginAuction, DeclarePaymentDefault,
                CanDeclarePaymentDefault
<1>6. ASSUME NEW a, NEW m, NEW principal, NEW rate, NEW limit
      PROVE  ~FundMarginAccount(a, m, principal, rate, limit)
  <2> SUFFICES ASSUME FundMarginAccount(a, m, principal, rate, limit) PROVE FALSE
    OBVIOUS
  <2>1. PICK new : new.status = "ACTIVE" /\ exposures' = [exposures EXCEPT ![nextExposureId] = new]
    BY DEF FundMarginAccount, CanFundMarginAccount
  <2> QED
    BY <1>0, <2>1
<1>7. ASSUME NEW i
      PROVE  ~MaterializeLiquidationClaim(i) /\ \A a, b : ~ClaimFailedCollateral(a, i, b)
  <2> SUFFICES ASSUME NEW status \in {"PROCEEDS_CLAIMED", "COLLATERAL_CLAIMED"},
                      exposures' = [exposures EXCEPT ![i].status = status]
               PROVE  FALSE
    BY DEF MaterializeLiquidationClaim, CanMaterializeLiquidationClaim, ProceedsShare,
           ClaimFailedCollateral, CanClaimFailedCollateral, CollateralShare
  <2> QED
    BY <1>0, <1>1 DEF Exposure
<1>8. ASSUME NEW price, NEW observedAt, NEW v, NEW t
      PROVE  ~SubmitValuation(price, observedAt, v, t)
    BY <1>1 DEF SubmitValuation, engineVars, recordVars
<1>9. ASSUME NEW a, NEW i, NEW limit, NEW useEscrow, RepayExposure(a, i, limit, useEscrow)
      PROVE  i = e
  <2>1. exposures' = [exposures EXCEPT ![i].status = "REPAID"]
    BY <1>9 DEF RepayExposure, CanRepayExposure
  <2> QED
    BY <1>0, <1>1, <2>1
<1>10. ~LifecycleStep
    BY <1>4, <1>5, <1>7 DEF LifecycleStep
<1>11. \A a \in Account : ~BuyerStep(a)
    BY <1>3, <1>5, <1>6, <1>7 DEF BuyerStep
<1>12. PICK a \in Account : SellerStep(a)
    BY <1>2, <1>8, <1>10, <1>11 DEF Next
<1> QED
    BY <1>3, <1>4, <1>9, <1>12 DEF SellerStep

\* A repayment, whether the lender is paid or credited in escrow.
LEMMA RepaymentExits ==
    ASSUME MInv, Vouched, NEW a \in Account, NEW e \in ExposureIds, NEW limit, NEW useEscrow,
           RepayExposure(a, e, limit, useEscrow)
    PROVE  RepayPreflight(accounts[exposures[e].accountId].seller, e, 0,
                          exposures[e].faceDebt).reasons = {}
<1>1. PICK exposure \in Exposure : exposure = exposures[e]
    BY DEF MInv, MarginTypeOK
<1>2. PICK debt \in Nat : debt = exposure.faceDebt
    BY DEF Exposure
<1>3. PICK m \in MarginIds :
         /\ exposure.accountId = m /\ accounts[m].seller = a /\ a \in compliant
         /\ CanPay(book, a, debt)
    BY <1>1, <1>2 DEF RepayExposure, CanRepayExposure
<1>4. PICK payee : payee = IF PaysIntoEscrow(exposure) THEN Escrow ELSE exposure.lender
    OBVIOUS
<1>5. Passes(payee)
  <2>1. CASE PaysIntoEscrow(exposure)
    BY <1>4, <2>1 DEF Passes, CustodyContracts
  <2>2. CASE ~PaysIntoEscrow(exposure)
    <3>1. payee = exposure.lender /\ ParticipantReasons(payee, Settlement) = {}
      BY <1>4, <2>2 DEF PaysIntoEscrow
    <3> QED
      BY <3>1, PassesAdmitted DEF Passes
  <2> QED
    BY <2>1, <2>2
<1>6. EvaluateEdges({Edge(Settlement, a, payee)}) = {}
    BY <1>3, <1>5, EdgePasses DEF Vouched, Passes
<1>7. FundsReasons(book.cash[a], debt, debt) = {}
  <2>1. book.cash[a] \in Nat /\ debt <= book.cash[a]
    BY <1>3 DEF MInv, MarginTypeOK, EscrowTypeOK, Book, CanPay
  <2> QED
    BY <2>1, FundsSuffice
<1>8. Blocking([SLIPPAGE_EXCEEDED |-> FALSE]) = {} /\ (debt < debt) = FALSE
    BY DEF Blocking
<1>9. RepayPreflight(a, e, 0, debt).reasons = {}
    BY <1>1, <1>2, <1>3, <1>4, <1>6, <1>7, <1>8, SourcesPass DEF RepayPreflight, Prepared
<1> QED
    BY <1>1, <1>2, <1>3, <1>9

\* A lender's share in kind: the API computes what the engine pays, and refuses nothing.
LEMMA ClaimExits ==
    ASSUME MInv, Vouched, NEW a, NEW e \in ExposureIds, NEW b, ClaimFailedCollateral(a, e, b),
           NEW m \in MarginIds, exposures[e].accountId = m,
           NEW share,
           share = ProRataShare(accounts[m], exposures[e], accounts[m].collateralAmount,
                                accounts[m].remainingCollateral),
           NEW c \in compliant
    PROVE  ClaimFailedPreflight(exposures[e].lender, e, c).reasons = ClaimObjections(share)
<1>1. PICK account, exposure : account = accounts[m] /\ exposure = exposures[e]
    OBVIOUS
<1>2. /\ account.status = "AUCTION_FAILED" /\ exposure.status = "ACTIVE"
      /\ a = exposure.lender /\ a \in compliant
      /\ share <= account.remainingCollateral
    BY <1>1 DEF ClaimFailedCollateral, CanClaimFailedCollateral, CollateralShare
<1>3. /\ account \in MarginAccount /\ exposure \in Exposure
      /\ account.frozenDebt \in Nat \ {0} /\ exposure.faceDebt \in Nat
      /\ account.unclaimedExposureCount - 1 \in Nat
    BY <1>1, <1>2, ClaimFacts
<1>4. /\ account.collateralAmount \in Nat /\ account.remainingCollateral \in Nat
      /\ account.unclaimedExposureCount \in Nat
    BY <1>3 DEF MarginAccount
<1>5. share \in Nat
    BY <1>1, <1>3, <1>4, ShareType
<1>6. exposure.faceDebt > 0
  <2>1. exposure.principal \in Nat /\ exposure.principal > 0
        /\ exposure.faceDebt >= exposure.principal
    BY <1>1, <1>2, <1>3 DEF MInv, RecordsInv, ExposureSound, Exposure
  <2> QED
    BY <1>3, <2>1
<1>7. PICK defined : defined = ProRataClaimDefined(account.collateralAmount,
         account.remainingCollateral, exposure.faceDebt, account.frozenDebt,
         account.unclaimedExposureCount)
    OBVIOUS
<1>8. /\ share # 0 => (~defined) = FALSE
      /\ share = 0 => (~defined) = TRUE
  <2>1. ProRataClaim(account.collateralAmount, account.remainingCollateral, exposure.faceDebt,
                     account.frozenDebt, account.unclaimedExposureCount) = share
    BY <1>1 DEF ProRataClaim, ProRataShare
  <2>2. /\ share # 0 => share \in 1..account.remainingCollateral
        /\ share = 0 => share \notin 1..account.remainingCollateral
    BY <1>2, <1>4, <1>5
  <2>3. account.unclaimedExposureCount > 0
    BY <1>3, <1>4
  <2>4. share # 0 => ProRataClaimDefined(account.collateralAmount, account.remainingCollateral,
                         exposure.faceDebt, account.frozenDebt, account.unclaimedExposureCount)
    BY <1>3, <1>6, <2>1, <2>2, <2>3 DEF ProRataClaimDefined
  <2>5. share = 0 => ~ProRataClaimDefined(account.collateralAmount, account.remainingCollateral,
                         exposure.faceDebt, account.frozenDebt, account.unclaimedExposureCount)
    BY <2>1, <2>2 DEF ProRataClaimDefined
  <2> QED
    BY <1>7, <2>4, <2>5
<1>9. /\ Blocking([TRANSACTION_WOULD_REVERT |-> FALSE]) = {}
      /\ Blocking([TRANSACTION_WOULD_REVERT |-> TRUE]) = {"TRANSACTION_WOULD_REVERT"}
    BY DEF Blocking
<1>10. /\ EvaluateEdges({Edge(Cva, Vault, c)}) = {}
       /\ EvaluateParticipants({exposures[e].lender}, Cva) = {}
    BY <1>1, <1>2, PaymentPasses
<1>11. CASE share # 0
    BY <1>1, <1>7, <1>8, <1>9, <1>10, <1>11, SourcesPass
       DEF ClaimFailedPreflight, Prepared, ClaimObjections
<1>12. CASE share = 0
    BY <1>1, <1>7, <1>8, <1>9, <1>10, <1>12, SourcesPass
       DEF ClaimFailedPreflight, Prepared, ClaimObjections
<1> QED
    BY <1>11, <1>12

LEMMA ExposureExits ==
    ASSUME MInv, Vouched, [Next]_vars, NEW e \in ExposureIds, exposures[e].status = "ACTIVE"
    PROVE  ExposureExitPrepared(e)
<1>1. ASSUME exposures'[e].status = "REPAID"
      PROVE  RepayPreflight(accounts[exposures[e].accountId].seller, e, 0,
                            exposures[e].faceDebt).reasons = {}
    BY <1>1, RepaidByRepayment, RepaymentExits
<1>2. ExposurePreflight(e, "materializeLiquidationClaim").reasons = {}
    BY SourcesPass DEF ExposurePreflight, Prepared
<1>3. ASSUME exposures'[e].status = "COLLATERAL_CLAIMED",
             NEW share,
             share = ProRataShare(accounts[exposures[e].accountId], exposures[e],
                                  accounts[exposures[e].accountId].collateralAmount,
                                  accounts[exposures[e].accountId].remainingCollateral),
             NEW c \in compliant
      PROVE  ClaimFailedPreflight(exposures[e].lender, e, c).reasons = ClaimObjections(share)
  <2>1. ~MaterializeLiquidationClaim(e)
    <3> SUFFICES ASSUME exposures' = [exposures EXCEPT ![e].status = "PROCEEDS_CLAIMED"]
                 PROVE  FALSE
      BY DEF MaterializeLiquidationClaim, CanMaterializeLiquidationClaim, ProceedsShare
    <3> QED
      BY <1>3 DEF MInv, MarginTypeOK, Exposure
  <2>2. PICK a, b : ClaimFailedCollateral(a, e, b)
    BY <1>3, <2>1, ClaimedByClaims DEF Claimed
  <2>3. PICK m \in MarginIds : exposures[e].accountId = m
    BY <2>2 DEF ClaimFailedCollateral, CanClaimFailedCollateral, CollateralShare
  <2> QED
    BY <1>3, <2>2, <2>3, ClaimExits
<1> QED
    BY <1>1, <1>2, <1>3 DEF ExposureExitPrepared

(***************************************************************************)
(* Of the ways out of a margin account, and of those to save one, the API  *)
(* refuses one kind: whatever the engine lets a seller, a lender or a      *)
(* bidder do, marginAction of v2-preflight.ts finds nothing against the    *)
(* same call, in every state of admission, risk parameters and compliance, *)
(* except that it always refuses a claim of unsold collateral whose share  *)
(* rounds to zero, which the engine closes without a transfer.             *)
(***************************************************************************)
THEOREM PreflightRefusesOnlyEmptyClaims == Spec => OnlyEmptyClaimsRefused
<1>1. MInv /\ [Next]_vars => [EveryMarginExitPrepared]_vars
  <2> SUFFICES ASSUME MInv, [Next]_vars, Vouched
               PROVE  /\ CollateralExitPrepared /\ TopUpPrepared
                      /\ \A m \in MarginIds :
                            accounts'[m].status # accounts[m].status => AccountExitPrepared(m)
                      /\ \A e \in ExposureIds :
                            exposures[e].status = "ACTIVE" /\ exposures'[e].status # "ACTIVE"
                            => ExposureExitPrepared(e)
    BY DEF EveryMarginExitPrepared, Vouched
  <2>1. CollateralExitPrepared /\ TopUpPrepared
    BY CollateralExits, TopUps
  <2>2. \A m \in MarginIds : accounts'[m].status # accounts[m].status => AccountExitPrepared(m)
    BY AccountExits
  <2>3. \A e \in ExposureIds : exposures[e].status = "ACTIVE" => ExposureExitPrepared(e)
    BY ExposureExits
  <2> QED
    BY <2>1, <2>2, <2>3
<1> QED
    BY <1>1, MarginInvariance, PTL DEF Spec, OnlyEmptyClaimsRefused

-----------------------------------------------------------------------------
(* What the API prepares, the engine executes.                              *)

LEMMA DepositsApproved ==
    ASSUME MInv
    PROVE  DepositsExecute
<1> DEFINE nothing == [available |-> 0, proven |-> FALSE]
<1> SUFFICES ASSUME NEW a \in Account, NEW n \in Amounts, now <= EntryHorizon,
                    DepositPreflight(a, n, "WALLET", nothing, n).reasons = {}
             PROVE  CanDepositCollateral(a, n)
    BY DEF DepositsExecute
<1>1. RepoSweep(a, n, "WALLET") = 0
    BY DEF RepoSweep
<1>2. PICK unlisted, closed, none, short, unapproved :
         /\ unlisted = ~admission.enabled
         /\ closed = (\/ ~Api.policyPoolRegistered \/ ~Api.vaultCustodyReady
                      \/ ~admission.custodyReady \/ (0 > 0 /\ ~nothing.proven))
         /\ none = (n <= 0) /\ short = (cva[a] < n) /\ unapproved = (n < n)
    OBVIOUS
<1>3. PICK checks :
         checks = [ASSET_NOT_ALLOWED |-> unlisted, VAULT_NOT_AUTHORIZED |-> closed,
                   INVALID_FILL_AMOUNT |-> none, INSUFFICIENT_BALANCE |-> short,
                   INSUFFICIENT_ALLOWANCE |-> unapproved]
    OBVIOUS
<1>4. PICK edges :
         edges = {Edge(Cva, a, Vault)} \cup
                 {edge \in {Edge(Cva, Vault, a)} : 0 > 0 /\ nothing.proven}
    OBVIOUS
<1>5. Blocking(checks) = {} /\ EvaluateEdges(edges) = {}
    BY <1>1, <1>2, <1>3, <1>4 DEF DepositPreflight, Prepared
<1>6. ~unlisted /\ ~closed /\ ~none /\ ~short
    BY <1>3, <1>5, NothingBlocks
<1>7. admission.enabled /\ admission.custodyReady /\ ~(n <= 0) /\ ~(cva[a] < n)
    BY <1>2, <1>6, Zenon
<1>8. n \in Nat /\ cva[a] \in Nat
    BY VaultAssumption DEF MInv, MarginTypeOK, VaultTypeOK
<1>9. a \in compliant
    BY <1>4, <1>5, EdgeAdmits
<1> QED
    BY <1>7, <1>8, <1>9 DEF CanDepositCollateral, CanDeposit

\* The readiness switches the API asks about include the engine's.
LEMMA EntryOpen ==
    ASSUME EntryReasons = {}
    PROVE  ~admission.entryPaused /\ admission.custodyReady /\ admission.enabled
<1>1. PICK unlisted, off, closed :
         /\ unlisted = ~admission.enabled /\ off = ~Api.marginEnabled
         /\ closed = (\/ ~Api.policyPoolRegistered \/ ~Api.vaultCustodyReady
                      \/ ~Api.escrowReady \/ ~Api.treasuryEligible
                      \/ ~admission.custodyReady \/ admission.entryPaused)
    OBVIOUS
<1>2. PICK checks : checks = [ASSET_NOT_ALLOWED |-> unlisted, MARGIN_ACCOUNT_RESTRICTED |-> off,
                              VAULT_NOT_AUTHORIZED |-> closed]
    OBVIOUS
<1>3. Blocking(checks) = {}
    BY <1>1, <1>2 DEF EntryReasons
<1>4. ~unlisted /\ ~closed
    BY <1>2, <1>3, NothingBlocks
<1> QED
    BY <1>1, <1>4, Zenon

LEMMA OpeningsApproved ==
    ASSUME MInv
    PROVE  OpeningsExecute
<1> SUFFICES ASSUME NEW a \in Account, NEW q \in AccountParams, now <= EntryHorizon,
                    nextAccountId \in MarginIds, q.maxAnnualRateBps <= MAX_RATE_BPS,
                    OpenAccountPreflight(a, q).reasons = {}
             PROVE  CanOpenMarginAccount(a, q)
    BY DEF OpeningsExecute
<1>1. /\ q.collateralAmount \in Nat /\ q.fundingTarget \in Nat /\ q.minimumFunding \in Nat
      /\ q.window \in Int /\ MaxFundingWindow \in Nat
    BY MarginAssumption
<1>2. PICK short, invalid, duration, late, self, disabled :
         /\ short = (availableBalance[a] < q.collateralAmount)
         /\ invalid = (\/ q.collateralAmount <= 0 \/ q.fundingTarget <= 0
                       \/ q.minimumFunding \notin 1..q.fundingTarget)
         /\ duration = (q.duration \notin Api.allowedDurations)
         /\ late = (q.window \notin 1..MaxFundingWindow)
         /\ self = (q.permittedLender = a) /\ disabled = ~risk.enabled
    OBVIOUS
<1>3. PICK checks :
         checks = [INSUFFICIENT_BALANCE |-> short, INVALID_FILL_AMOUNT |-> invalid,
                   INVALID_DURATION |-> duration, INVALID_OFFER_EXPIRY |-> late,
                   BUYER_NOT_PERMITTED |-> self, ASSET_NOT_ALLOWED |-> disabled]
    OBVIOUS
<1>4. /\ Blocking(checks) = {} /\ EntryReasons = {} /\ EvaluateParticipants({a}, Cva) = {}
    BY <1>2, <1>3 DEF OpenAccountPreflight, Prepared
<1>5. ~short /\ ~invalid /\ ~late /\ ~self /\ ~disabled
    BY <1>3, <1>4, NothingBlocks
<1>6. /\ ~(availableBalance[a] < q.collateralAmount) /\ ~(q.collateralAmount <= 0)
      /\ ~(q.fundingTarget <= 0) /\ q.minimumFunding \in 1..q.fundingTarget
      /\ q.window \in 1..MaxFundingWindow /\ q.permittedLender # a /\ risk.enabled
    BY <1>2, <1>5, Zenon
<1>7. ValidAccountParams(a, q)
    BY <1>1, <1>6 DEF ValidAccountParams
<1>8. CanDebitAvailable(a, q.collateralAmount)
  <2>1. availableBalance[a] \in Nat
    BY DEF MInv, MarginTypeOK, VaultTypeOK
  <2> QED
    BY <1>1, <1>6, <2>1 DEF CanDebitAvailable
<1>9. marginLocked[nextAccountId].owner = NoAccount
  <2>1. NettingSetSound(nextAccountId) /\ ~(nextAccountId < nextAccountId)
    BY DEF MInv, MarginTypeOK, RecordsInv
  <2>2. accounts[nextAccountId].status = "NONE"
    BY <2>1 DEF NettingSetSound, AccountSound
  <2> QED
    BY <2>1, <2>2 DEF NettingSetSound, AccountCustody, EmptyBucket, Running
<1>10. a \in compliant
    BY <1>4, ParticipantsAdmitted
<1> QED
    BY <1>4, <1>6, <1>7, <1>8, <1>9, <1>10, EntryOpen DEF CanOpenMarginAccount

\* The lender's cash covers the proceeds, and after them the fee, paid or escrowed.
LEMMA FundingPays ==
    ASSUME MInv, SharesSpared, NEW lender \in Account, NEW seller \in Account \ {lender},
           NEW principal \in Nat, NEW fee \in Nat, fee < principal,
           principal <= book.cash[lender]
    PROVE  /\ CanPay(book, lender, principal - fee)
           /\ CanPayOrEscrow(PaidTo(book, lender, seller, principal - fee), lender,
                             FeeTreasury, fee)
<1>1. book \in Book /\ book.cash[lender] \in Nat /\ book.cash \in [Account -> Nat]
    BY DEF MInv, MarginTypeOK, EscrowTypeOK, Book
<1>2. PICK net \in Nat : net = principal - fee
    OBVIOUS
<1>3. CanPay(book, lender, net)
    BY <1>1, <1>2 DEF CanPay
<1>4. PICK paid : paid = PaidTo(book, lender, seller, net)
    OBVIOUS
<1>5. paid \in Book /\ paid.totalClaims <= paid.escrowCash
  <2>1. PICK spare \in Nat : spare = SumFunction(Proceeds) /\ Spares(book, spare)
    BY ProceedsType DEF SharesSpared
  <2>2. Spares(paid, spare)
    BY <1>2, <1>3, <1>4, <2>1, PaidToSpares
  <2>3. paid \in Book /\ paid.escrowCash - paid.totalClaims = spare
    BY <2>2 DEF Spares, Spare
  <2>4. paid.escrowCash \in Nat /\ paid.totalClaims \in Nat
    BY <2>3 DEF Book
  <2> QED
    BY <2>1, <2>3, <2>4
<1>6. paid.cash[lender] = book.cash[lender] - net
    BY <1>1, <1>4 DEF PaidTo, Book
<1>7. CanPay(paid, lender, fee)
    BY <1>1, <1>2, <1>6 DEF CanPay
<1>8. CanRecordClaims(PaidToEscrow(paid, lender, fee), fee)
    BY <1>5, PaidInIsClaimable
<1> QED
    BY <1>2, <1>3, <1>4, <1>7, <1>8 DEF CanPayOrEscrow

\* The debt after a funding, against the stricter limit at a price of the stricter age.
LEMMA FundingRiskPasses ==
    ASSUME MInv, NEW m \in MarginIds, accounts[m].status \in Running, NEW principal \in Nat,
           NEW rate \in Nat, FundingRiskReasons(accounts[m], principal, rate) = {}
    PROVE  LET account == accounts[m]
           IN  /\ risk.enabled
               /\ PriceIsFresh(Min2(account.snapshot.maxOracleAge, risk.maxOracleAge))
               /\ Covers(account.collateralAmount,
                         account.totalFaceDebt + FaceDebt(account, principal, rate),
                         Min2(account.snapshot.initialLtvBps, risk.initialLtvBps))
<1> DEFINE account == accounts[m]
           age == Min2(account.snapshot.maxOracleAge, risk.maxOracleAge)
<1>1. account \in MarginAccount
    BY DEF MInv, MarginTypeOK
<1>2. PICK limit \in Nat : limit = Min2(account.snapshot.initialLtvBps, risk.initialLtvBps)
  <2>1. account.snapshot.initialLtvBps \in Nat
    BY <1>1 DEF MarginAccount, Snapshot
  <2>2. risk.initialLtvBps \in Nat
    BY DEF MInv, MarginTypeOK, RiskTypeOK, ValidRisk, RiskConfig
  <2> QED
    BY <2>1, <2>2 DEF Min2
<1>3. PICK value \in Nat :
         /\ value = CollateralValue(account.collateralAmount, valuation.price)
         /\ value = CollateralValueQuoted(account.collateralAmount, valuation.price)
  <2>1. account.collateralAmount \in Nat /\ valuation.price \in Nat
    BY <1>1 DEF MarginAccount, MInv, MarginTypeOK, FeedTypeOK, Valuation
  <2> QED
    BY <2>1, CollateralValueType DEF CollateralValueQuoted, CollateralValue
<1>4. PICK debt \in Nat :
         /\ debt = account.totalFaceDebt + FaceDebt(account, principal, rate)
         /\ debt = account.totalFaceDebt + FaceDebtQuoted(account, principal, rate)
  <2>1. account.totalFaceDebt \in Nat
    BY <1>1 DEF MarginAccount
  <2>2. PICK term \in Nat : term = account.mandate.duration
    BY <1>1 DEF MarginAccount, Mandate
  <2>3. PICK interest \in Nat : /\ interest = Interest(principal, rate, term)
                               /\ interest = AccruedQuoted(principal, rate, term)
    BY InterestType, AccruedIsInterest
  <2>4. /\ FaceDebt(account, principal, rate) = principal + interest
        /\ FaceDebtQuoted(account, principal, rate) = principal + interest
    BY <2>2, <2>3 DEF FaceDebt, FaceDebtQuoted
  <2> QED
    BY <2>1, <2>3, <2>4
<1>5. PICK disabled, stale, exceeded :
         /\ disabled = ~risk.enabled /\ stale = ~PriceIsFresh(age)
         /\ exceeded = (PriceIsFresh(age) /\ LtvExceeded(debt, value, limit))
    OBVIOUS
<1>6. PICK checks : checks = [ASSET_NOT_ALLOWED |-> disabled, ORACLE_STALE |-> stale,
                              LTV_LIMIT_EXCEEDED |-> exceeded]
    OBVIOUS
<1>7. Blocking(checks) = {}
    BY <1>2, <1>3, <1>4, <1>5, <1>6 DEF FundingRiskReasons, FundingLimit
<1>8. ~disabled /\ ~stale /\ ~exceeded
    BY <1>6, <1>7, NothingBlocks
<1>9. risk.enabled /\ PriceIsFresh(age) /\ ~LtvExceeded(debt, value, limit)
    BY <1>5, <1>8, Zenon
<1>10. WithinLtv(debt, value, limit)
    BY <1>9, QuotedWithinLtv
<1> QED
    BY <1>2, <1>3, <1>4, <1>9, <1>10 DEF Covers

LEMMA FundingsApproved ==
    ASSUME MInv, SharesSpared
    PROVE  FundingsExecute
<1> SUFFICES ASSUME NEW a \in Account, NEW m \in MarginIds, NEW rate \in Rates,
                    NEW principal \in 1..accounts[m].mandate.fundingTarget,
                    accounts[m].status = "OPEN",
                    FundingFee(accounts[m], principal) < principal,
                    now <= EntryHorizon, nextExposureId \in ExposureIds,
                    FundPreflight(a, m, principal, rate, 0, principal).reasons = {}
             PROVE  CanFundMarginAccount(a, m, principal, rate,
                                         FundingFee(accounts[m], principal))
    BY DEF FundingsExecute
<1> DEFINE quoted == FundingFeeQuoted(accounts[m], principal)
<1>1. PICK account \in MarginAccount : account = accounts[m]
    BY DEF MInv, MarginTypeOK
<1>2. account.seller \in Account /\ FundedByMandate(m)
    BY <1>1 DEF MInv, RecordsInv, NettingSetSound, AccountSound
<1>3. PICK mandate \in Mandate : mandate = account.mandate
    BY <1>1 DEF MarginAccount
<1>4. /\ principal \in Nat /\ rate \in Nat /\ now \in Nat
      /\ mandate.fundingTarget \in Nat /\ mandate.minimumFunding \in Nat
      /\ mandate.maxAnnualRateBps \in Nat /\ mandate.fundingExpiry \in Nat
    BY <1>1, <1>3, MarginAssumption DEF Mandate, MInv, MarginTypeOK
<1>5. PICK fee \in Nat : fee = FundingFee(account, principal) /\ fee < principal
  <2>1. account.feeCharged = CumulativeFee(account.totalFunded, ProtocolFeeBps)
    BY <1>1, <1>2 DEF FundedByMandate
  <2> QED
    BY <1>1, <1>4, <2>1, FundingAmounts
<1>6. PICK remaining \in Int : remaining = mandate.fundingTarget - account.totalFunded
    BY <1>1, <1>4 DEF MarginAccount
<1>7. PICK maxFee : maxFee = quoted
    OBVIOUS
<1>8. PICK barred, over, invalid, dear, slipped :
         /\ barred = (\/ a = account.seller \/ mandate.permittedLender \notin {NoAccount, a})
         /\ over = (account.fundingClosed \/ now > mandate.fundingExpiry)
         /\ invalid = (\/ principal \notin 1..remaining
                       \/ principal < mandate.minimumFunding /\ principal # remaining)
         /\ dear = (rate > mandate.maxAnnualRateBps) /\ slipped = (maxFee < quoted)
    OBVIOUS
<1>9. PICK checks :
         checks = [BUYER_NOT_PERMITTED |-> barred, OFFER_NOT_OPEN |-> over,
                   INVALID_FILL_AMOUNT |-> invalid, INVALID_RATE |-> dear,
                   SLIPPAGE_EXCEEDED |-> slipped]
    OBVIOUS
<1>10. /\ Blocking(checks) = {} /\ EntryReasons = {}
       /\ FundingRiskReasons(accounts[m], principal, rate) = {}
       /\ FundsReasons(book.cash[a], principal, principal) = {}
       /\ EvaluateParticipants({a, account.seller}, Cva) = {}
    BY <1>1, <1>3, <1>6, <1>7, <1>8, <1>9 DEF FundPreflight, Prepared
<1> HIDE DEF quoted
<1>11. ~barred /\ ~over /\ ~invalid /\ ~dear
    BY <1>9, <1>10, NothingBlocks
<1>12. /\ a # account.seller /\ mandate.permittedLender \in {NoAccount, a}
       /\ ~account.fundingClosed /\ ~(now > mandate.fundingExpiry)
       /\ principal \in 1..remaining
       /\ ~(principal < mandate.minimumFunding) \/ principal = remaining
       /\ ~(rate > mandate.maxAnnualRateBps)
    BY <1>8, <1>11, Zenon
<1>13. WithinMandate(a, account, principal, rate)
  <2>1. /\ now <= mandate.fundingExpiry /\ rate <= mandate.maxAnnualRateBps
        /\ principal >= mandate.minimumFunding \/ principal = remaining
    BY <1>4, <1>12
  <2> QED
    BY <1>3, <1>6, <1>12, <2>1 DEF WithinMandate
<1>14. {a, account.seller} \subseteq compliant
    BY <1>10, ParticipantsAdmitted
<1>15. principal <= book.cash[a]
  <2>1. book.cash[a] \in Nat
    BY DEF MInv, MarginTypeOK, EscrowTypeOK, Book
  <2> QED
    BY <1>4, <1>10, <2>1, FundsHeld
<1>16. /\ CanPay(book, a, principal - fee)
       /\ CanPayOrEscrow(PaidTo(book, a, account.seller, principal - fee), a, FeeTreasury, fee)
    BY <1>2, <1>4, <1>5, <1>12, <1>15, FundingPays
<1>17. /\ risk.enabled
       /\ PriceIsFresh(Min2(account.snapshot.maxOracleAge, risk.maxOracleAge))
       /\ Covers(account.collateralAmount,
                 account.totalFaceDebt + FaceDebt(account, principal, rate),
                 Min2(account.snapshot.initialLtvBps, risk.initialLtvBps))
    BY <1>1, <1>4, <1>10, FundingRiskPasses DEF Running
<1>18. CanFund(a, account, principal, rate, fee)
  <2>1. fee <= fee
    BY <1>5
  <2> QED
    BY <1>1, <1>5, <1>12, <1>13, <1>14, <1>17, <2>1 DEF CanFund
<1> QED
    BY <1>1, <1>5, <1>10, <1>16, <1>18, EntryOpen DEF CanFundMarginAccount

(***************************************************************************)
(* The API lets nobody sign a deposit, an opening or a funding that the    *)
(* engine would then refuse for a reason the checks are meant to cover:    *)
(* their quotes, limits, ages and eligibility are the engine's own.        *)
(***************************************************************************)
THEOREM PreparedFundingExecutes == Spec => []ApprovedFundingExecutes
<1>1. MInv /\ SharesSpared => ApprovedFundingExecutes
    BY DepositsApproved, OpeningsApproved, FundingsApproved DEF ApprovedFundingExecutes
<1> QED
    BY <1>1, NothingToShare, SharesSparedStep, MarginInvariance, PTL DEF Spec
=============================================================================
