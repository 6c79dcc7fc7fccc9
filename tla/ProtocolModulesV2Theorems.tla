---------------------- MODULE ProtocolModulesV2Theorems ----------------------
(***************************************************************************)
(* What the integer arithmetic of the contracts returns and bounds, what   *)
(* sums over finite sets return, what every call of the vault, the auction *)
(* house and the escrow preserves, whichever controller makes it, and what *)
(* it means for the contracts that the API's checks pass and what its      *)
(* arithmetic yields.                                                      *)
(***************************************************************************)
EXTENDS CollateralVaultV2Properties, DutchAuctionV2, SettlementEscrowV2, RiskManagerV2,
        ValuationFeed, Economics, Eligibility, RwcarMath, Functions, FiniteSetTheorems,
        WellFoundedInduction, TLAPS

-----------------------------------------------------------------------------
(* Products and quotients.                                                  *)

\* Multiplication by a natural number keeps the order.
LEMMA ProductMonotone ==
    ASSUME NEW a \in Nat, NEW b \in Nat, NEW c \in Nat, b <= c
    PROVE  a * b <= a * c
<1>1. PICK d \in Nat : c = b + d
    OBVIOUS
<1>2. a * c = a * b + a * d
    BY <1>1
<1>3. a * b \in Nat /\ a * d \in Nat
    OBVIOUS
<1> QED
    BY <1>2, <1>3

\* A quotient of natural numbers is the largest one that fits.
LEMMA DivBounds ==
    ASSUME NEW a \in Nat, NEW c \in Nat \ {0}
    PROVE  /\ a \div c \in Nat
           /\ c * (a \div c) <= a
           /\ a < c * (a \div c) + c
OBVIOUS

\* Integer division is monotone.
LEMMA DivMonotone ==
    ASSUME NEW a \in Nat, NEW b \in Nat, NEW c \in Nat \ {0}, a <= b
    PROVE  a \div c <= b \div c
OBVIOUS

\* Both roundings yield natural numbers.
LEMMA MulDivType ==
    ASSUME NEW a \in Nat, NEW b \in Nat, NEW c \in Nat \ {0}
    PROVE  MulDiv(a, b, c) \in Nat /\ MulDivCeil(a, b, c) \in Nat
<1>1. a * b \in Nat /\ a * b + c - 1 \in Nat
    OBVIOUS
<1> QED
    BY <1>1, DivBounds DEF MulDiv, MulDivCeil

\* More of the second factor gives no less of the result, in either rounding.
LEMMA MulDivMonotone ==
    ASSUME NEW a \in Nat, NEW b \in Nat, NEW d \in Nat, NEW c \in Nat \ {0}, b <= d
    PROVE  /\ MulDiv(a, b, c) <= MulDiv(a, d, c)
           /\ MulDivCeil(a, b, c) <= MulDivCeil(a, d, c)
<1>1. a * b \in Nat /\ a * d \in Nat /\ a * b <= a * d
    BY ProductMonotone
<1>2. a * b + c - 1 \in Nat /\ a * d + c - 1 \in Nat /\ a * b + c - 1 <= a * d + c - 1
    BY <1>1
<1> QED
    BY <1>1, <1>2, DivMonotone DEF MulDiv, MulDivCeil

\* The whole of an amount is the amount: no dust is left.
LEMMA MulDivWhole ==
    ASSUME NEW a \in Nat, NEW c \in Nat \ {0}
    PROVE  MulDiv(a, c, c) = a
<1>1. a * c = c * a /\ a * c \in Nat
    OBVIOUS
<1>2. PICK q \in Nat : q = (a * c) \div c /\ c * q <= c * a /\ c * a < c * q + c
    BY <1>1, DivBounds
<1>3. ~(q < a)
  <2>1. SUFFICES ASSUME q + 1 <= a PROVE FALSE
    BY <1>2
  <2>2. c * (q + 1) <= c * a
    BY <2>1, <1>2, ProductMonotone
  <2>3. c * (q + 1) = c * q + c
    BY <1>2
  <2> QED
    BY <2>2, <2>3, <1>2
<1>4. ~(a < q)
  <2>1. SUFFICES ASSUME a + 1 <= q PROVE FALSE
    BY <1>2
  <2>2. c * (a + 1) <= c * q
    BY <2>1, <1>2, ProductMonotone
  <2>3. c * (a + 1) = c * a + c
    BY <1>2
  <2> QED
    BY <2>2, <2>3, <1>2
<1> QED
    BY <1>2, <1>3, <1>4 DEF MulDiv

\* A part of an amount is at most the amount.
LEMMA MulDivPart ==
    ASSUME NEW a \in Nat, NEW b \in Nat, NEW c \in Nat \ {0}, b <= c
    PROVE  MulDiv(a, b, c) <= a
BY MulDivMonotone, MulDivWhole

\* A proper part of a positive amount is less than it, however close it comes.
LEMMA MulDivProperPart ==
    ASSUME NEW a \in Nat \ {0}, NEW b \in Nat, NEW c \in Nat \ {0}, b < c
    PROVE  MulDiv(a, b, c) < a
<1>1. PICK q \in Nat : q = (a * b) \div c /\ c * q <= a * b
    BY DivBounds
<1>2. ~(a <= q)
  <2>1. SUFFICES ASSUME a <= q PROVE FALSE
    OBVIOUS
  <2>2. c * a <= c * q
    BY <2>1, <1>1, ProductMonotone
  <2>3. a * (b + 1) <= a * c
    BY ProductMonotone
  <2>4. a * (b + 1) = a * b + a
    OBVIOUS
  <2>5. c * a = a * c
    OBVIOUS
  <2> QED
    BY <2>2, <2>3, <2>4, <2>5, <1>1
<1> QED
    BY <1>1, <1>2 DEF MulDiv

-----------------------------------------------------------------------------
(* Sums.  The fold that Functions sums with is a recursive function chosen  *)
(* by LET, so it is first shown to exist and to be unique.                  *)

\* Induction over the subsets of a finite set, with a set in the place of a predicate.
LEMMA SubsetInduction ==
    ASSUME NEW S, IsFiniteSet(S), NEW Good,
           \A T \in SUBSET S :
              IsFiniteSet(T) /\ (\A R \in SUBSET T : R # T => R \in Good) => T \in Good
    PROVE  SUBSET S \subseteq Good
<1> DEFINE Bad == (SUBSET S) \ Good
           O == StrictSubsetOrdering(S)
<1>1. SUFFICES ASSUME Bad # {} PROVE FALSE
    OBVIOUS
<1>2. Bad \subseteq FiniteSubsetsOf(S) /\ IsWellFoundedOn(O, FiniteSubsetsOf(S))
    BY FS_Subset, FS_StrictSubsetOrderingWellFounded DEF FiniteSubsetsOf
<1>3. \E T \in Bad : \A R \in Bad : <<R, T>> \notin O
  <2> HIDE DEF O, Bad
  <2> QED
    BY <1>1, <1>2, WFMin
<1>4. PICK T \in Bad : \A R \in Bad : <<R, T>> \notin O
    BY <1>3
<1>5. ASSUME NEW R \in SUBSET T, R # T PROVE R \in Good
  <2>1. <<R, T>> \in (SUBSET S) \X (SUBSET S)
    OBVIOUS
  <2>2. <<R, T>> \in O
    BY <1>5, <2>1 DEF StrictSubsetOrdering
  <2> QED
    BY <1>4, <2>2
<1>6. IsFiniteSet(T)
    BY FS_Subset
<1> QED
    BY <1>5, <1>6

\* The fold behind SumFunctionOnSet, as a function on the subsets of S.
PickOf(s) == CHOOSE x \in s : TRUE
IsTally(g, f, S) ==
    g = [s \in SUBSET S |-> IF s = {} THEN 0 ELSE f[PickOf(s)] + g[s \ {PickOf(s)}]]
Tally(f, S) == CHOOSE g : IsTally(g, f, S)

\* A sum is the value of a tally.
LEMMA SumIsTally ==
    ASSUME NEW f, NEW S
    PROVE  SumFunctionOnSet(f, S) = Tally(f, S)[S]
BY DEF SumFunctionOnSet, FoldFunctionOnSet, MapThenFoldSet, Tally, IsTally, PickOf

\* The index a fold takes first is one of the set.
LEMMA PickIsMember ==
    ASSUME NEW s, s # {}
    PROVE  PickOf(s) \in s
BY DEF PickOf

\* What a tally says of one subset.
LEMMA TallyAt ==
    ASSUME NEW f, NEW S, NEW g, IsTally(g, f, S), NEW s \in SUBSET S
    PROVE  g[s] = IF s = {} THEN 0 ELSE f[PickOf(s)] + g[s \ {PickOf(s)}]
BY DEF IsTally

\* Two tallies agree on the finite sets they share.
LEMMA TalliesAgree ==
    ASSUME NEW f, NEW S, NEW T, NEW g, NEW h, IsTally(g, f, S), IsTally(h, f, T),
           NEW s \in SUBSET (S \cap T), IsFiniteSet(s)
    PROVE  g[s] = h[s]
<1> DEFINE Good == {t \in SUBSET s : g[t] = h[t]}
<1>1. ASSUME NEW t \in SUBSET s, \A r \in SUBSET t : r # t => r \in Good
      PROVE  t \in Good
  <2>1. t \in SUBSET S /\ t \in SUBSET T
    OBVIOUS
  <2>2. CASE t = {}
    BY <2>1, <2>2, TallyAt
  <2>3. CASE t # {}
    <3>1. PickOf(t) \in t
      BY <2>3, PickIsMember
    <3>2. g[t \ {PickOf(t)}] = h[t \ {PickOf(t)}]
      BY <1>1, <3>1
    <3> QED
      BY <2>1, <2>3, <3>2, TallyAt
  <2> QED
    BY <2>2, <2>3
<1>2. SUBSET s \subseteq Good
  <2> HIDE DEF Good
  <2> QED
    BY <1>1, SubsetInduction
<1> QED
    BY <1>2

\* Every finite set has a tally.
LEMMA TallyExists ==
    ASSUME NEW f, NEW S, IsFiniteSet(S)
    PROVE  IsTally(Tally(f, S), f, S)
<1> DEFINE Good == {T \in SUBSET S : IsTally(Tally(f, T), f, T)}
<1>1. ASSUME NEW T \in SUBSET S, IsFiniteSet(T), \A R \in SUBSET T : R # T => R \in Good
      PROVE  T \in Good
  <2> DEFINE h == [s \in SUBSET T |->
                     IF s = {} THEN 0
                     ELSE f[PickOf(s)] + Tally(f, s \ {PickOf(s)})[s \ {PickOf(s)}]]
  <2>1. ASSUME NEW s \in SUBSET T, s # {}
        PROVE  h[s \ {PickOf(s)}] = Tally(f, s \ {PickOf(s)})[s \ {PickOf(s)}]
    <3> DEFINE r == s \ {PickOf(s)}
               q == r \ {PickOf(r)}
    <3>1. r \in SUBSET T /\ r # T /\ IsFiniteSet(r) /\ r \in SUBSET r
      BY <1>1, <2>1, PickIsMember, FS_Subset
    <3>2. IsTally(Tally(f, r), f, r)
      BY <1>1, <3>1
    <3>3. Tally(f, r)[r] = IF r = {} THEN 0 ELSE f[PickOf(r)] + Tally(f, r)[q]
      <4>1. PICK g : g = Tally(f, r) /\ IsTally(g, f, r)
        BY <3>2
      <4> HIDE DEF r, q
      <4> QED
        BY <3>1, <4>1, TallyAt DEF q
    <3>4. h[r] = IF r = {} THEN 0 ELSE f[PickOf(r)] + Tally(f, q)[q]
      BY <3>1
    <3>5. q \in SUBSET T /\ q # T /\ IsFiniteSet(q) /\ q \in SUBSET (r \cap q)
      BY <3>1, FS_Subset
    <3>6. IsTally(Tally(f, q), f, q)
      BY <1>1, <3>5
    <3> HIDE DEF q, r, h
    <3>7. Tally(f, r)[q] = Tally(f, q)[q]
      BY <3>2, <3>5, <3>6, TalliesAgree
    <3>8. h[r] = Tally(f, r)[r]
      BY <3>3, <3>4, <3>7
    <3> QED
      BY <3>8 DEF r
  <2>2. IsTally(h, f, T)
    <3>1. \A s \in SUBSET T :
             h[s] = IF s = {} THEN 0 ELSE f[PickOf(s)] + h[s \ {PickOf(s)}]
      BY <2>1
    <3>2. h = [s \in SUBSET T |-> h[s]]
      OBVIOUS
    <3> HIDE DEF h
    <3> QED
      BY <3>1, <3>2 DEF IsTally
  <2> QED
    BY <2>2 DEF Tally
<1>2. SUBSET S \subseteq Good
  <2> HIDE DEF Good
  <2> QED
    BY <1>1, SubsetInduction
<1> QED
    BY <1>2

\* The recursion a sum over a finite set follows.
LEMMA SumStep ==
    ASSUME NEW f, NEW S, IsFiniteSet(S)
    PROVE  SumFunctionOnSet(f, S) =
              IF S = {} THEN 0
              ELSE f[PickOf(S)] + SumFunctionOnSet(f, S \ {PickOf(S)})
<1> DEFINE R == S \ {PickOf(S)}
<1>1. IsFiniteSet(R) /\ R \in SUBSET (S \cap R) /\ S \in SUBSET S
    BY FS_Subset
<1>2. IsTally(Tally(f, S), f, S) /\ IsTally(Tally(f, R), f, R)
    BY <1>1, TallyExists
<1>3. Tally(f, S)[S] = IF S = {} THEN 0 ELSE f[PickOf(S)] + Tally(f, S)[R]
  <2>1. PICK g : g = Tally(f, S) /\ IsTally(g, f, S)
    BY <1>2
  <2> QED
    BY <1>1, <2>1, TallyAt
<1> HIDE DEF R
<1>4. Tally(f, S)[R] = Tally(f, R)[R]
    BY <1>1, <1>2, TalliesAgree
<1> QED
    BY <1>3, <1>4, SumIsTally DEF R

-----------------------------------------------------------------------------
(* What a sum over a finite set returns.                                    *)

\* A sum over no indices is zero.
LEMMA SumEmpty ==
    ASSUME NEW f
    PROVE  SumFunctionOnSet(f, {}) = 0
BY SumStep, FS_EmptySet

\* A sum of integers is an integer, and any index may be summed first.
LEMMA SumTake ==
    ASSUME NEW S, IsFiniteSet(S), NEW f, \A i \in S : f[i] \in Int
    PROVE  /\ SumFunctionOnSet(f, S) \in Int
           /\ \A k \in S : SumFunctionOnSet(f, S) = f[k] + SumFunctionOnSet(f, S \ {k})
<1> DEFINE Good == {T \in SUBSET S :
                      /\ SumFunctionOnSet(f, T) \in Int
                      /\ \A k \in T :
                            SumFunctionOnSet(f, T) = f[k] + SumFunctionOnSet(f, T \ {k})}
<1>1. ASSUME NEW T \in SUBSET S, IsFiniteSet(T), \A R \in SUBSET T : R # T => R \in Good
      PROVE  T \in Good
  <2>1. CASE T = {}
    BY <2>1, SumEmpty
  <2>2. CASE T # {}
    <3> DEFINE p == PickOf(T)
    <3>1. p \in T /\ SumFunctionOnSet(f, T) = f[p] + SumFunctionOnSet(f, T \ {p})
      BY <1>1, <2>2, SumStep, PickIsMember
    <3> HIDE DEF p
    <3>2. SumFunctionOnSet(f, T \ {p}) \in Int
      BY <1>1, <3>1
    <3>3. SumFunctionOnSet(f, T) \in Int
      BY <3>1, <3>2
    <3>4. ASSUME NEW k \in T, k # p
          PROVE  SumFunctionOnSet(f, T) = f[k] + SumFunctionOnSet(f, T \ {k})
      <4> DEFINE Q == T \ {p, k}
      <4>1. T \ {p} \in Good /\ T \ {k} \in Good /\ Q \in Good
        BY <1>1, <3>1, <3>4
      <4>2. k \in T \ {p} /\ p \in T \ {k} /\ (T \ {p}) \ {k} = Q /\ (T \ {k}) \ {p} = Q
        BY <3>1, <3>4
      <4> HIDE DEF Q
      <4>3. /\ SumFunctionOnSet(f, T \ {p}) = f[k] + SumFunctionOnSet(f, Q)
            /\ SumFunctionOnSet(f, T \ {k}) = f[p] + SumFunctionOnSet(f, Q)
            /\ SumFunctionOnSet(f, Q) \in Int
        BY <4>1, <4>2
      <4>4. f[p] \in Int /\ f[k] \in Int
        BY <3>1, <3>4
      <4> QED
        BY <3>1, <4>3, <4>4
    <3> QED
      BY <3>1, <3>3, <3>4
  <2> QED
    BY <2>1, <2>2
<1>2. SUBSET S \subseteq Good
  <2> HIDE DEF Good
  <2> QED
    BY <1>1, SubsetInduction
<1> QED
    BY <1>2

\* The sum of pointwise differences is the difference of the sums.
LEMMA SumMinus ==
    ASSUME NEW S, IsFiniteSet(S), NEW f, NEW g, NEW h,
           \A i \in S : f[i] \in Int /\ g[i] \in Int /\ h[i] = f[i] - g[i]
    PROVE  SumFunctionOnSet(h, S) = SumFunctionOnSet(f, S) - SumFunctionOnSet(g, S)
<1> DEFINE Good == {T \in SUBSET S : SumFunctionOnSet(h, T)
                                       = SumFunctionOnSet(f, T) - SumFunctionOnSet(g, T)}
<1>1. ASSUME NEW T \in SUBSET S, IsFiniteSet(T), \A R \in SUBSET T : R # T => R \in Good
      PROVE  T \in Good
  <2>1. CASE T = {}
    BY <2>1, SumEmpty
  <2>2. CASE T # {}
    <3>1. PICK p \in T : TRUE
      BY <2>2
    <3>2. IsFiniteSet(T \ {p}) /\ T \ {p} \in Good
      BY <1>1, <3>1, FS_Subset
    <3>3. /\ SumFunctionOnSet(f, T) = f[p] + SumFunctionOnSet(f, T \ {p})
          /\ SumFunctionOnSet(g, T) = g[p] + SumFunctionOnSet(g, T \ {p})
          /\ SumFunctionOnSet(h, T) = h[p] + SumFunctionOnSet(h, T \ {p})
      BY <1>1, <3>1, SumTake
    <3>4. SumFunctionOnSet(f, T \ {p}) \in Int /\ SumFunctionOnSet(g, T \ {p}) \in Int
      BY <3>2, SumTake
    <3>5. f[p] \in Int /\ g[p] \in Int /\ h[p] = f[p] - g[p]
      OBVIOUS
    <3> QED
      BY <3>2, <3>3, <3>4, <3>5
  <2> QED
    BY <2>1, <2>2
<1>2. SUBSET S \subseteq Good
  <2> HIDE DEF Good
  <2> QED
    BY <1>1, SubsetInduction
<1> QED
    BY <1>2

\* A sum of natural numbers is one, and no summand exceeds it.
LEMMA SumNat ==
    ASSUME NEW S, IsFiniteSet(S), NEW f, \A i \in S : f[i] \in Nat
    PROVE  /\ SumFunctionOnSet(f, S) \in Nat
           /\ \A i \in S : f[i] <= SumFunctionOnSet(f, S)
<1> DEFINE Good == {T \in SUBSET S : SumFunctionOnSet(f, T) \in Nat}
<1>1. ASSUME NEW T \in SUBSET S, IsFiniteSet(T), \A R \in SUBSET T : R # T => R \in Good
      PROVE  T \in Good
  <2>1. CASE T = {}
    BY <2>1, SumEmpty
  <2>2. CASE T # {}
    <3> DEFINE p == PickOf(T)
    <3>1. p \in T /\ SumFunctionOnSet(f, T) = f[p] + SumFunctionOnSet(f, T \ {p})
      BY <1>1, <2>2, SumStep, PickIsMember
    <3> HIDE DEF p
    <3>2. SumFunctionOnSet(f, T \ {p}) \in Nat
      BY <1>1, <3>1
    <3> QED
      BY <3>1, <3>2
  <2> QED
    BY <2>1, <2>2
<1>2. SUBSET S \subseteq Good
  <2> HIDE DEF Good
  <2> QED
    BY <1>1, SubsetInduction
<1>3. ASSUME NEW i \in S PROVE f[i] <= SumFunctionOnSet(f, S)
  <2>1. SumFunctionOnSet(f, S) = f[i] + SumFunctionOnSet(f, S \ {i})
    BY SumTake
  <2>2. SumFunctionOnSet(f, S \ {i}) \in Nat /\ f[i] \in Nat
    BY <1>2
  <2> QED
    BY <2>1, <2>2
<1> QED
    BY <1>2, <1>3

\* A sum of zeros is zero.
LEMMA SumZeros ==
    ASSUME NEW S, IsFiniteSet(S), NEW f, \A i \in S : f[i] = 0
    PROVE  SumFunctionOnSet(f, S) = 0
<1>1. \A i \in S : f[i] \in Int /\ f[i] = f[i] - f[i]
    OBVIOUS
<1>2. SumFunctionOnSet(f, S) = SumFunctionOnSet(f, S) - SumFunctionOnSet(f, S)
    BY <1>1, SumMinus
<1>3. SumFunctionOnSet(f, S) \in Int
    BY <1>1, SumTake
<1> QED
    BY <1>2, <1>3

\* A sum depends on the summands only.
LEMMA SumAgree ==
    ASSUME NEW S, IsFiniteSet(S), NEW f, NEW g, \A i \in S : f[i] \in Int /\ f[i] = g[i]
    PROVE  SumFunctionOnSet(f, S) = SumFunctionOnSet(g, S)
<1> DEFINE h == [i \in S |-> 0]
<1>1. \A i \in S : g[i] \in Int /\ h[i] \in Int /\ f[i] = g[i] - h[i] /\ h[i] = 0
    OBVIOUS
<1> HIDE DEF h
<1>2. SumFunctionOnSet(f, S) = SumFunctionOnSet(g, S) - SumFunctionOnSet(h, S)
    BY <1>1, SumMinus
<1>3. SumFunctionOnSet(h, S) = 0 /\ SumFunctionOnSet(g, S) \in Int
    BY <1>1, SumZeros, SumTake
<1> QED
    BY <1>2, <1>3

\* A sum whose summands change at one index changes by as much.
LEMMA SumChange ==
    ASSUME NEW S, IsFiniteSet(S), NEW f, NEW g, NEW k \in S,
           \A i \in S : f[i] \in Int /\ g[i] \in Int,
           \A i \in S \ {k} : g[i] = f[i]
    PROVE  SumFunctionOnSet(g, S) = SumFunctionOnSet(f, S) + g[k] - f[k]
<1>1. IsFiniteSet(S \ {k})
    BY FS_Subset
<1>2. SumFunctionOnSet(f, S \ {k}) = SumFunctionOnSet(g, S \ {k})
    BY <1>1, SumAgree
<1>3. SumFunctionOnSet(f, S \ {k}) \in Int
    BY <1>1, SumTake
<1>4. /\ SumFunctionOnSet(f, S) = f[k] + SumFunctionOnSet(f, S \ {k})
      /\ SumFunctionOnSet(g, S) = g[k] + SumFunctionOnSet(g, S \ {k})
    BY SumTake
<1> QED
    BY <1>2, <1>3, <1>4

\* A sum over one more index.
LEMMA SumAdd ==
    ASSUME NEW S, IsFiniteSet(S), NEW f, NEW k, k \notin S, \A i \in S \cup {k} : f[i] \in Int
    PROVE  SumFunctionOnSet(f, S \cup {k}) = SumFunctionOnSet(f, S) + f[k]
<1> DEFINE T == S \cup {k}
<1>1. IsFiniteSet(T) /\ T \ {k} = S /\ k \in T
    BY FS_AddElement
<1>2. SumFunctionOnSet(f, S) \in Int /\ f[k] \in Int
    BY SumTake
<1>3. \A i \in T : f[i] \in Int
    OBVIOUS
<1> HIDE DEF T
<1>4. SumFunctionOnSet(f, T) = f[k] + SumFunctionOnSet(f, T \ {k})
    BY <1>1, <1>3, SumTake
<1>5. SumFunctionOnSet(f, T \ {k}) = SumFunctionOnSet(f, S)
    BY <1>1
<1> QED
    BY <1>2, <1>4, <1>5 DEF T

\* Summing over a part of the indices is summing over all with zeros elsewhere.
LEMMA SumPart ==
    ASSUME NEW S, IsFiniteSet(S), NEW P \in SUBSET S, NEW f, NEW g,
           \A i \in S : f[i] \in Int /\ g[i] = IF i \in P THEN f[i] ELSE 0
    PROVE  SumFunctionOnSet(f, P) = SumFunctionOnSet(g, S)
<1> DEFINE Good == {T \in SUBSET S :
                      SumFunctionOnSet(f, T \cap P) = SumFunctionOnSet(g, T)}
<1>1. ASSUME NEW T \in SUBSET S, IsFiniteSet(T), \A R \in SUBSET T : R # T => R \in Good
      PROVE  T \in Good
  <2>1. CASE T = {}
    BY <2>1, SumEmpty
  <2>2. CASE T # {}
    <3>1. PICK p \in T : TRUE
      BY <2>2
    <3>2. IsFiniteSet(T \cap P) /\ IsFiniteSet(T \ {p}) /\ T \ {p} \in Good
      BY <1>1, <3>1, FS_Subset
    <3>3. SumFunctionOnSet(g, T) = g[p] + SumFunctionOnSet(g, T \ {p})
      BY <1>1, SumTake
    <3>4. SumFunctionOnSet(g, T \ {p}) \in Int
      BY <3>2, SumTake
    <3>5. CASE p \in P
      <4>1. (T \cap P) \ {p} = (T \ {p}) \cap P /\ p \in T \cap P
        BY <3>1, <3>5
      <4>2. SumFunctionOnSet(f, T \cap P) = f[p] + SumFunctionOnSet(f, (T \cap P) \ {p})
        BY <3>2, <4>1, SumTake
      <4> QED
        BY <3>2, <3>3, <3>5, <4>1, <4>2
    <3>6. CASE p \notin P
      <4>1. T \cap P = (T \ {p}) \cap P
        BY <3>6
      <4>2. SumFunctionOnSet(g, T) = SumFunctionOnSet(g, T \ {p})
        BY <3>3, <3>4, <3>6
      <4> QED
        BY <3>2, <4>1, <4>2
    <3> QED
      BY <3>5, <3>6
  <2> QED
    BY <2>1, <2>2
<1>2. SUBSET S \subseteq Good
  <2> HIDE DEF Good
  <2> QED
    BY <1>1, SubsetInduction
<1>3. S \cap P = P /\ S \in SUBSET S
    OBVIOUS
<1> QED
    BY <1>2, <1>3

\* Adding to one value of a function adds as much to its sum.
LEMMA SumGrows ==
    ASSUME NEW D, IsFiniteSet(D), NEW f \in [D -> Int], NEW k \in D, NEW n \in Int,
           NEW g, g = [f EXCEPT ![k] = f[k] + n]
    PROVE  SumFunction(g) = SumFunction(f) + n /\ SumFunction(f) \in Int
<1>1. PICK u, v : u = f /\ v = g
    OBVIOUS
<1>2. \A i \in D : u[i] \in Int /\ v[i] \in Int
    BY <1>1
<1>21. \A i \in D \ {k} : u[i] \in Int /\ u[i] = v[i]
    BY <1>1
<1>3. SumFunctionOnSet(v, D) = SumFunctionOnSet(u, D) + v[k] - u[k]
  <2>1. IsFiniteSet(D \ {k})
    BY FS_Subset
  <2>2. SumFunctionOnSet(u, D \ {k}) = SumFunctionOnSet(v, D \ {k})
    BY <1>21, <2>1, SumAgree
  <2>3. SumFunctionOnSet(u, D \ {k}) \in Int
    BY <1>2, <2>1, SumTake
  <2>4. /\ SumFunctionOnSet(u, D) = u[k] + SumFunctionOnSet(u, D \ {k})
        /\ SumFunctionOnSet(v, D) = v[k] + SumFunctionOnSet(v, D \ {k})
    BY <1>2, SumTake
  <2> QED
    BY <1>2, <2>2, <2>3, <2>4
<1>4. SumFunctionOnSet(u, D) \in Int
    BY <1>2, SumTake
<1>5. DOMAIN u = D /\ DOMAIN v = D /\ v[k] = u[k] + n /\ u[k] \in Int
    BY <1>1
<1> QED
    BY <1>1, <1>3, <1>4, <1>5 DEF SumFunction

\* One index changes its value, or whether it counts: the sum changes by what it counted for.
LEMMA SumGroup ==
    ASSUME NEW D, IsFiniteSet(D), NEW P \in SUBSET D, NEW Q \in SUBSET D, NEW f, NEW g,
           NEW k \in D, \A i \in D : f[i] \in Int /\ g[i] \in Int,
           \A i \in D \ {k} : g[i] = f[i], \A i \in D \ {k} : i \in Q <=> i \in P
    PROVE  SumFunctionOnSet(g, Q) = SumFunctionOnSet(f, P) + (IF k \in Q THEN g[k] ELSE 0)
                                                           - (IF k \in P THEN f[k] ELSE 0)
<1>1. PICK u, v : /\ u = [i \in D |-> IF i \in P THEN f[i] ELSE 0]
                  /\ v = [i \in D |-> IF i \in Q THEN g[i] ELSE 0]
    OBVIOUS
<1>2. /\ \A i \in D : u[i] = IF i \in P THEN f[i] ELSE 0
      /\ \A i \in D : v[i] = IF i \in Q THEN g[i] ELSE 0
    BY <1>1
<1>3. /\ \A i \in D : u[i] \in Int /\ v[i] \in Int
      /\ \A i \in D \ {k} : v[i] = u[i]
    BY <1>2
<1>4. SumFunctionOnSet(f, P) = SumFunctionOnSet(u, D)
    BY <1>2, SumPart
<1>5. SumFunctionOnSet(g, Q) = SumFunctionOnSet(v, D)
    BY <1>2, SumPart
<1>6. SumFunctionOnSet(v, D) = SumFunctionOnSet(u, D) + v[k] - u[k]
    BY <1>3, SumChange
<1>7. SumFunctionOnSet(u, D) \in Int
    BY <1>3, SumTake
<1> QED
    BY <1>2, <1>4, <1>5, <1>6, <1>7

\* Of naturals a part sums to no more than the whole.
LEMMA SumSubset ==
    ASSUME NEW S, IsFiniteSet(S), NEW P \in SUBSET S, NEW f, \A i \in S : f[i] \in Nat
    PROVE  SumFunctionOnSet(f, P) <= SumFunctionOnSet(f, S)
<1> DEFINE g == [i \in S |-> IF i \in P THEN f[i] ELSE 0]
           h == [i \in S |-> f[i] - g[i]]
<1>1. /\ \A i \in S : g[i] = IF i \in P THEN f[i] ELSE 0
      /\ \A i \in S : h[i] = f[i] - g[i]
    OBVIOUS
<1> HIDE DEF g, h
<1>2. \A i \in S : f[i] \in Int /\ g[i] \in Int /\ h[i] \in Nat
    BY <1>1
<1>3. SumFunctionOnSet(f, P) = SumFunctionOnSet(g, S)
    BY <1>1, <1>2, SumPart
<1>4. SumFunctionOnSet(h, S) = SumFunctionOnSet(f, S) - SumFunctionOnSet(g, S)
    BY <1>1, <1>2, SumMinus
<1>5. /\ SumFunctionOnSet(h, S) \in Nat
      /\ SumFunctionOnSet(f, S) \in Int /\ SumFunctionOnSet(g, S) \in Int
    BY <1>2, SumNat, SumTake
<1> QED
    BY <1>3, <1>4, <1>5

-----------------------------------------------------------------------------
(* Pro-rata shares.                                                         *)

\* A rounded share falls short of the exact one by less than a unit.
LEMMA ShareBounds ==
    ASSUME NEW pool \in Nat, NEW part \in Nat, NEW whole \in Nat \ {0}
    PROVE  /\ MulDiv(pool, part, whole) \in Nat
           /\ whole * MulDiv(pool, part, whole) <= pool * part
           /\ pool * part + 1 <= whole * MulDiv(pool, part, whole) + whole
<1>1. pool * part \in Nat
    OBVIOUS
<1>2. PICK product \in Nat : product = pool * part
    BY <1>1
<1>3. PICK share \in Nat : share = product \div whole /\ whole * share <= product
                             /\ product < whole * share + whole
    BY DivBounds
<1>4. whole * share \in Nat
    OBVIOUS
<1> QED
    BY <1>2, <1>3, <1>4 DEF MulDiv

\* What `part` of a pool's owners is owed exceeds what its rounded shares give it by less than
\* a unit each.
SharesNearParts(pool, whole, parts, shares, T) ==
    /\ SumFunctionOnSet(parts, T) \in Nat /\ SumFunctionOnSet(shares, T) \in Nat
    /\ whole * SumFunctionOnSet(shares, T) <= pool * SumFunctionOnSet(parts, T)
    /\ pool * SumFunctionOnSet(parts, T) + Cardinality(T)
          <= whole * (SumFunctionOnSet(shares, T) + Cardinality(T))

\* One more owner.
LEMMA OneMoreShare ==
    ASSUME NEW pool \in Nat, NEW whole \in Nat \ {0}, NEW x \in Nat, NEW y \in Nat, NEW n \in Nat,
           NEW part \in Nat, NEW share \in Nat,
           whole * y <= pool * x, pool * x + n <= whole * (y + n),
           whole * share <= pool * part, pool * part + 1 <= whole * share + whole
    PROVE  /\ whole * (share + y) <= pool * (part + x)
           /\ pool * (part + x) + (n + 1) <= whole * ((share + y) + (n + 1))
<1>1. /\ whole * (share + y) = whole * share + whole * y
      /\ pool * (part + x) = pool * part + pool * x
      /\ whole * ((share + y) + (n + 1)) = whole * share + whole + whole * (y + n)
    OBVIOUS
<1>2. PICK a, b, c, d, e \in Int :
          /\ a = whole * share /\ b = whole * y /\ c = pool * part /\ d = pool * x
          /\ e = whole * (y + n)
    OBVIOUS
<1>3. /\ b <= d /\ d + n <= e /\ a <= c /\ c + 1 <= a + whole
      /\ a + b <= c + d /\ c + d + (n + 1) <= a + whole + e
    BY <1>2
<1> QED
    BY <1>1, <1>2, <1>3

LEMMA SharesOfParts ==
    ASSUME NEW S, IsFiniteSet(S), NEW pool \in Nat, NEW whole \in Nat \ {0},
           NEW parts, NEW shares,
           \A i \in S : parts[i] \in Nat /\ shares[i] = MulDiv(pool, parts[i], whole),
           NEW P \in SUBSET S
    PROVE  SharesNearParts(pool, whole, parts, shares, P)
<1> DEFINE Good == {T \in SUBSET S : SharesNearParts(pool, whole, parts, shares, T)}
<1>1. ASSUME NEW T \in SUBSET S, IsFiniteSet(T), \A R \in SUBSET T : R # T => R \in Good
      PROVE  T \in Good
  <2>1. CASE T = {}
    <3>1. /\ SumFunctionOnSet(parts, T) = 0 /\ SumFunctionOnSet(shares, T) = 0
          /\ Cardinality(T) = 0
      BY <2>1, SumEmpty, FS_EmptySet
    <3> QED
      BY <3>1 DEF SharesNearParts
  <2>2. CASE T # {}
    <3>1. PICK p \in T : TRUE
      BY <2>2
    <3>2. PICK R : R = T \ {p}
      OBVIOUS
    <3>3. IsFiniteSet(R) /\ R \in Good /\ Cardinality(R) \in Nat
      BY <1>1, <3>1, <3>2, FS_Subset, FS_CardinalityType
    <3>4. Cardinality(T) = Cardinality(R) + 1
      BY <1>1, <3>1, <3>2, <3>3, FS_RemoveElement, FS_CardinalityType
    <3>5. PICK part, share \in Nat :
            /\ part = parts[p] /\ share = shares[p] /\ whole * share <= pool * part
            /\ pool * part + 1 <= whole * share + whole
      BY <3>1, ShareBounds
    <3>6. ASSUME NEW i \in T PROVE parts[i] \in Int /\ shares[i] \in Int
      <4>1. PICK q \in Nat : q = parts[i] /\ shares[i] = MulDiv(pool, q, whole)
        OBVIOUS
      <4>2. MulDiv(pool, q, whole) \in Nat
        BY ShareBounds
      <4> QED
        BY <4>1, <4>2
    <3>7. /\ SumFunctionOnSet(parts, T) = part + SumFunctionOnSet(parts, R)
          /\ SumFunctionOnSet(shares, T) = share + SumFunctionOnSet(shares, R)
      BY <1>1, <3>1, <3>2, <3>5, <3>6, SumTake
    <3>8. PICK x, y, n \in Nat :
            /\ x = SumFunctionOnSet(parts, R) /\ y = SumFunctionOnSet(shares, R)
            /\ n = Cardinality(R)
            /\ whole * y <= pool * x /\ pool * x + n <= whole * (y + n)
      BY <3>3 DEF SharesNearParts
    <3>9. /\ whole * (share + y) <= pool * (part + x)
          /\ pool * (part + x) + (n + 1) <= whole * ((share + y) + (n + 1))
      BY <3>5, <3>8, OneMoreShare
    <3> QED
      BY <3>4, <3>5, <3>7, <3>8, <3>9 DEF SharesNearParts
  <2> QED
    BY <2>1, <2>2
<1>2. SUBSET S \subseteq Good
  <2> HIDE DEF Good
  <2> QED
    BY <1>1, SubsetInduction
<1> QED
    BY <1>2

\* A product is less only if its other factor is.
LEMMA FactorLess ==
    ASSUME NEW a \in Nat \ {0}, NEW b \in Int, NEW c \in Int, a * b < a * c
    PROVE  b < c
<1>1. SUFFICES ASSUME c <= b PROVE FALSE
    OBVIOUS
<1>2. PICK d \in Nat : b = c + d
    BY <1>1
<1>3. a * b = a * c + a * d /\ a * d \in Nat /\ a * c \in Int
    BY <1>2
<1> QED
    BY <1>3

(***************************************************************************)
(* Rounded shares by parts of a whole: no set of owners is given more than *)
(* the pool, and all of them together less than a unit each too little.    *)
(***************************************************************************)
LEMMA SharesOfPool ==
    ASSUME NEW S, IsFiniteSet(S), S # {}, NEW pool \in Nat, NEW whole \in Nat \ {0},
           NEW parts, NEW shares, whole = SumFunctionOnSet(parts, S),
           \A i \in S : parts[i] \in Nat /\ shares[i] = MulDiv(pool, parts[i], whole)
    PROVE  /\ \A P \in SUBSET S : SumFunctionOnSet(shares, P) <= pool
           /\ pool < SumFunctionOnSet(shares, S) + Cardinality(S)
<1>1. ASSUME NEW P \in SUBSET S PROVE SumFunctionOnSet(shares, P) <= pool
  <2>1. SharesNearParts(pool, whole, parts, shares, P)
    BY SharesOfParts
  <2>2. PICK x, y \in Nat : /\ x = SumFunctionOnSet(parts, P) /\ y = SumFunctionOnSet(shares, P)
                            /\ whole * y <= pool * x
    BY <2>1 DEF SharesNearParts
  <2>3. x <= whole
    <3>1. PICK w : w = whole /\ w = SumFunctionOnSet(parts, S)
      OBVIOUS
    <3>2. SumFunctionOnSet(parts, P) <= SumFunctionOnSet(parts, S)
      BY SumSubset
    <3> QED
      BY <2>2, <3>2
  <2>4. pool * x <= pool * whole
    BY <2>3, ProductMonotone
  <2>5. pool * whole = whole * pool
    OBVIOUS
  <2>6. ~(whole * pool < whole * y)
    BY <2>2, <2>4, <2>5
  <2>7. SUFFICES ASSUME pool < y PROVE FALSE
    BY <2>2
  <2>8. PICK d \in Nat : y = pool + 1 + d
    BY <2>7
  <2>9. whole * y = whole * pool + whole + whole * d /\ whole * d \in Nat /\ whole * pool \in Nat
    BY <2>8
  <2> QED
    BY <2>6, <2>9
<1>2. pool < SumFunctionOnSet(shares, S) + Cardinality(S)
  <2>1. SharesNearParts(pool, whole, parts, shares, S)
    BY SharesOfParts
  <2>2. PICK y, n \in Nat : y = SumFunctionOnSet(shares, S) /\ n = Cardinality(S)
    BY <2>1, FS_CardinalityType DEF SharesNearParts
  <2>3. n # 0
    BY <2>2, FS_EmptySet
  <2>4. pool * whole + n <= whole * (y + n)
    BY <2>1, <2>2 DEF SharesNearParts
  <2>5. pool * whole = whole * pool /\ whole * pool \in Nat /\ whole * (y + n) \in Nat
    OBVIOUS
  <2>6. whole * pool < whole * (y + n)
    BY <2>3, <2>4, <2>5
  <2>7. pool < y + n
    BY <2>6, FactorLess
  <2> QED
    BY <2>2, <2>7
<1> QED
    BY <1>1, <1>2

-----------------------------------------------------------------------------
(* Interest, value and fees.                                                *)

\* Interest is a natural number.
LEMMA InterestType ==
    ASSUME NEW principal \in Nat, NEW rate \in Nat, NEW elapsed \in Nat
    PROVE  Interest(principal, rate, elapsed) \in Nat
<1>1. rate * elapsed \in Nat
    OBVIOUS
<1>2. BPS_DENOMINATOR * SECONDS_PER_YEAR \in Nat \ {0}
    BY ScalesAssumption
<1> HIDE DEF MulDivCeil
<1> QED
    BY <1>1, <1>2, MulDivType DEF Interest

\* The value of collateral is a natural number.
LEMMA CollateralValueType ==
    ASSUME NEW amount \in Nat, NEW price \in Nat
    PROVE  CollateralValue(amount, price) \in Nat
BY MulDivType, ScalesAssumption DEF CollateralValue

\* Interest grows with the time it is counted for.
LEMMA InterestMonotone ==
    ASSUME NEW principal \in Nat, NEW rate \in Nat, NEW short \in Nat, NEW long \in Nat,
           short <= long
    PROVE  Interest(principal, rate, short) <= Interest(principal, rate, long)
<1> DEFINE year == BPS_DENOMINATOR * SECONDS_PER_YEAR
<1>1. year \in Nat \ {0}
    BY ScalesAssumption
<1>2. rate * short \in Nat /\ rate * long \in Nat /\ rate * short <= rate * long
    BY ProductMonotone
<1>3. /\ MulDivCeil(principal, rate * short, year) <= MulDivCeil(principal, rate * long, year)
      /\ MulDivCeil(principal, rate * short, year) \in Nat
      /\ MulDivCeil(principal, rate * long, year) \in Nat
  <2> HIDE DEF year
  <2> QED
    BY <1>1, <1>2, MulDivMonotone, MulDivType
<1>4. CASE rate = 0 \/ short = 0
    BY <1>4, InterestType DEF Interest
<1>5. CASE ~(rate = 0 \/ short = 0)
  <2>1. /\ Interest(principal, rate, short) = MulDivCeil(principal, rate * short, year)
        /\ Interest(principal, rate, long) = MulDivCeil(principal, rate * long, year)
    BY <1>5 DEF Interest
  <2> QED
    BY <1>3, <2>1
<1> QED
    BY <1>4, <1>5

\* A higher rate never means less interest.
LEMMA InterestMonotoneInRate ==
    ASSUME NEW principal \in Nat, NEW low \in Nat, NEW high \in Nat, NEW elapsed \in Nat,
           low <= high
    PROVE  Interest(principal, low, elapsed) <= Interest(principal, high, elapsed)
<1> DEFINE year == BPS_DENOMINATOR * SECONDS_PER_YEAR
<1>1. year \in Nat \ {0}
    BY ScalesAssumption
<1>2. low * elapsed \in Nat /\ high * elapsed \in Nat /\ low * elapsed <= high * elapsed
  <2>1. elapsed * low <= elapsed * high
    BY ProductMonotone
  <2> QED
    BY <2>1
<1>3. /\ MulDivCeil(principal, low * elapsed, year) <= MulDivCeil(principal, high * elapsed, year)
      /\ MulDivCeil(principal, high * elapsed, year) \in Nat
  <2> HIDE DEF year
  <2> QED
    BY <1>1, <1>2, MulDivMonotone, MulDivType
<1>4. CASE low = 0 \/ elapsed = 0
    BY <1>4, InterestType DEF Interest
<1>5. CASE ~(low = 0 \/ elapsed = 0)
  <2>1. /\ Interest(principal, low, elapsed) = MulDivCeil(principal, low * elapsed, year)
        /\ Interest(principal, high, elapsed) = MulDivCeil(principal, high * elapsed, year)
    BY <1>5 DEF Interest
  <2> QED
    BY <1>3, <2>1
<1> QED
    BY <1>4, <1>5

\* More principal filled never means less fee charged in total.
LEMMA CumulativeFeeMonotone ==
    ASSUME NEW a \in Nat, NEW b \in Nat, NEW feeBps \in Nat, a <= b
    PROVE  /\ CumulativeFee(a, feeBps) \in Nat
           /\ CumulativeFee(a, feeBps) <= CumulativeFee(b, feeBps)
<1>1. feeBps \in Nat /\ BPS_DENOMINATOR \in Nat \ {0}
    BY ScalesAssumption
<1>2. a * feeBps = feeBps * a /\ b * feeBps = feeBps * b
    BY <1>1
<1>3. /\ MulDivCeil(feeBps, a, BPS_DENOMINATOR) \in Nat
      /\ MulDivCeil(feeBps, a, BPS_DENOMINATOR)
           <= MulDivCeil(feeBps, b, BPS_DENOMINATOR)
    BY <1>1, MulDivType, MulDivMonotone
<1> QED
    BY <1>2, <1>3 DEF CumulativeFee, MulDivCeil

\* Nothing funded, nothing charged.
LEMMA NothingCharged ==
    ASSUME NEW feeBps \in Nat
    PROVE  CumulativeFee(0, feeBps) = 0
<1>1. 0 * feeBps = 0 /\ (0 + BPS_DENOMINATOR - 1) \div BPS_DENOMINATOR = 0
    BY ScalesAssumption
<1> QED
    BY <1>1 DEF CumulativeFee, MulDivCeil
-----------------------------------------------------------------------------
(* The escrow's book.                                                       *)

\* A payment between accounts keeps the book's types if the payer holds the amount.
LEMMA PaidToType ==
    ASSUME NEW b \in Book, NEW payer \in Account, NEW recipient \in Account, NEW amount \in Nat,
           payer = recipient \/ CanPay(b, payer, amount)
    PROVE  PaidTo(b, payer, recipient, amount) \in Book
<1> DEFINE cash == [b.cash EXCEPT ![payer] = @ - amount, ![recipient] = @ + amount]
<1>1. CASE payer = recipient
    BY <1>1 DEF PaidTo
<1>2. CASE payer # recipient
  <2>1. cash \in [Account -> Nat]
    BY <1>2 DEF CanPay, Book
  <2>2. PaidTo(b, payer, recipient, amount) = [b EXCEPT !.cash = cash]
    BY <1>2 DEF PaidTo, Book
  <2> HIDE DEF cash
  <2> QED
    BY <2>1, <2>2 DEF Book
<1> QED
    BY <1>1, <1>2

\* So does a payment into the escrow, which adds to what it holds and to nothing else.
LEMMA PaidToEscrowType ==
    ASSUME NEW b \in Book, NEW payer \in Account, NEW amount \in Nat, CanPay(b, payer, amount)
    PROVE  PaidToEscrow(b, payer, amount) \in Book
<1> DEFINE cash == [b.cash EXCEPT ![payer] = @ - amount]
<1>1. cash \in [Account -> Nat] /\ b.escrowCash + amount \in Nat
    BY DEF CanPay, Book
<1>2. PaidToEscrow(b, payer, amount) = [b EXCEPT !.cash = cash, !.escrowCash = @ + amount]
    BY DEF PaidToEscrow, Book
<1> HIDE DEF cash
<1> QED
    BY <1>1, <1>2 DEF Book

\* Recording a claim keeps the book's types and leaves every balance alone.
LEMMA WithClaimType ==
    ASSUME NEW b \in Book, NEW beneficiary \in Account, NEW amount \in Nat
    PROVE  WithClaim(b, beneficiary, amount) \in Book
<1> DEFINE claimable == [b.claimable EXCEPT ![beneficiary] = @ + amount]
           claim == [beneficiary |-> beneficiary, remaining |-> amount]
<1>1. claimable \in [Account -> Nat] /\ b.totalClaims + amount \in Nat
    BY DEF Book
<1>2. claim \in Claim
    BY DEF Claim
<1>3. Append(b.claims, claim) \in Seq(Claim)
    BY <1>2 DEF Book
<1>4. WithClaim(b, beneficiary, amount) =
        IF amount = 0
        THEN b
        ELSE [b EXCEPT !.totalClaims = @ + amount, !.claimable = claimable,
                       !.claims = Append(@, claim)]
    BY DEF WithClaim, Book
<1> HIDE DEF claimable, claim
<1> QED
    BY <1>1, <1>3, <1>4 DEF Book

\* Paying part of a claim keeps the book's types: each tally covers the amount.
LEMMA EscrowClaimType ==
    ASSUME EscrowTypeOK, NEW caller \in Account, NEW c, NEW amount \in Nat,
           NEW recipient \in Account, ClaimSettlement(caller, c, amount, recipient)
    PROVE  EscrowTypeOK'
<1> DEFINE claim == [book.claims[c] EXCEPT !.remaining = @ - amount]
           claims == [book.claims EXCEPT ![c] = claim]
           claimable == [book.claimable EXCEPT ![caller] = @ - amount]
           cash == [book.cash EXCEPT ![recipient] = @ + amount]
<1>1. /\ book \in Book /\ c \in DOMAIN book.claims /\ book.claims[c] \in Claim
      /\ book.claims[c].beneficiary = caller
    BY DEF EscrowTypeOK, ClaimSettlement, Book
<1>2. claim \in Claim
    BY <1>1 DEF ClaimSettlement, Claim
<1>3. claims \in Seq(Claim)
    BY <1>1, <1>2 DEF Book
<1>4. claimable \in [Account -> Nat] /\ cash \in [Account -> Nat]
    BY <1>1 DEF ClaimSettlement, Book
<1>5. book.totalClaims - amount \in Nat /\ book.escrowCash - amount \in Nat
    BY <1>1 DEF ClaimSettlement, Book
<1>6. book' = [book EXCEPT !.claims = claims, !.claimable = claimable,
                           !.totalClaims = @ - amount, !.escrowCash = @ - amount, !.cash = cash]
    BY <1>1 DEF ClaimSettlement, ClaimPaid, Book
<1> HIDE DEF claims, claimable, cash
<1>7. book' \in Book
    BY <1>1, <1>3, <1>4, <1>5, <1>6 DEF Book
<1> QED
    BY <1>7 DEF EscrowTypeOK, ClaimSettlement

-----------------------------------------------------------------------------
(* What the escrow owes.                                                    *)

\* What is left of the claims of an account, claim by claim, in a given book.
UnpaidOf(b, a) ==
    [c \in DOMAIN b.claims |-> IF b.claims[c].beneficiary = a THEN b.claims[c].remaining ELSE 0]

\* The escrow of a book covers its claims, and the three tallies of them agree.
TalliesMatch(b) ==
    /\ b.totalClaims = SumFunction(b.claimable)
    /\ \A a \in Account : b.claimable[a] = SumFunction(UnpaidOf(b, a))
BookBacked(b) == b.totalClaims <= b.escrowCash /\ TalliesMatch(b)

\* A book whose claims are those of another one.
LEMMA SameClaims ==
    ASSUME NEW b, NEW d, TalliesMatch(b), d.totalClaims = b.totalClaims,
           d.claimable = b.claimable, d.claims = b.claims
    PROVE  TalliesMatch(d)
BY DEF TalliesMatch, UnpaidOf

\* Payments between accounts leave the escrow alone.
LEMMA PaidToBacked ==
    ASSUME NEW b \in Book, NEW payer \in Account, NEW recipient \in Account, NEW amount \in Nat,
           BookBacked(b)
    PROVE  LET d == PaidTo(b, payer, recipient, amount)
           IN  /\ BookBacked(d) /\ d.escrowCash = b.escrowCash /\ d.totalClaims = b.totalClaims
               /\ d.claimable = b.claimable
<1>1. PICK d : d = PaidTo(b, payer, recipient, amount)
    OBVIOUS
<1>2. /\ d.escrowCash = b.escrowCash /\ d.totalClaims = b.totalClaims
      /\ d.claimable = b.claimable /\ d.claims = b.claims
    BY <1>1 DEF PaidTo, Book
<1>3. BookBacked(d)
    BY <1>2, SameClaims DEF BookBacked
<1> QED
    BY <1>1, <1>2, <1>3

\* A payment into the escrow is not owed to anybody yet.
LEMMA PaidToEscrowBacked ==
    ASSUME NEW b \in Book, NEW payer \in Account, NEW amount \in Nat, BookBacked(b)
    PROVE  LET d == PaidToEscrow(b, payer, amount)
           IN  /\ BookBacked(d) /\ d.escrowCash = b.escrowCash + amount
               /\ d.totalClaims = b.totalClaims /\ d.claimable = b.claimable
<1>1. PICK d : d = PaidToEscrow(b, payer, amount)
    OBVIOUS
<1>2. /\ d.escrowCash = b.escrowCash + amount /\ d.totalClaims = b.totalClaims
      /\ d.claimable = b.claimable /\ d.claims = b.claims
      /\ b.escrowCash \in Nat /\ b.totalClaims \in Nat
    BY <1>1 DEF PaidToEscrow, Book
<1>3. BookBacked(d)
    BY <1>2, SameClaims DEF BookBacked
<1> QED
    BY <1>1, <1>2, <1>3

\* A claim is added to each tally once, to nobody else's, and stays within the cash it needs.
LEMMA WithClaimBacked ==
    ASSUME NEW b \in Book, NEW beneficiary \in Account, NEW amount \in Nat,
           BookBacked(b), CanRecordClaims(b, amount)
    PROVE  LET d == WithClaim(b, beneficiary, amount)
           IN  /\ d \in Book /\ BookBacked(d) /\ d.escrowCash = b.escrowCash
               /\ d.totalClaims = b.totalClaims + amount
               /\ \A a \in Account : d.claimable[a] = b.claimable[a]
                                                        + IF a = beneficiary THEN amount ELSE 0
<1>1. PICK d : d = WithClaim(b, beneficiary, amount)
    OBVIOUS
<1>2. d \in Book
    BY <1>1, WithClaimType
<1>3. /\ b.escrowCash \in Nat /\ b.totalClaims \in Nat /\ b.claimable \in [Account -> Nat]
      /\ b.claims \in Seq(Claim)
    BY DEF Book
<1>4. CASE amount = 0
    BY <1>1, <1>2, <1>3, <1>4 DEF WithClaim
<1>5. CASE amount # 0
  <2> DEFINE n == Len(b.claims)
             claim == [beneficiary |-> beneficiary, remaining |-> amount]
  <2>1. /\ d.totalClaims = b.totalClaims + amount /\ d.escrowCash = b.escrowCash
        /\ d.claimable = [b.claimable EXCEPT ![beneficiary] = b.claimable[beneficiary] + amount]
        /\ d.claims = Append(b.claims, claim)
    BY <1>1, <1>3, <1>5 DEF WithClaim, Book
  <2>2. SumFunction(d.claimable) = SumFunction(b.claimable) + amount
    <3>1. PICK f, g : f = b.claimable /\ g = d.claimable
      OBVIOUS
    <3>2. f \in [Account -> Int]
      BY <1>3, <3>1
    <3>a. g = [f EXCEPT ![beneficiary] = f[beneficiary] + amount]
      BY <2>1, <3>1
    <3>3. IsFiniteSet(Account) /\ amount \in Int
      BY AccountAssumption
    <3>4. SumFunction(g) = SumFunction(f) + amount
      BY <3>2, <3>3, <3>a, SumGrows
    <3> QED
      BY <3>1, <3>4
  <2>3. /\ n \in Nat /\ DOMAIN b.claims = 1..n /\ DOMAIN d.claims = (1..n) \cup {n + 1}
        /\ \A c \in 1..n : d.claims[c] = b.claims[c] /\ b.claims[c] \in Claim
        /\ d.claims[n + 1] = claim
    BY <1>3, <2>1
  <2>4. ASSUME NEW a \in Account
        PROVE  /\ d.claimable[a] = b.claimable[a] + IF a = beneficiary THEN amount ELSE 0
               /\ d.claimable[a] = SumFunction(UnpaidOf(d, a))
    <3>1. PICK f, g, k : f = UnpaidOf(b, a) /\ g = UnpaidOf(d, a) /\ k = n + 1
      OBVIOUS
    <3>2. /\ DOMAIN f = 1..n /\ DOMAIN g = (1..n) \cup {k} /\ k \notin 1..n
          /\ \A c \in 1..n : f[c] \in Int /\ g[c] = f[c]
          /\ g[k] = IF a = beneficiary THEN amount ELSE 0
      BY <2>3, <3>1 DEF UnpaidOf, Claim
    <3>3. IsFiniteSet(1..n)
      BY <2>3, FS_Interval
    <3>4. PICK S : S = 1..n
      OBVIOUS
    <3>5. \A c \in S \cup {k} : g[c] \in Int
      BY <3>2, <3>4
    <3>6. IsFiniteSet(S) /\ k \notin S
      BY <3>2, <3>3, <3>4
    <3>7. SumFunctionOnSet(g, S \cup {k}) = SumFunctionOnSet(g, S) + g[k]
      BY <3>5, <3>6, SumAdd
    <3>8. \A c \in S : f[c] \in Int /\ f[c] = g[c]
      BY <3>2, <3>4
    <3>9. SumFunctionOnSet(f, S) = SumFunctionOnSet(g, S)
      BY <3>6, <3>8, SumAgree
    <3>10. SumFunction(g) = SumFunction(f) + g[k]
      BY <3>2, <3>4, <3>7, <3>9 DEF SumFunction
    <3>11. b.claimable[a] = SumFunction(f)
      BY <3>1 DEF BookBacked, TalliesMatch
    <3> QED
      BY <1>3, <2>1, <3>1, <3>2, <3>10, <3>11
  <2>5. BookBacked(d)
    BY <1>3, <2>1, <2>2, <2>4 DEF BookBacked, TalliesMatch, CanRecordClaims
  <2> QED
    BY <1>1, <1>2, <2>1, <2>4, <2>5
<1> QED
    BY <1>4, <1>5

\* The escrow records what has just been paid into it.
LEMMA PaidInIsClaimable ==
    ASSUME NEW b \in Book, b.totalClaims <= b.escrowCash, NEW payer \in Account,
           NEW amount \in Nat
    PROVE  CanRecordClaims(PaidToEscrow(b, payer, amount), amount)
<1>1. /\ PaidToEscrow(b, payer, amount).escrowCash = b.escrowCash + amount
      /\ PaidToEscrow(b, payer, amount).totalClaims = b.totalClaims
    BY DEF PaidToEscrow, Book
<1>2. b.escrowCash \in Nat /\ b.totalClaims \in Nat
    BY DEF Book
<1> QED
    BY <1>1, <1>2 DEF CanRecordClaims

\* Paying a claim takes the amount off every tally and off the cash that covers it.
LEMMA EscrowClaimBacked ==
    ASSUME EscrowTypeOK, NEW caller \in Account, NEW c, NEW amount \in Nat,
           NEW recipient \in Account, ClaimSettlement(caller, c, amount, recipient),
           BookBacked(book)
    PROVE  BookBacked(book')
<1>0. PICK m \in Int : m = -amount
    OBVIOUS
<1>1. PICK b, d : b = book /\ d = book'
    OBVIOUS
<1>2. /\ b \in Book /\ c \in DOMAIN b.claims /\ b.claims[c].beneficiary = caller
      /\ d = ClaimPaid(b, c, amount, recipient)
    BY <1>1 DEF EscrowTypeOK, ClaimSettlement
<1>3. /\ b.escrowCash \in Nat /\ b.totalClaims \in Nat /\ b.claimable \in [Account -> Nat]
      /\ b.claims \in Seq(Claim) /\ b.claims[c] \in Claim
    BY <1>2 DEF Book
<1>4. /\ d.escrowCash = b.escrowCash - amount /\ d.totalClaims = b.totalClaims - amount
      /\ d.claimable = [b.claimable EXCEPT ![caller] = b.claimable[caller] - amount]
      /\ d.claims = [b.claims EXCEPT ![c].remaining = b.claims[c].remaining - amount]
    BY <1>2, <1>3 DEF ClaimPaid, Book
<1>a. /\ DOMAIN b.claims = 1..Len(b.claims) /\ Len(b.claims) \in Nat
      /\ DOMAIN d.claims = DOMAIN b.claims
      /\ \A i \in DOMAIN b.claims : b.claims[i] \in Claim
    BY <1>3, <1>4
<1>b. /\ \A i \in DOMAIN b.claims : i # c => d.claims[i] = b.claims[i]
      /\ d.claims[c] = [b.claims[c] EXCEPT !.remaining = b.claims[c].remaining - amount]
    BY <1>2, <1>4, <1>a
<1>c. /\ d.claims[c].beneficiary = caller
      /\ d.claims[c].remaining = b.claims[c].remaining - amount
    BY <1>2, <1>3, <1>b DEF Claim
<1>5. SumFunction(d.claimable) = SumFunction(b.claimable) - amount
  <2>1. PICK f, g : f = b.claimable /\ g = d.claimable
    OBVIOUS
  <2>2. f \in [Account -> Int]
    BY <1>3, <2>1
  <2>a. g = [f EXCEPT ![caller] = f[caller] + m]
    BY <1>0, <1>3, <1>4, <2>1
  <2>3. IsFiniteSet(Account)
    BY AccountAssumption
  <2>4. SumFunction(g) = SumFunction(f) + m /\ SumFunction(f) \in Int
    BY <2>2, <2>3, <2>a, SumGrows
  <2> QED
    BY <1>0, <2>1, <2>4
<1>6. ASSUME NEW a \in Account
      PROVE  d.claimable[a] = SumFunction(UnpaidOf(d, a))
  <2>1. PICK f, g, S : f = UnpaidOf(b, a) /\ g = UnpaidOf(d, a) /\ S = DOMAIN b.claims
    OBVIOUS
  <2>2. /\ DOMAIN f = S /\ DOMAIN g = S /\ IsFiniteSet(S) /\ c \in S
    <3>1. PICK n \in Nat : n = Len(b.claims)
      BY <1>a
    <3>2. IsFiniteSet(1..n)
      BY <3>1, FS_Interval
    <3>3. S = 1..n
      BY <1>a, <2>1, <3>1
    <3>4. DOMAIN f = S
      BY <2>1 DEF UnpaidOf
    <3>5. DOMAIN g = DOMAIN d.claims
      BY <2>1 DEF UnpaidOf
    <3>6. DOMAIN g = S
      BY <1>a, <2>1, <3>5
    <3> QED
      BY <1>2, <2>1, <3>2, <3>3, <3>4, <3>6
  <2>3. /\ \A i \in S : f[i] \in Int /\ g[i] \in Int
        /\ \A i \in S \ {c} : g[i] = f[i]
        /\ g[c] = f[c] - IF a = caller THEN amount ELSE 0
    <3>1. /\ \A i \in S : f[i] = IF b.claims[i].beneficiary = a THEN b.claims[i].remaining ELSE 0
          /\ \A i \in S : g[i] = IF d.claims[i].beneficiary = a THEN d.claims[i].remaining ELSE 0
      BY <1>a, <2>1 DEF UnpaidOf
    <3>2. \A i \in S : b.claims[i].remaining \in Int
      BY <1>a, <2>1 DEF Claim
    <3>3. \A i \in S \ {c} : g[i] = f[i]
      BY <1>b, <2>1, <3>1
    <3>4. g[c] = f[c] - (IF a = caller THEN amount ELSE 0) /\ f[c] \in Int /\ g[c] \in Int
      BY <1>2, <1>c, <2>2, <3>1, <3>2
    <3> QED
      BY <3>1, <3>2, <3>3, <3>4
  <2>4. SumFunctionOnSet(g, S) = SumFunctionOnSet(f, S) + g[c] - f[c]
    BY <2>2, <2>3, SumChange
  <2>5. SumFunctionOnSet(f, S) \in Int
    BY <2>2, <2>3, SumTake
  <2>6. b.claimable[a] = SumFunctionOnSet(f, S)
    BY <1>1, <2>1, <2>2 DEF BookBacked, TalliesMatch, SumFunction
  <2>7. SumFunction(g) = SumFunctionOnSet(g, S)
    BY <2>2 DEF SumFunction
  <2> QED
    BY <1>3, <1>4, <2>1, <2>2, <2>3, <2>4, <2>5, <2>6, <2>7
<1>7. BookBacked(d)
    BY <1>1, <1>3, <1>4, <1>5, <1>6 DEF BookBacked, TalliesMatch
<1> QED
    BY <1>1, <1>7

-----------------------------------------------------------------------------
(* The vault's buckets.                                                     *)

\* A debited bucket is a bucket.
LEMMA DebitedType ==
    ASSUME NEW bucket \in Bucket, NEW amount \in Nat, CanDebitBucket(bucket, amount)
    PROVE  Debited(bucket, amount) \in Bucket
BY DEF Debited, CanDebitBucket, Bucket, EmptyBucket

\* The two ways to write a bucket build buckets.
LEMMA BucketType ==
    ASSUME NEW owner \in Account, NEW amount \in Nat
    PROVE  FullBucket(owner, amount) \in Bucket /\ EmptyBucket \in Bucket
BY DEF FullBucket, EmptyBucket, Bucket

\* The fields of a bucket.
LEMMA BucketFields ==
    ASSUME NEW bucket \in Bucket
    PROVE  bucket.amount \in Nat /\ bucket.owner \in Account \cup {NoAccount}
BY DEF Bucket

\* A payment out of the vault keeps the token counts natural numbers.
LEMMA PayOutType ==
    ASSUME totalAccounted \in Nat, vaultAssets \in Nat, cva \in [Account -> Nat],
           NEW recipient \in Account, NEW amount \in Nat, PayOut(recipient, amount)
    PROVE  totalAccounted' \in Nat /\ vaultAssets' \in Nat /\ cva' \in [Account -> Nat]
BY DEF PayOut, CanPayOut

\* Every call of the vault keeps its variables well typed.
LEMMA VaultCallType ==
    ASSUME VaultTypeOK, NEW a \in Account, NEW b \in Account, NEW n \in Nat, VaultCall(a, b, n)
    PROVE  VaultTypeOK'
<1> USE DEF VaultTypeOK
<1>1. CASE DepositFor(a, n)
    BY <1>1 DEF DepositFor, CanDeposit, Credit
<1>2. CASE WithdrawTo(a, b, n)
    BY <1>2, PayOutType DEF WithdrawTo, Debit, CanDebitAvailable
<1>3. CASE DirectTransferToVault(a, n)
    BY <1>3 DEF DirectTransferToVault, bucketVars
<1>4. CASE \E o \in OfferIds : ReserveOffer(a, o, n)
    BY <1>4, BucketType DEF ReserveOffer, Debit, CanDebitAvailable, tokensUnchanged
<1>5. CASE \E o \in OfferIds : ReleaseOffer(a, o, n)
    BY <1>5, DebitedType DEF ReleaseOffer, Credit, tokensUnchanged
<1>6. CASE \E o \in OfferIds, p \in PositionIds : AllocatePosition(a, o, p, n)
    BY <1>6, DebitedType, BucketType DEF AllocatePosition, tokensUnchanged
<1>7. CASE \E p \in PositionIds : ReleasePosition(a, p)
    BY <1>7, BucketType, BucketFields DEF ReleasePosition, Credit, tokensUnchanged
<1>8. CASE \E p \in PositionIds : SeizePosition(p, b)
  <2>1. PICK p \in PositionIds : SeizePosition(p, b)
    BY <1>8
  <2>2. positionLocked[p].amount \in Nat /\ EmptyBucket \in Bucket
    BY BucketType, BucketFields
  <2> QED
    BY <2>1, <2>2, PayOutType DEF SeizePosition
<1>9. CASE \E p \in PositionIds, x \in AuctionIds : AllocateAuction(a, p, x)
    BY <1>9, BucketType, BucketFields DEF AllocateAuction, tokensUnchanged
<1>10. CASE \E x \in AuctionIds : ReleaseAuction(x, b)
  <2>1. PICK x \in AuctionIds : ReleaseAuction(x, b)
    BY <1>10
  <2>2. auctionLocked[x].amount \in Nat /\ EmptyBucket \in Bucket
    BY BucketType, BucketFields
  <2> QED
    BY <2>1, <2>2, PayOutType DEF ReleaseAuction
<1>11. CASE \E x \in AuctionIds : ReleaseAuctionPartial(x, b, n)
    BY <1>11, DebitedType, PayOutType DEF ReleaseAuctionPartial
<1>12. CASE \E m \in MarginIds : ReserveMargin(a, m, n)
    BY <1>12, BucketType DEF ReserveMargin, Debit, CanDebitAvailable, tokensUnchanged
<1>13. CASE \E m \in MarginIds : AddMargin(a, m, n)
  <2>1. PICK m \in MarginIds : AddMargin(a, m, n)
    BY <1>13
  <2>2. [marginLocked[m] EXCEPT !.amount = @ + n] \in Bucket
    BY DEF Bucket
  <2> QED
    BY <2>1, <2>2 DEF AddMargin, Debit, CanDebitAvailable, tokensUnchanged
<1>14. CASE \E m \in MarginIds : ReleaseMargin(a, m, n)
    BY <1>14, DebitedType DEF ReleaseMargin, Credit, tokensUnchanged
<1>15. CASE \E m \in MarginIds, x \in AuctionIds : AllocateMarginAuction(a, m, x)
    BY <1>15, BucketType, BucketFields DEF AllocateMarginAuction, tokensUnchanged
<1> QED
    BY <1>1, <1>2, <1>3, <1>4, <1>5, <1>6, <1>7, <1>8, <1>9, <1>10, <1>11, <1>12, <1>13,
       <1>14, <1>15, VaultCall(a, b, n) DEF VaultCall

-----------------------------------------------------------------------------
(* The vault's books.                                                       *)

\* What a set of buckets holds in all, and what one bucket holds for an owner.
Total(buckets) == SumFunction(AmountsOf(buckets))
Share(bucket, a) == IF bucket.owner = a THEN bucket.amount ELSE 0

\* Nothing is held for nobody.
BucketOwned(bucket) == bucket.amount > 0 => bucket.owner \in Account

BucketsOwned ==
    /\ \A o \in OfferIds : BucketOwned(offerReserved[o])
    /\ \A p \in PositionIds : BucketOwned(positionLocked[p])
    /\ \A x \in AuctionIds : BucketOwned(auctionLocked[x])
    /\ \A m \in MarginIds : BucketOwned(marginLocked[m])

VaultInv == VaultTypeOK /\ BucketsOwned /\ VaultSolvent

\* Totals and holdings are natural numbers, and a bucket's share is part of its owner's.
LEMMA BucketSums ==
    ASSUME NEW D, IsFiniteSet(D), NEW buckets \in [D -> Bucket]
    PROVE  /\ Total(buckets) \in Nat
           /\ \A i \in D : buckets[i].amount <= Total(buckets)
           /\ \A a \in Account : HeldIn(buckets, a) \in Nat
           /\ \A i \in D, a \in Account : Share(buckets[i], a) <= HeldIn(buckets, a)
<1> DEFINE f == AmountsOf(buckets)
<1>1. DOMAIN buckets = D /\ DOMAIN f = D /\ \A i \in D : f[i] = buckets[i].amount /\ f[i] \in Nat
    BY BucketFields DEF AmountsOf
<1>2. Total(buckets) = SumFunctionOnSet(f, D)
    BY <1>1 DEF Total, SumFunction
<1> HIDE DEF f
<1>3. Total(buckets) \in Nat /\ \A i \in D : buckets[i].amount <= Total(buckets)
    BY <1>1, <1>2, SumNat
<1>4. ASSUME NEW a \in Account
      PROVE  /\ HeldIn(buckets, a) \in Nat
             /\ \A i \in D : Share(buckets[i], a) <= HeldIn(buckets, a)
  <2> DEFINE P == {i \in D : buckets[i].owner = a}
  <2>1. HeldIn(buckets, a) = SumFunctionOnSet(f, P)
    BY <1>1 DEF HeldIn, f
  <2>2. IsFiniteSet(P) /\ \A i \in P : f[i] \in Nat
    BY <1>1, FS_Subset
  <2>3. SumFunctionOnSet(f, P) \in Nat /\ \A i \in P : f[i] <= SumFunctionOnSet(f, P)
    <3> HIDE DEF P
    <3> QED
      BY <2>2, SumNat
  <2>4. ASSUME NEW i \in D PROVE Share(buckets[i], a) <= SumFunctionOnSet(f, P)
    BY <1>1, <2>3 DEF Share
  <2> QED
    BY <2>1, <2>3, <2>4
<1> QED
    BY <1>3, <1>4

\* Writing one bucket changes the total and everybody's holdings by that bucket.
LEMMA BucketWritten ==
    ASSUME NEW D, IsFiniteSet(D), NEW old \in [D -> Bucket], NEW i \in D, NEW bucket \in Bucket,
           NEW new, new = [old EXCEPT ![i] = bucket]
    PROVE  /\ Total(new) = Total(old) + bucket.amount - old[i].amount
           /\ \A a \in Account :
                 HeldIn(new, a) = HeldIn(old, a) + Share(bucket, a) - Share(old[i], a)
<1> DEFINE f == AmountsOf(old)
           g == AmountsOf(new)
<1>1. /\ DOMAIN f = D /\ DOMAIN g = D /\ DOMAIN new = D
      /\ new \in [D -> Bucket] /\ new[i] = bucket
      /\ \A j \in D : j # i => new[j] = old[j]
    BY DEF AmountsOf
<1>2. /\ \A j \in D : f[j] = old[j].amount /\ g[j] = new[j].amount
      /\ \A j \in D : f[j] \in Int /\ g[j] \in Int
      /\ \A j \in D \ {i} : g[j] = f[j]
    BY <1>1, BucketFields DEF AmountsOf
<1>3. /\ Total(old) = SumFunctionOnSet(f, D) /\ Total(new) = SumFunctionOnSet(g, D)
    BY <1>1 DEF Total, SumFunction
<1>4. ASSUME NEW a \in Account
      PROVE  HeldIn(new, a) = HeldIn(old, a) + Share(bucket, a) - Share(old[i], a)
  <2> DEFINE P == {j \in D : old[j].owner = a}
             Q == {j \in D : new[j].owner = a}
             u == [j \in D |-> Share(old[j], a)]
             v == [j \in D |-> Share(new[j], a)]
  <2>1. /\ HeldIn(old, a) = SumFunctionOnSet(f, P)
        /\ HeldIn(new, a) = SumFunctionOnSet(g, Q)
    BY <1>1 DEF HeldIn, f, g
  <2>2. /\ \A j \in D : u[j] = IF j \in P THEN f[j] ELSE 0
        /\ \A j \in D : v[j] = IF j \in Q THEN g[j] ELSE 0
    BY <1>2 DEF Share
  <2>3. /\ \A j \in D : u[j] \in Int /\ v[j] \in Int
        /\ \A j \in D \ {i} : u[j] = v[j]
        /\ u[i] = Share(old[i], a) /\ v[i] = Share(bucket, a)
    BY <1>1, BucketFields DEF Share
  <2>4. P \in SUBSET D /\ Q \in SUBSET D
    OBVIOUS
  <2> HIDE DEF u, v, P, Q, f, g
  <2>5. SumFunctionOnSet(f, P) = SumFunctionOnSet(u, D)
    BY <1>2, <2>2, <2>4, SumPart
  <2>6. SumFunctionOnSet(g, Q) = SumFunctionOnSet(v, D)
    BY <1>2, <2>2, <2>4, SumPart
  <2>7. SumFunctionOnSet(v, D) = SumFunctionOnSet(u, D) + v[i] - u[i]
    BY <2>3, SumChange
  <2> QED
    BY <2>1, <2>3, <2>5, <2>6, <2>7
<1>5. Total(new) = Total(old) + bucket.amount - old[i].amount
  <2> HIDE DEF f, g
  <2>1. PICK u, v : u = f /\ v = g
    OBVIOUS
  <2>2. /\ \A j \in D : u[j] \in Int /\ v[j] \in Int
        /\ \A j \in D \ {i} : v[j] = u[j]
    BY <1>2, <2>1
  <2>3. SumFunctionOnSet(v, D) = SumFunctionOnSet(u, D) + v[i] - u[i]
    BY <2>2, SumChange
  <2> QED
    BY <1>1, <1>2, <1>3, <2>1, <2>3
<1> QED
    BY <1>4, <1>5

\* Debiting a bucket takes the amount from its owner and from nobody else.
LEMMA DebitedShare ==
    ASSUME NEW bucket \in Bucket, NEW amount \in Nat, CanDebitBucket(bucket, amount),
           BucketOwned(bucket)
    PROVE  /\ Debited(bucket, amount) \in Bucket /\ BucketOwned(Debited(bucket, amount))
           /\ Debited(bucket, amount).amount = bucket.amount - amount
           /\ \A a \in Account :
                 Share(Debited(bucket, amount), a)
                    = Share(bucket, a) - IF bucket.owner = a THEN amount ELSE 0
<1>1. Debited(bucket, amount) \in Bucket
    BY DebitedType
<1>2. bucket.amount \in Nat /\ bucket.amount - amount \in Nat /\ amount <= bucket.amount
    BY BucketFields DEF CanDebitBucket
<1>3. CASE bucket.amount = amount
    BY <1>1, <1>2, <1>3, AccountAssumption DEF Debited, EmptyBucket, Share, BucketOwned
<1>4. CASE bucket.amount # amount
  <2>1. /\ Debited(bucket, amount).amount = bucket.amount - amount
        /\ Debited(bucket, amount).owner = bucket.owner
    BY <1>4 DEF Debited, Bucket
  <2> QED
    BY <1>1, <1>2, <2>1 DEF Share, BucketOwned, CanDebitBucket
<1> QED
    BY <1>3, <1>4

\* What a full bucket and an empty one hold.
LEMMA FullShare ==
    ASSUME NEW owner \in Account, NEW amount \in Nat
    PROVE  /\ FullBucket(owner, amount) \in Bucket /\ EmptyBucket \in Bucket
           /\ BucketOwned(FullBucket(owner, amount)) /\ BucketOwned(EmptyBucket)
           /\ FullBucket(owner, amount).amount = amount /\ EmptyBucket.amount = 0
           /\ \A a \in Account :
                 /\ Share(FullBucket(owner, amount), a) = IF owner = a THEN amount ELSE 0
                 /\ Share(EmptyBucket, a) = 0
BY BucketType DEF FullBucket, EmptyBucket, BucketOwned, Share

\* A set of buckets holds so much more for one owner, or less, and as before for the others.
Gains(new, old, owner, amount) ==
    /\ Total(new) = Total(old) + amount
    /\ \A c \in Account : HeldIn(new, c) = HeldIn(old, c) + IF c = owner THEN amount ELSE 0

\* A bucket that was free is filled.
LEMMA BucketFilled ==
    ASSUME NEW D, IsFiniteSet(D), NEW old \in [D -> Bucket], \A j \in D : BucketOwned(old[j]),
           NEW i \in D, old[i].owner = NoAccount, NEW owner \in Account, NEW amount \in Nat
    PROVE  LET new == [old EXCEPT ![i] = FullBucket(owner, amount)]
           IN  (\A j \in D : BucketOwned(new[j])) /\ Gains(new, old, owner, amount)
<1>1. PICK new : new = [old EXCEPT ![i] = FullBucket(owner, amount)]
    OBVIOUS
<1>2. old[i].amount = 0 /\ \A c \in Account : Share(old[i], c) = 0
    BY BucketFields, AccountAssumption DEF BucketOwned, Share
<1>3. /\ FullBucket(owner, amount) \in Bucket /\ BucketOwned(FullBucket(owner, amount))
      /\ FullBucket(owner, amount).amount = amount
      /\ \A c \in Account : Share(FullBucket(owner, amount), c) = IF owner = c THEN amount ELSE 0
    BY FullShare
<1>4. /\ Total(new) = Total(old) + FullBucket(owner, amount).amount - old[i].amount
      /\ \A c \in Account : HeldIn(new, c)
            = HeldIn(old, c) + Share(FullBucket(owner, amount), c) - Share(old[i], c)
    BY <1>1, <1>3, BucketWritten
<1>5. Total(old) \in Nat /\ \A c \in Account : HeldIn(old, c) \in Nat
    BY BucketSums
<1>6. Gains(new, old, owner, amount)
    BY <1>2, <1>3, <1>4, <1>5 DEF Gains
<1>7. \A j \in D : BucketOwned(new[j])
    BY <1>1, <1>3
<1> QED
    BY <1>1, <1>6, <1>7

\* A bucket is emptied.
LEMMA BucketEmptied ==
    ASSUME NEW D, IsFiniteSet(D), NEW old \in [D -> Bucket], \A j \in D : BucketOwned(old[j]),
           NEW i \in D
    PROVE  LET new == [old EXCEPT ![i] = EmptyBucket]
           IN  (\A j \in D : BucketOwned(new[j])) /\ Gains(new, old, old[i].owner, -old[i].amount)
<1>1. PICK new : new = [old EXCEPT ![i] = EmptyBucket]
    OBVIOUS
<1>2. /\ EmptyBucket \in Bucket /\ BucketOwned(EmptyBucket) /\ EmptyBucket.amount = 0
      /\ \A c \in Account : Share(EmptyBucket, c) = 0
    BY AccountAssumption DEF EmptyBucket, Bucket, BucketOwned, Share
<1>3. /\ Total(new) = Total(old) + EmptyBucket.amount - old[i].amount
      /\ \A c \in Account : HeldIn(new, c)
            = HeldIn(old, c) + Share(EmptyBucket, c) - Share(old[i], c)
    BY <1>1, <1>2, BucketWritten
<1>4. /\ Total(old) \in Nat /\ \A c \in Account : HeldIn(old, c) \in Nat
      /\ old[i].amount \in Nat
    BY BucketSums, BucketFields
<1>5. Gains(new, old, old[i].owner, -old[i].amount)
    BY <1>2, <1>3, <1>4 DEF Gains, Share
<1>6. \A j \in D : BucketOwned(new[j])
    BY <1>1, <1>2
<1> QED
    BY <1>1, <1>5, <1>6

\* A bucket is debited.
LEMMA BucketDebited ==
    ASSUME NEW D, IsFiniteSet(D), NEW old \in [D -> Bucket], \A j \in D : BucketOwned(old[j]),
           NEW i \in D, NEW amount \in Nat, CanDebitBucket(old[i], amount)
    PROVE  LET new == [old EXCEPT ![i] = Debited(old[i], amount)]
           IN  (\A j \in D : BucketOwned(new[j])) /\ Gains(new, old, old[i].owner, -amount)
<1>1. PICK new, bucket : bucket = Debited(old[i], amount) /\ new = [old EXCEPT ![i] = bucket]
    OBVIOUS
<1>2. /\ bucket \in Bucket /\ BucketOwned(bucket) /\ bucket.amount = old[i].amount - amount
      /\ \A c \in Account :
            Share(bucket, c) = Share(old[i], c) - IF old[i].owner = c THEN amount ELSE 0
    BY <1>1, DebitedShare
<1>a. bucket \in Bucket
    BY <1>2
<1>b. new = [old EXCEPT ![i] = bucket]
    BY <1>1
<1>3. /\ Total(new) = Total(old) + bucket.amount - old[i].amount
      /\ \A c \in Account : HeldIn(new, c) = HeldIn(old, c) + Share(bucket, c) - Share(old[i], c)
    BY <1>a, <1>b, BucketWritten
<1>4. /\ Total(old) \in Nat /\ \A c \in Account : HeldIn(old, c) \in Nat
      /\ old[i].amount \in Nat /\ \A c \in Account : Share(old[i], c) \in Nat
    BY BucketSums, BucketFields DEF Share
<1>5. Gains(new, old, old[i].owner, -amount)
    BY <1>2, <1>3, <1>4 DEF Gains
<1>6. \A j \in D : BucketOwned(new[j])
    BY <1>1, <1>2
<1> QED
    BY <1>1, <1>5, <1>6

\* A bucket that has an owner grows.
LEMMA BucketGrows ==
    ASSUME NEW D, IsFiniteSet(D), NEW old \in [D -> Bucket], \A j \in D : BucketOwned(old[j]),
           NEW i \in D, NEW amount \in Nat, old[i].owner \in Account
    PROVE  LET new == [old EXCEPT ![i].amount = @ + amount]
           IN  (\A j \in D : BucketOwned(new[j])) /\ Gains(new, old, old[i].owner, amount)
<1>1. PICK new, bucket : /\ bucket = [old[i] EXCEPT !.amount = @ + amount]
                         /\ new = [old EXCEPT ![i] = bucket]
    OBVIOUS
<1>2. old[i].amount \in Nat
    BY BucketFields
<1>3. /\ bucket \in Bucket /\ BucketOwned(bucket) /\ bucket.amount = old[i].amount + amount
      /\ bucket.owner = old[i].owner
    BY <1>1, <1>2 DEF Bucket, BucketOwned
<1>a. bucket \in Bucket
    BY <1>3
<1>b. new = [old EXCEPT ![i] = bucket]
    BY <1>1
<1>4. /\ Total(new) = Total(old) + bucket.amount - old[i].amount
      /\ \A c \in Account : HeldIn(new, c) = HeldIn(old, c) + Share(bucket, c) - Share(old[i], c)
    BY <1>a, <1>b, BucketWritten
<1>5. Total(old) \in Nat /\ \A c \in Account : HeldIn(old, c) \in Nat
    BY BucketSums
<1>6. Gains(new, old, old[i].owner, amount)
    BY <1>2, <1>3, <1>4, <1>5 DEF Gains, Share
<1>7. \A j \in D : BucketOwned(new[j])
    BY <1>1, <1>3
<1>8. new = [old EXCEPT ![i].amount = @ + amount]
    BY <1>1
<1> QED
    BY <1>6, <1>7, <1>8

\* One account's free balance changes.
AvailableGains(owner, amount) ==
    /\ SumFunction(availableBalance)' = SumFunction(availableBalance) + amount
    /\ \A c \in Account : availableBalance'[c] = availableBalance[c]
                                                   + IF c = owner THEN amount ELSE 0

LEMMA AvailableChanges ==
    ASSUME availableBalance \in [Account -> Nat], NEW owner \in Account, NEW amount \in Int,
           availableBalance' = [availableBalance EXCEPT ![owner] = availableBalance[owner] + amount]
    PROVE  AvailableGains(owner, amount)
<1>1. PICK u, v : u = availableBalance /\ v = availableBalance'
    OBVIOUS
<1>2. IsFiniteSet(Account)
    BY AccountAssumption
<1>3. u \in [Account -> Int] /\ v = [u EXCEPT ![owner] = u[owner] + amount]
    BY <1>1
<1>4. SumFunction(v) = SumFunction(u) + amount
    BY <1>2, <1>3, SumGrows
<1>5. \A c \in Account : availableBalance'[c] = availableBalance[c]
                                                   + IF c = owner THEN amount ELSE 0
    OBVIOUS
<1> QED
    BY <1>1, <1>4, <1>5 DEF AvailableGains

\* What is not written gains nothing.
LEMMA Untouched ==
    ASSUME NEW D, IsFiniteSet(D), NEW buckets \in [D -> Bucket], NEW owner
    PROVE  Gains(buckets, buckets, owner, 0)
BY BucketSums DEF Gains

LEMMA AvailableUntouched ==
    ASSUME availableBalance \in [Account -> Nat], UNCHANGED availableBalance, NEW owner
    PROVE  AvailableGains(owner, 0)
<1>1. PICK u : u = availableBalance
    OBVIOUS
<1>2. IsFiniteSet(Account) /\ DOMAIN u = Account /\ \A c \in Account : u[c] \in Int
    BY <1>1, AccountAssumption
<1>3. SumFunctionOnSet(u, Account) \in Int
    BY <1>2, SumTake
<1>4. SumFunction(u) \in Int
    BY <1>2, <1>3 DEF SumFunction
<1>5. SumFunction(availableBalance)' = SumFunction(availableBalance) + 0
    BY <1>1, <1>4
<1> QED
    BY <1>5 DEF AvailableGains

\* What the vault holds for everybody, and how one owner's part of it changes.
Inside ==
    SumFunction(availableBalance) + Total(offerReserved) + Total(positionLocked)
      + Total(auctionLocked) + Total(marginLocked)

Moved(owner, amount) ==
    /\ Inside' = Inside + amount
    /\ \A c \in Account : Owned(c)' = Owned(c) + IF c = owner THEN amount ELSE 0

\* What is inside is counted in natural numbers.
LEMMA InsideType ==
    ASSUME VaultTypeOK
    PROVE  /\ SumFunction(availableBalance) \in Nat
           /\ Total(offerReserved) \in Nat /\ Total(positionLocked) \in Nat
           /\ Total(auctionLocked) \in Nat /\ Total(marginLocked) \in Nat
           /\ \A c \in Account :
                 /\ availableBalance[c] \in Nat
                 /\ HeldIn(offerReserved, c) \in Nat /\ HeldIn(positionLocked, c) \in Nat
                 /\ HeldIn(auctionLocked, c) \in Nat /\ HeldIn(marginLocked, c) \in Nat
<1>1. /\ IsFiniteSet(OfferIds) /\ IsFiniteSet(PositionIds) /\ IsFiniteSet(AuctionIds)
      /\ IsFiniteSet(MarginIds) /\ IsFiniteSet(Account)
    BY VaultAssumption, AuctionIdsAssumption, AccountAssumption
<1>2. PICK u : u = availableBalance
    OBVIOUS
<1>3. DOMAIN u = Account /\ \A c \in Account : u[c] \in Nat
    BY <1>2 DEF VaultTypeOK
<1>4. SumFunctionOnSet(u, Account) \in Nat
    BY <1>1, <1>3, SumNat
<1>5. SumFunction(availableBalance) \in Nat
    BY <1>2, <1>3, <1>4 DEF SumFunction
<1>6. Total(offerReserved) \in Nat /\ \A c \in Account : HeldIn(offerReserved, c) \in Nat
    BY <1>1, BucketSums DEF VaultTypeOK
<1>7. Total(positionLocked) \in Nat /\ \A c \in Account : HeldIn(positionLocked, c) \in Nat
    BY <1>1, BucketSums DEF VaultTypeOK
<1>8. Total(auctionLocked) \in Nat /\ \A c \in Account : HeldIn(auctionLocked, c) \in Nat
    BY <1>1, BucketSums DEF VaultTypeOK
<1>9. Total(marginLocked) \in Nat /\ \A c \in Account : HeldIn(marginLocked, c) \in Nat
    BY <1>1, BucketSums DEF VaultTypeOK
<1> QED
    BY <1>2, <1>3, <1>5, <1>6, <1>7, <1>8, <1>9

LEMMA OwnedType ==
    ASSUME VaultTypeOK
    PROVE  Inside \in Nat /\ \A c \in Account : Owned(c) \in Nat
BY InsideType DEF Inside, Owned

\* What the books of a solvent vault record for an owner or a position, the vault can pay out.
LEMMA HeldCanBePaid ==
    ASSUME VaultTypeOK, VaultSolvent
    PROVE  /\ \A a \in Account : CanPayOut(availableBalance[a])
           /\ \A p \in PositionIds : CanPayOut(positionLocked[p].amount)
<1>1. PICK u : u = availableBalance
    OBVIOUS
<1>2. DOMAIN u = Account /\ \A c \in Account : u[c] \in Nat
    BY <1>1 DEF VaultTypeOK
<1>3. \A a \in Account : u[a] <= SumFunctionOnSet(u, Account)
    BY <1>2, AccountAssumption, SumNat
<1>4. \A a \in Account : availableBalance[a] <= SumFunction(availableBalance)
    BY <1>1, <1>2, <1>3 DEF SumFunction
<1>5. \A p \in PositionIds : positionLocked[p].amount <= Total(positionLocked)
    BY VaultAssumption, BucketSums DEF VaultTypeOK
<1>6. \A p \in PositionIds : positionLocked[p].amount \in Nat
    BY BucketFields DEF VaultTypeOK
<1>7. Inside = totalAccounted /\ totalAccounted <= vaultAssets
      /\ totalAccounted \in Nat /\ vaultAssets \in Nat
    BY DEF VaultSolvent, Inside, Total, VaultTypeOK
<1>8. /\ \A a \in Account : availableBalance[a] <= Inside
      /\ \A p \in PositionIds : positionLocked[p].amount <= Inside
    BY <1>4, <1>5, <1>6, InsideType DEF Inside
<1>9. ASSUME NEW n \in Nat, n <= Inside PROVE CanPayOut(n)
    BY <1>7, <1>9 DEF CanPayOut
<1> QED
    BY <1>6, <1>8, <1>9, InsideType

LEMMA OwnedTypes == VaultTypeOK => \A c \in Account : Owned(c) \in Nat
BY OwnedType

\* An owner's part of the vault changes by what the kinds of buckets gain together.
LEMMA VaultMoves ==
    ASSUME VaultTypeOK, NEW owner, NEW n \in Int, NEW i \in Int, NEW j \in Int, NEW k \in Int,
           NEW l \in Int, NEW total, total = n + i + j + k + l,
           AvailableGains(owner, n),
           Gains(offerReserved', offerReserved, owner, i),
           Gains(positionLocked', positionLocked, owner, j),
           Gains(auctionLocked', auctionLocked, owner, k),
           Gains(marginLocked', marginLocked, owner, l)
    PROVE  Moved(owner, total)
<1>1. Inside' = Inside + total
    BY InsideType DEF Inside, AvailableGains, Gains
<1>2. ASSUME NEW c \in Account
      PROVE  Owned(c)' = Owned(c) + IF c = owner THEN total ELSE 0
  <2>1. /\ availableBalance[c] \in Int
        /\ HeldIn(offerReserved, c) \in Int /\ HeldIn(positionLocked, c) \in Int
        /\ HeldIn(auctionLocked, c) \in Int /\ HeldIn(marginLocked, c) \in Int
    BY InsideType
  <2>2. /\ availableBalance'[c] = availableBalance[c] + IF c = owner THEN n ELSE 0
        /\ HeldIn(offerReserved', c) = HeldIn(offerReserved, c) + IF c = owner THEN i ELSE 0
        /\ HeldIn(positionLocked', c) = HeldIn(positionLocked, c) + IF c = owner THEN j ELSE 0
        /\ HeldIn(auctionLocked', c) = HeldIn(auctionLocked, c) + IF c = owner THEN k ELSE 0
        /\ HeldIn(marginLocked', c) = HeldIn(marginLocked, c) + IF c = owner THEN l ELSE 0
    BY DEF AvailableGains, Gains
  <2> QED
    BY <2>1, <2>2 DEF Owned
<1> QED
    BY <1>1, <1>2 DEF Moved

\* What a call of the vault may do to it: rearrange, take in, let out, receive a donation.
CustodyKept == (\E c \in Account : Moved(c, 0)) /\ tokensUnchanged
CustodyTakesIn ==
    \E c \in Account : \E n \in 1..cva[c] :
        /\ Moved(c, n) /\ totalAccounted' = totalAccounted + n
        /\ vaultAssets' = vaultAssets + n /\ cva' = [cva EXCEPT ![c] = @ - n]
CustodyLetsOut ==
    \E c \in Account, b \in Account, n \in Nat \ {0} : Moved(c, -n) /\ PayOut(b, n)
Donated ==
    \E c \in Account : \E n \in 1..cva[c] :
        /\ Moved(c, 0) /\ totalAccounted' = totalAccounted
        /\ vaultAssets' = vaultAssets + n /\ cva' = [cva EXCEPT ![c] = @ - n]

VaultOutcome ==
    BucketsOwned' /\ (CustodyKept \/ CustodyTakesIn \/ CustodyLetsOut \/ Donated)

\* A debit and a credit of a free balance, and what an owner of a bucket is.
LEMMA DebitGains ==
    ASSUME VaultTypeOK, NEW owner \in Account, NEW amount \in Nat, Debit(owner, amount)
    PROVE  AvailableGains(owner, -amount) /\ amount > 0
<1>1. PICK m \in Int : m = -amount
    OBVIOUS
<1>2. /\ availableBalance \in [Account -> Nat] /\ amount > 0
      /\ availableBalance' = [availableBalance EXCEPT ![owner] = availableBalance[owner] + m]
    BY <1>1 DEF Debit, CanDebitAvailable, VaultTypeOK
<1>3. AvailableGains(owner, m)
    BY <1>2, AvailableChanges
<1> QED
    BY <1>1, <1>2, <1>3

LEMMA CreditGains ==
    ASSUME VaultTypeOK, NEW owner \in Account, NEW amount \in Nat, Credit(owner, amount)
    PROVE  AvailableGains(owner, amount)
<1>1. PICK m \in Int : m = amount
    OBVIOUS
<1>2. /\ availableBalance \in [Account -> Nat]
      /\ availableBalance' = [availableBalance EXCEPT ![owner] = availableBalance[owner] + m]
    BY <1>1 DEF Credit, VaultTypeOK
<1>3. AvailableGains(owner, m)
    BY <1>2, AvailableChanges
<1> QED
    BY <1>1, <1>3

\* The index sets of the buckets are finite.
LEMMA FiniteBuckets ==
    /\ IsFiniteSet(OfferIds) /\ IsFiniteSet(PositionIds) /\ IsFiniteSet(AuctionIds)
    /\ IsFiniteSet(MarginIds)
BY VaultAssumption, AuctionIdsAssumption

\* A call that leaves alone what it does not name.
LEMMA OthersUntouched ==
    ASSUME VaultTypeOK, NEW owner
    PROVE  /\ UNCHANGED availableBalance => AvailableGains(owner, 0)
           /\ UNCHANGED offerReserved => Gains(offerReserved', offerReserved, owner, 0)
           /\ UNCHANGED positionLocked => Gains(positionLocked', positionLocked, owner, 0)
           /\ UNCHANGED auctionLocked => Gains(auctionLocked', auctionLocked, owner, 0)
           /\ UNCHANGED marginLocked => Gains(marginLocked', marginLocked, owner, 0)
<1>1. UNCHANGED availableBalance => AvailableGains(owner, 0)
    BY AvailableUntouched DEF VaultTypeOK
<1>2. UNCHANGED offerReserved => Gains(offerReserved', offerReserved, owner, 0)
    BY FiniteBuckets, Untouched DEF VaultTypeOK
<1>3. UNCHANGED positionLocked => Gains(positionLocked', positionLocked, owner, 0)
    BY FiniteBuckets, Untouched DEF VaultTypeOK
<1>4. UNCHANGED auctionLocked => Gains(auctionLocked', auctionLocked, owner, 0)
    BY FiniteBuckets, Untouched DEF VaultTypeOK
<1>5. UNCHANGED marginLocked => Gains(marginLocked', marginLocked, owner, 0)
    BY FiniteBuckets, Untouched DEF VaultTypeOK
<1> QED
    BY <1>1, <1>2, <1>3, <1>4, <1>5

\* Deposits, withdrawals and donations.
LEMMA BalanceCalls ==
    ASSUME VaultTypeOK, BucketsOwned, NEW a \in Account, NEW b \in Account, NEW n \in Nat,
           DepositFor(a, n) \/ WithdrawTo(a, b, n) \/ DirectTransferToVault(a, n)
    PROVE  VaultOutcome
<1>1. CASE DepositFor(a, n)
  <2>1. /\ UNCHANGED <<offerReserved, positionLocked, auctionLocked, marginLocked>>
        /\ Credit(a, n) /\ n \in 1..cva[a] /\ totalAccounted' = totalAccounted + n
        /\ vaultAssets' = vaultAssets + n /\ cva' = [cva EXCEPT ![a] = @ - n]
    BY <1>1 DEF DepositFor, CanDeposit, VaultTypeOK
  <2>2. Moved(a, n + 0 + 0 + 0 + 0)
    BY <2>1, CreditGains, OthersUntouched, VaultMoves
  <2>3. Moved(a, n)
    BY <2>2
  <2> QED
    BY <2>1, <2>3 DEF VaultOutcome, CustodyTakesIn, BucketsOwned
<1>2. CASE WithdrawTo(a, b, n)
  <2>1. /\ UNCHANGED <<offerReserved, positionLocked, auctionLocked, marginLocked>>
        /\ Debit(a, n) /\ PayOut(b, n)
    BY <1>2 DEF WithdrawTo
  <2>2. Moved(a, -n + 0 + 0 + 0 + 0) /\ n > 0
    BY <2>1, DebitGains, OthersUntouched, VaultMoves
  <2>3. Moved(a, -n) /\ n \in Nat \ {0}
    BY <2>2
  <2> QED
    BY <2>1, <2>3 DEF VaultOutcome, CustodyLetsOut, BucketsOwned
<1>3. CASE DirectTransferToVault(a, n)
  <2>1. /\ UNCHANGED bucketVars /\ n \in 1..cva[a] /\ totalAccounted' = totalAccounted
        /\ vaultAssets' = vaultAssets + n /\ cva' = [cva EXCEPT ![a] = @ - n]
    BY <1>3 DEF DirectTransferToVault, VaultTypeOK
  <2>2. Moved(a, 0 + 0 + 0 + 0 + 0)
    BY <2>1, OthersUntouched, VaultMoves DEF bucketVars
  <2>3. Moved(a, 0)
    BY <2>2
  <2> QED
    BY <2>1, <2>3 DEF VaultOutcome, Donated, BucketsOwned, bucketVars
<1> QED
    BY <1>1, <1>2, <1>3

\* The buckets of an offer and of a position.
LEMMA OfferCalls ==
    ASSUME VaultTypeOK, BucketsOwned, NEW a \in Account, NEW o \in OfferIds, NEW n \in Nat,
           ReserveOffer(a, o, n) \/ ReleaseOffer(a, o, n)
    PROVE  BucketsOwned' /\ Moved(a, 0) /\ tokensUnchanged
<1>1. CASE ReserveOffer(a, o, n)
  <2>1. /\ UNCHANGED <<positionLocked, auctionLocked, marginLocked>> /\ tokensUnchanged
        /\ Debit(a, n) /\ offerReserved[o].owner = NoAccount
        /\ offerReserved' = [offerReserved EXCEPT ![o] = FullBucket(a, n)]
    BY <1>1 DEF ReserveOffer
  <2>2. /\ \A i \in OfferIds : BucketOwned(offerReserved'[i])
        /\ Gains(offerReserved', offerReserved, a, n)
    BY <2>1, FiniteBuckets, BucketFilled DEF VaultTypeOK, BucketsOwned
  <2>3. AvailableGains(a, -n)
    BY <2>1, DebitGains
  <2>4. /\ Gains(positionLocked', positionLocked, a, 0)
        /\ Gains(auctionLocked', auctionLocked, a, 0)
        /\ Gains(marginLocked', marginLocked, a, 0)
    BY <2>1, OthersUntouched
  <2>5. Moved(a, 0)
    BY <2>2, <2>3, <2>4, VaultMoves
  <2> QED
    BY <2>1, <2>2, <2>5 DEF BucketsOwned
<1>2. CASE ReleaseOffer(a, o, n)
  <2>1. /\ UNCHANGED <<positionLocked, auctionLocked, marginLocked>> /\ tokensUnchanged
        /\ Credit(a, n) /\ offerReserved[o].owner = a /\ CanDebitBucket(offerReserved[o], n)
        /\ offerReserved' = [offerReserved EXCEPT ![o] = Debited(offerReserved[o], n)]
    BY <1>2 DEF ReleaseOffer, Owns, VaultTypeOK
  <2>2. /\ \A i \in OfferIds : BucketOwned(offerReserved'[i])
        /\ Gains(offerReserved', offerReserved, a, -n)
    BY <2>1, FiniteBuckets, BucketDebited DEF VaultTypeOK, BucketsOwned
  <2>3. AvailableGains(a, n)
    BY <2>1, CreditGains
  <2>4. /\ Gains(positionLocked', positionLocked, a, 0)
        /\ Gains(auctionLocked', auctionLocked, a, 0)
        /\ Gains(marginLocked', marginLocked, a, 0)
    BY <2>1, OthersUntouched
  <2>5. Moved(a, 0)
    BY <2>2, <2>3, <2>4, VaultMoves
  <2> QED
    BY <2>1, <2>2, <2>5 DEF BucketsOwned
<1> QED
    BY <1>1, <1>2

\* A fill moves collateral from the offer's bucket to the position's.
LEMMA PositionAllocated ==
    ASSUME VaultTypeOK, BucketsOwned, NEW a \in Account, NEW o \in OfferIds,
           NEW p \in PositionIds, NEW n \in Nat, AllocatePosition(a, o, p, n)
    PROVE  BucketsOwned' /\ Moved(a, 0) /\ tokensUnchanged
<1>1. /\ UNCHANGED <<availableBalance, auctionLocked, marginLocked>> /\ tokensUnchanged
      /\ offerReserved[o].owner = a /\ CanDebitBucket(offerReserved[o], n)
      /\ positionLocked[p].owner = NoAccount
      /\ offerReserved' = [offerReserved EXCEPT ![o] = Debited(offerReserved[o], n)]
      /\ positionLocked' = [positionLocked EXCEPT ![p] = FullBucket(a, n)]
    BY DEF AllocatePosition, Owns, VaultTypeOK
<1>2. /\ \A i \in OfferIds : BucketOwned(offerReserved'[i])
      /\ Gains(offerReserved', offerReserved, a, -n)
    BY <1>1, FiniteBuckets, BucketDebited DEF VaultTypeOK, BucketsOwned
<1>3. /\ \A i \in PositionIds : BucketOwned(positionLocked'[i])
      /\ Gains(positionLocked', positionLocked, a, n)
  <2>1. /\ positionLocked[p].owner = NoAccount
        /\ positionLocked' = [positionLocked EXCEPT ![p] = FullBucket(a, n)]
    BY <1>1
  <2> QED
    BY <2>1, FiniteBuckets, BucketFilled DEF VaultTypeOK, BucketsOwned
<1>4. /\ AvailableGains(a, 0)
      /\ Gains(auctionLocked', auctionLocked, a, 0)
      /\ Gains(marginLocked', marginLocked, a, 0)
    BY <1>1, OthersUntouched
<1>5. Moved(a, 0)
    BY <1>2, <1>3, <1>4, VaultMoves
<1> QED
    BY <1>1, <1>2, <1>3, <1>5 DEF BucketsOwned

\* A repayment frees the bucket of its position.
LEMMA PositionReleased ==
    ASSUME VaultTypeOK, BucketsOwned, NEW a \in Account, NEW p \in PositionIds,
           ReleasePosition(a, p)
    PROVE  BucketsOwned' /\ Moved(a, 0) /\ tokensUnchanged
<1>1. PICK m \in Nat : m = positionLocked[p].amount
    BY BucketFields DEF VaultTypeOK
<1>2. /\ UNCHANGED <<offerReserved, auctionLocked, marginLocked>> /\ tokensUnchanged
      /\ Credit(a, m) /\ positionLocked[p].owner = a
      /\ positionLocked' = [positionLocked EXCEPT ![p] = EmptyBucket]
    BY <1>1 DEF ReleasePosition, Owns
<1>3. /\ \A i \in PositionIds : BucketOwned(positionLocked'[i])
      /\ Gains(positionLocked', positionLocked, positionLocked[p].owner,
               -positionLocked[p].amount)
    BY <1>2, FiniteBuckets, BucketEmptied DEF VaultTypeOK, BucketsOwned
<1>4. Gains(positionLocked', positionLocked, a, -m)
    BY <1>1, <1>2, <1>3
<1>5. AvailableGains(a, m)
    BY <1>2, CreditGains
<1>6. /\ Gains(offerReserved', offerReserved, a, 0)
      /\ Gains(auctionLocked', auctionLocked, a, 0)
      /\ Gains(marginLocked', marginLocked, a, 0)
    BY <1>2, OthersUntouched
<1>7. Moved(a, 0)
    BY <1>4, <1>5, <1>6, VaultMoves
<1> QED
    BY <1>2, <1>3, <1>7 DEF BucketsOwned

\* Collateral that is auctioned off stays its owner's until the auction releases it.
LEMMA AuctioningCalls ==
    ASSUME VaultTypeOK, BucketsOwned, NEW a \in Account, NEW x \in AuctionIds,
           \/ \E p \in PositionIds : AllocateAuction(a, p, x)
           \/ \E m \in MarginIds : AllocateMarginAuction(a, m, x)
    PROVE  BucketsOwned' /\ Moved(a, 0) /\ tokensUnchanged
<1>1. ASSUME NEW n \in Nat, auctionLocked[x].owner = NoAccount,
             auctionLocked' = [auctionLocked EXCEPT ![x] = FullBucket(a, n)]
      PROVE  /\ \A i \in AuctionIds : BucketOwned(auctionLocked'[i])
             /\ Gains(auctionLocked', auctionLocked, a, n)
    BY <1>1, FiniteBuckets, BucketFilled DEF VaultTypeOK, BucketsOwned
<1>2. ASSUME NEW p \in PositionIds, AllocateAuction(a, p, x)
      PROVE  BucketsOwned' /\ Moved(a, 0) /\ tokensUnchanged
  <2>1. PICK n \in Nat : n = positionLocked[p].amount
    BY BucketFields DEF VaultTypeOK
  <2>2. /\ UNCHANGED <<availableBalance, offerReserved, marginLocked>> /\ tokensUnchanged
        /\ positionLocked[p].owner = a /\ auctionLocked[x].owner = NoAccount
        /\ positionLocked' = [positionLocked EXCEPT ![p] = EmptyBucket]
        /\ auctionLocked' = [auctionLocked EXCEPT ![x] = FullBucket(a, n)]
    BY <1>2, <2>1 DEF AllocateAuction, Owns
  <2>3. /\ \A i \in PositionIds : BucketOwned(positionLocked'[i])
        /\ Gains(positionLocked', positionLocked, positionLocked[p].owner,
                 -positionLocked[p].amount)
    BY <2>2, FiniteBuckets, BucketEmptied DEF VaultTypeOK, BucketsOwned
  <2>4. Gains(positionLocked', positionLocked, a, -n)
    BY <2>1, <2>2, <2>3
  <2>5. /\ \A i \in AuctionIds : BucketOwned(auctionLocked'[i])
        /\ Gains(auctionLocked', auctionLocked, a, n)
    BY <1>1, <2>2
  <2>6. /\ AvailableGains(a, 0)
        /\ Gains(offerReserved', offerReserved, a, 0)
        /\ Gains(marginLocked', marginLocked, a, 0)
    BY <2>2, OthersUntouched
  <2>7. Moved(a, 0)
    BY <2>4, <2>5, <2>6, VaultMoves
  <2> QED
    BY <2>2, <2>3, <2>5, <2>7 DEF BucketsOwned
<1>3. ASSUME NEW m \in MarginIds, AllocateMarginAuction(a, m, x)
      PROVE  BucketsOwned' /\ Moved(a, 0) /\ tokensUnchanged
  <2>1. PICK n \in Nat : n = marginLocked[m].amount
    BY BucketFields DEF VaultTypeOK
  <2>2. /\ UNCHANGED <<availableBalance, offerReserved, positionLocked>> /\ tokensUnchanged
        /\ marginLocked[m].owner = a /\ auctionLocked[x].owner = NoAccount
        /\ marginLocked' = [marginLocked EXCEPT ![m] = EmptyBucket]
        /\ auctionLocked' = [auctionLocked EXCEPT ![x] = FullBucket(a, n)]
    BY <1>3, <2>1 DEF AllocateMarginAuction, Owns
  <2>3. /\ \A i \in MarginIds : BucketOwned(marginLocked'[i])
        /\ Gains(marginLocked', marginLocked, marginLocked[m].owner, -marginLocked[m].amount)
    BY <2>2, FiniteBuckets, BucketEmptied DEF VaultTypeOK, BucketsOwned
  <2>4. Gains(marginLocked', marginLocked, a, -n)
    BY <2>1, <2>2, <2>3
  <2>5. /\ \A i \in AuctionIds : BucketOwned(auctionLocked'[i])
        /\ Gains(auctionLocked', auctionLocked, a, n)
    BY <1>1, <2>2
  <2>6. /\ AvailableGains(a, 0)
        /\ Gains(offerReserved', offerReserved, a, 0)
        /\ Gains(positionLocked', positionLocked, a, 0)
    BY <2>2, OthersUntouched
  <2>7. Moved(a, 0)
    BY <2>4, <2>5, <2>6, VaultMoves
  <2> QED
    BY <2>2, <2>3, <2>5, <2>7 DEF BucketsOwned
<1> QED
    BY <1>2, <1>3

\* Collateral of a position or of an auction is let out, whole or in parts.
LEMMA ReleaseCalls ==
    ASSUME VaultTypeOK, BucketsOwned, NEW b \in Account, NEW n \in Nat,
           \/ \E p \in PositionIds : SeizePosition(p, b)
           \/ \E x \in AuctionIds : ReleaseAuction(x, b) \/ ReleaseAuctionPartial(x, b, n)
    PROVE  BucketsOwned' /\ CustodyLetsOut
<1>1. ASSUME NEW p \in PositionIds, SeizePosition(p, b)
      PROVE  BucketsOwned' /\ CustodyLetsOut
  <2>1. PICK m, c : m = positionLocked[p].amount /\ c = positionLocked[p].owner
    OBVIOUS
  <2>2. /\ UNCHANGED <<availableBalance, offerReserved, auctionLocked, marginLocked>>
        /\ positionLocked[p].amount > 0 /\ PayOut(b, m)
        /\ positionLocked' = [positionLocked EXCEPT ![p] = EmptyBucket]
    BY <1>1, <2>1 DEF SeizePosition
  <2>3. m \in Nat \ {0} /\ c \in Account
    BY <2>1, <2>2, BucketFields DEF VaultTypeOK, BucketsOwned, BucketOwned
  <2>4. /\ \A i \in PositionIds : BucketOwned(positionLocked'[i])
        /\ Gains(positionLocked', positionLocked, positionLocked[p].owner,
                 -positionLocked[p].amount)
    BY <2>2, FiniteBuckets, BucketEmptied DEF VaultTypeOK, BucketsOwned
  <2>5. Gains(positionLocked', positionLocked, c, -m)
    BY <2>1, <2>4
  <2>6. /\ AvailableGains(c, 0)
        /\ Gains(offerReserved', offerReserved, c, 0)
        /\ Gains(auctionLocked', auctionLocked, c, 0)
        /\ Gains(marginLocked', marginLocked, c, 0)
    BY <2>2, OthersUntouched
  <2>7. Moved(c, -m)
    BY <2>3, <2>5, <2>6, VaultMoves
  <2> QED
    BY <2>2, <2>3, <2>4, <2>7 DEF BucketsOwned, CustodyLetsOut
<1>2. ASSUME NEW x \in AuctionIds, NEW m \in Nat \ {0}, NEW c \in Account, PayOut(b, m),
             UNCHANGED <<availableBalance, offerReserved, positionLocked, marginLocked>>,
             \A i \in AuctionIds : BucketOwned(auctionLocked'[i]),
             Gains(auctionLocked', auctionLocked, c, -m)
      PROVE  BucketsOwned' /\ CustodyLetsOut
  <2>1. /\ AvailableGains(c, 0)
        /\ Gains(offerReserved', offerReserved, c, 0)
        /\ Gains(positionLocked', positionLocked, c, 0)
        /\ Gains(marginLocked', marginLocked, c, 0)
    BY <1>2, OthersUntouched
  <2>2. Moved(c, -m)
    BY <1>2, <2>1, VaultMoves
  <2> QED
    BY <1>2, <2>2 DEF BucketsOwned, CustodyLetsOut
<1>3. ASSUME NEW x \in AuctionIds, ReleaseAuction(x, b)
      PROVE  BucketsOwned' /\ CustodyLetsOut
  <2>1. PICK m, c : m = auctionLocked[x].amount /\ c = auctionLocked[x].owner
    OBVIOUS
  <2>2. /\ UNCHANGED <<availableBalance, offerReserved, positionLocked, marginLocked>>
        /\ auctionLocked[x].amount > 0 /\ PayOut(b, m)
        /\ auctionLocked' = [auctionLocked EXCEPT ![x] = EmptyBucket]
    BY <1>3, <2>1 DEF ReleaseAuction
  <2>3. m \in Nat \ {0} /\ c \in Account
    BY <2>1, <2>2, BucketFields DEF VaultTypeOK, BucketsOwned, BucketOwned
  <2>4. /\ \A i \in AuctionIds : BucketOwned(auctionLocked'[i])
        /\ Gains(auctionLocked', auctionLocked, auctionLocked[x].owner, -auctionLocked[x].amount)
    BY <2>2, FiniteBuckets, BucketEmptied DEF VaultTypeOK, BucketsOwned
  <2>5. Gains(auctionLocked', auctionLocked, c, -m)
    BY <2>1, <2>4
  <2> QED
    BY <1>2, <2>2, <2>3, <2>4, <2>5
<1>4. ASSUME NEW x \in AuctionIds, ReleaseAuctionPartial(x, b, n)
      PROVE  BucketsOwned' /\ CustodyLetsOut
  <2>1. PICK c : c = auctionLocked[x].owner
    OBVIOUS
  <2>2. /\ UNCHANGED <<availableBalance, offerReserved, positionLocked, marginLocked>>
        /\ CanDebitBucket(auctionLocked[x], n) /\ PayOut(b, n)
        /\ auctionLocked' = [auctionLocked EXCEPT ![x] = Debited(auctionLocked[x], n)]
    BY <1>4 DEF ReleaseAuctionPartial, VaultTypeOK
  <2>3. n \in Nat \ {0} /\ c \in Account
    BY <2>1, <2>2, BucketFields DEF VaultTypeOK, BucketsOwned, BucketOwned, CanDebitBucket
  <2>4. /\ \A i \in AuctionIds : BucketOwned(auctionLocked'[i])
        /\ Gains(auctionLocked', auctionLocked, auctionLocked[x].owner, -n)
    BY <2>2, FiniteBuckets, BucketDebited DEF VaultTypeOK, BucketsOwned
  <2>5. Gains(auctionLocked', auctionLocked, c, -n)
    BY <2>1, <2>4
  <2> QED
    BY <1>2, <2>2, <2>3, <2>4, <2>5
<1> QED
    BY <1>1, <1>3, <1>4

\* The buckets of a margin account.
LEMMA MarginCalls ==
    ASSUME VaultTypeOK, BucketsOwned, NEW a \in Account, NEW m \in MarginIds, NEW n \in Nat,
           ReserveMargin(a, m, n) \/ AddMargin(a, m, n) \/ ReleaseMargin(a, m, n)
    PROVE  BucketsOwned' /\ Moved(a, 0) /\ tokensUnchanged
<1>1. ASSUME NEW k \in Int, NEW l \in Int, AvailableGains(a, k),
             Gains(marginLocked', marginLocked, a, l), k + l = 0,
             \A i \in MarginIds : BucketOwned(marginLocked'[i]),
             UNCHANGED <<offerReserved, positionLocked, auctionLocked>>, tokensUnchanged
      PROVE  BucketsOwned' /\ Moved(a, 0) /\ tokensUnchanged
  <2>1. /\ Gains(offerReserved', offerReserved, a, 0)
        /\ Gains(positionLocked', positionLocked, a, 0)
        /\ Gains(auctionLocked', auctionLocked, a, 0)
    BY <1>1, OthersUntouched
  <2>2. Moved(a, 0)
    BY <1>1, <2>1, VaultMoves
  <2> QED
    BY <1>1, <2>2 DEF BucketsOwned
<1>2. CASE ReserveMargin(a, m, n)
  <2>1. /\ UNCHANGED <<offerReserved, positionLocked, auctionLocked>> /\ tokensUnchanged
        /\ Debit(a, n) /\ marginLocked[m].owner = NoAccount
        /\ marginLocked' = [marginLocked EXCEPT ![m] = FullBucket(a, n)]
    BY <1>2 DEF ReserveMargin
  <2>2. /\ \A i \in MarginIds : BucketOwned(marginLocked'[i])
        /\ Gains(marginLocked', marginLocked, a, n)
    BY <2>1, FiniteBuckets, BucketFilled DEF VaultTypeOK, BucketsOwned
  <2>3. AvailableGains(a, -n)
    BY <2>1, DebitGains
  <2> QED
    BY <1>1, <2>1, <2>2, <2>3
<1>3. CASE AddMargin(a, m, n)
  <2>1. /\ UNCHANGED <<offerReserved, positionLocked, auctionLocked>> /\ tokensUnchanged
        /\ Debit(a, n) /\ marginLocked[m].owner = a
        /\ marginLocked' = [marginLocked EXCEPT ![m].amount = @ + n]
    BY <1>3 DEF AddMargin, Owns
  <2>2. /\ \A i \in MarginIds : BucketOwned(marginLocked'[i])
        /\ Gains(marginLocked', marginLocked, a, n)
    BY <2>1, FiniteBuckets, BucketGrows DEF VaultTypeOK, BucketsOwned
  <2>3. AvailableGains(a, -n)
    BY <2>1, DebitGains
  <2> QED
    BY <1>1, <2>1, <2>2, <2>3
<1>4. CASE ReleaseMargin(a, m, n)
  <2>1. /\ UNCHANGED <<offerReserved, positionLocked, auctionLocked>> /\ tokensUnchanged
        /\ Credit(a, n) /\ marginLocked[m].owner = a /\ CanDebitBucket(marginLocked[m], n)
        /\ marginLocked' = [marginLocked EXCEPT ![m] = Debited(marginLocked[m], n)]
    BY <1>4 DEF ReleaseMargin, Owns, VaultTypeOK
  <2>2. /\ \A i \in MarginIds : BucketOwned(marginLocked'[i])
        /\ Gains(marginLocked', marginLocked, a, -n)
    BY <2>1, FiniteBuckets, BucketDebited DEF VaultTypeOK, BucketsOwned
  <2>3. AvailableGains(a, n)
    BY <2>1, CreditGains
  <2> QED
    BY <1>1, <2>1, <2>2, <2>3
<1> QED
    BY <1>2, <1>3, <1>4

\* A margin account's collateral may be let out to a recipient its owner names.
LEMMA MarginLeaves ==
    ASSUME VaultTypeOK, BucketsOwned, NEW a \in Account, NEW b \in Account, NEW n \in Nat \ {0},
           PayOut(b, n), UNCHANGED <<availableBalance, offerReserved, positionLocked, auctionLocked>>,
           \A i \in MarginIds : BucketOwned(marginLocked'[i]),
           Gains(marginLocked', marginLocked, a, -n)
    PROVE  BucketsOwned' /\ CustodyLetsOut
<1>1. /\ AvailableGains(a, 0)
      /\ Gains(offerReserved', offerReserved, a, 0)
      /\ Gains(positionLocked', positionLocked, a, 0)
      /\ Gains(auctionLocked', auctionLocked, a, 0)
    BY OthersUntouched
<1>2. Moved(a, -n)
    BY <1>1, VaultMoves
<1> QED
    BY <1>2 DEF BucketsOwned, CustodyLetsOut

LetsMarginOut(a, m, b, n) ==
    /\ Owns(marginLocked[m], a)
    /\ CanDebitBucket(marginLocked[m], n)
    /\ marginLocked' = [marginLocked EXCEPT ![m] = Debited(@, n)]
    /\ PayOut(b, n)
    /\ UNCHANGED <<availableBalance, offerReserved, positionLocked, auctionLocked>>

LEMMA MarginLetOut ==
    ASSUME VaultTypeOK, BucketsOwned, NEW a \in Account, NEW m \in MarginIds,
           NEW b \in Account, NEW n \in Nat, LetsMarginOut(a, m, b, n)
    PROVE  BucketsOwned' /\ CustodyLetsOut
<1>1. PICK old, new : old = marginLocked /\ new = marginLocked'
    OBVIOUS
<1>2. /\ old \in [MarginIds -> Bucket] /\ \A i \in MarginIds : BucketOwned(old[i])
    BY <1>1 DEF VaultTypeOK, BucketsOwned
<1>3. CanDebitBucket(old[m], n) /\ old[m].owner = a /\ n > 0
    BY <1>1 DEF LetsMarginOut, Owns, CanDebitBucket
<1>4. new = [old EXCEPT ![m] = Debited(old[m], n)]
    BY <1>1, <1>2 DEF LetsMarginOut
<1>5. (\A i \in MarginIds : BucketOwned(new[i])) /\ Gains(new, old, old[m].owner, -n)
    BY <1>2, <1>3, <1>4, FiniteBuckets, BucketDebited
<1>6. /\ \A i \in MarginIds : BucketOwned(marginLocked'[i])
      /\ Gains(marginLocked', marginLocked, a, -n)
    BY <1>1, <1>3, <1>5
<1>7. /\ PayOut(b, n) /\ n \in Nat \ {0}
      /\ UNCHANGED <<availableBalance, offerReserved, positionLocked, auctionLocked>>
    BY <1>3 DEF LetsMarginOut
<1> QED
    BY <1>6, <1>7, MarginLeaves

\* Every call of the vault is one of the four things custody allows.
LEMMA VaultOutcomes ==
    ASSUME VaultTypeOK, BucketsOwned, NEW a \in Account, NEW b \in Account, NEW n \in Nat,
           VaultCall(a, b, n)
    PROVE  VaultOutcome
<1>1. CASE DepositFor(a, n) \/ WithdrawTo(a, b, n) \/ DirectTransferToVault(a, n)
    BY <1>1, BalanceCalls
<1>2. CASE \E o \in OfferIds : ReserveOffer(a, o, n) \/ ReleaseOffer(a, o, n)
    BY <1>2, OfferCalls DEF VaultOutcome, CustodyKept
<1>3. CASE \E o \in OfferIds, p \in PositionIds : AllocatePosition(a, o, p, n)
    BY <1>3, PositionAllocated DEF VaultOutcome, CustodyKept
<1>4. CASE \E p \in PositionIds : ReleasePosition(a, p)
  <2>1. PICK p \in PositionIds : ReleasePosition(a, p)
    BY <1>4
  <2>2. BucketsOwned' /\ Moved(a, 0) /\ tokensUnchanged
    BY <2>1, PositionReleased
  <2> QED
    BY <2>2 DEF VaultOutcome, CustodyKept
<1>5. CASE \E p \in PositionIds : SeizePosition(p, b)
    BY <1>5, ReleaseCalls DEF VaultOutcome
<1>6. CASE \E p \in PositionIds, x \in AuctionIds : AllocateAuction(a, p, x)
    BY <1>6, AuctioningCalls DEF VaultOutcome, CustodyKept
<1>7. CASE \E x \in AuctionIds : ReleaseAuction(x, b) \/ ReleaseAuctionPartial(x, b, n)
    BY <1>7, ReleaseCalls DEF VaultOutcome
<1>8. CASE \E m \in MarginIds :
              ReserveMargin(a, m, n) \/ AddMargin(a, m, n) \/ ReleaseMargin(a, m, n)
    BY <1>8, MarginCalls DEF VaultOutcome, CustodyKept
<1>9. CASE \E m \in MarginIds, x \in AuctionIds : AllocateMarginAuction(a, m, x)
    BY <1>9, AuctioningCalls DEF VaultOutcome, CustodyKept
<1> QED
    BY <1>1, <1>2, <1>3, <1>4, <1>5, <1>6, <1>7, <1>8, <1>9, VaultCall(a, b, n) DEF VaultCall

\* What a call leaves owed is what the buckets add up to, and the tokens still cover it.
LEMMA OutcomeSolvent ==
    ASSUME VaultTypeOK, VaultTypeOK', VaultSolvent, VaultOutcome
    PROVE  VaultSolvent'
<1>1. VaultSolvent <=> totalAccounted = Inside /\ totalAccounted <= vaultAssets
    BY DEF VaultSolvent, Inside, Total
<1>2. VaultSolvent' <=> totalAccounted' = Inside' /\ totalAccounted' <= vaultAssets'
    BY DEF VaultSolvent, Inside, Total
<1>3. Inside \in Nat /\ totalAccounted \in Nat /\ vaultAssets \in Nat
    BY OwnedType DEF VaultTypeOK
<1>4. CASE CustodyKept
    BY <1>1, <1>2, <1>3, <1>4 DEF CustodyKept, Moved, tokensUnchanged
<1>5. CASE CustodyTakesIn
    BY <1>1, <1>2, <1>3, <1>5 DEF CustodyTakesIn, Moved
<1>6. CASE CustodyLetsOut
    BY <1>1, <1>2, <1>3, <1>6 DEF CustodyLetsOut, Moved, PayOut, CanPayOut
<1>7. CASE Donated
    BY <1>1, <1>2, <1>3, <1>7 DEF Donated, Moved
<1> QED
    BY <1>4, <1>5, <1>6, <1>7 DEF VaultOutcome

\* What a call does to custody, a step of the custody ledger does.
LEMMA OutcomeCustody ==
    ASSUME VaultTypeOK, VaultTypeOK', VaultOutcome
    PROVE  [Custody!LedgerNext]_(Custody!ledger)
<1>1. PICK owed, owed2 : owed = [c \in Account |-> Owned(c)] /\ owed2 = [c \in Account |-> Owned(c)']
    OBVIOUS
<1>2. owed \in [Account -> Nat] /\ owed2 \in [Account -> Nat]
  <2>1. \A c \in Account : Owned(c) \in Nat
    BY OwnedType
  <2>2. (VaultTypeOK => \A c \in Account : Owned(c) \in Nat)'
    BY OwnedTypes, PTL
  <2> QED
    BY <1>1, <2>1, <2>2
<1>3. ASSUME NEW c \in Account, NEW n \in Int, Moved(c, n)
      PROVE  owed2 = [owed EXCEPT ![c] = @ + n] /\ owed[c] + n \in Nat
  <2>1. \A d \in Account : owed2[d] = owed[d] + IF d = c THEN n ELSE 0
    BY <1>1, <1>3 DEF Moved
  <2> QED
    BY <1>2, <2>1
<1>4. cva \in [Account -> Nat] /\ vaultAssets \in Nat
    BY DEF VaultTypeOK
<1>5. CASE CustodyKept
  <2>1. PICK c \in Account : Moved(c, 0) /\ tokensUnchanged
    BY <1>5 DEF CustodyKept
  <2>2. owed2 = [owed EXCEPT ![c] = @ + 0]
    BY <1>3, <2>1
  <2>3. owed2 = owed
    BY <1>2, <2>2
  <2> QED
    BY <1>1, <2>1, <2>3 DEF Custody!ledger, tokensUnchanged
<1>6. CASE CustodyTakesIn
  <2>1. PICK c \in Account : \E n \in 1..cva[c] :
          /\ Moved(c, n) /\ vaultAssets' = vaultAssets + n /\ cva' = [cva EXCEPT ![c] = @ - n]
    BY <1>6 DEF CustodyTakesIn
  <2>2. PICK n \in 1..cva[c] :
          /\ Moved(c, n) /\ vaultAssets' = vaultAssets + n /\ cva' = [cva EXCEPT ![c] = @ - n]
    BY <2>1
  <2>3. n \in Int
    BY <1>4
  <2>4. owed2 = [owed EXCEPT ![c] = @ + n]
    BY <1>3, <2>2, <2>3
  <2> QED
    BY <1>1, <2>2, <2>4 DEF Custody!LedgerNext, Custody!TakeIn
<1>7. CASE CustodyLetsOut
  <2>1. PICK c \in Account, b \in Account, n \in Nat \ {0} : Moved(c, -n) /\ PayOut(b, n)
    BY <1>7 DEF CustodyLetsOut
  <2>2. PICK m \in Int : m = -n
    OBVIOUS
  <2>a. Moved(c, m)
    BY <2>1, <2>2
  <2>3. owed2 = [owed EXCEPT ![c] = @ + m] /\ owed[c] + m \in Nat
    BY <1>3, <2>a
  <2>b. owed[c] \in Nat /\ owed[c] + m = owed[c] - n
    BY <1>2, <2>2
  <2>4. owed2 = [owed EXCEPT ![c] = @ - n]
    <3>1. \A d \in Account : owed2[d] = IF d = c THEN owed[c] - n ELSE owed[d]
      BY <1>2, <2>b, <2>3
    <3> QED
      BY <1>2, <3>1
  <2>c. n \in 1..owed[c]
    BY <2>b, <2>3
  <2>5. vaultAssets' = vaultAssets - n /\ cva' = [cva EXCEPT ![b] = @ + n]
    BY <2>1 DEF PayOut, CanPayOut
  <2> QED
    BY <1>1, <2>4, <2>5, <2>c DEF Custody!LedgerNext, Custody!LetOut
<1>8. CASE Donated
  <2>1. PICK c \in Account : \E n \in 1..cva[c] :
          /\ Moved(c, 0) /\ vaultAssets' = vaultAssets + n /\ cva' = [cva EXCEPT ![c] = @ - n]
    BY <1>8 DEF Donated
  <2>2. owed2 = [owed EXCEPT ![c] = @ + 0]
    BY <1>3, <2>1
  <2>3. owed2 = owed
    BY <1>2, <2>2
  <2> QED
    BY <1>1, <2>1, <2>3 DEF Custody!LedgerNext, Custody!Donate
<1> QED
    BY <1>5, <1>6, <1>7, <1>8 DEF VaultOutcome

-----------------------------------------------------------------------------
(* The auction house.                                                       *)

\* What holds of every auction ever created.
AuctionSound(auction) ==
    auction.status # "NONE" =>
        /\ auction.startedAt <= now /\ auction.startedAt < auction.endsAt
        /\ 0 < auction.floorPrice /\ auction.floorPrice <= auction.startPrice

AuctionsSound == \A x \in AuctionIds : AuctionSound(auctions[x])

\* A live auction's price stays between its floor and its start.
LEMMA PriceRange ==
    ASSUME NEW auction \in Auction, NEW t \in Nat, auction.startedAt <= t,
           auction.startedAt < auction.endsAt, auction.floorPrice <= auction.startPrice
    PROVE  /\ PriceAt(auction, t) \in Nat
           /\ auction.floorPrice <= PriceAt(auction, t)
           /\ PriceAt(auction, t) <= auction.startPrice
<1> DEFINE range == auction.startPrice - auction.floorPrice
           elapsed == t - auction.startedAt
           duration == auction.endsAt - auction.startedAt
<1>1. range \in Nat /\ elapsed \in Nat /\ duration \in Nat \ {0}
    BY DEF Auction
<1>2. auction.startPrice \in Nat /\ auction.floorPrice \in Nat
    BY DEF Auction
<1>3. CASE t >= auction.endsAt
    BY <1>2, <1>3 DEF PriceAt
<1>4. CASE ~(t >= auction.endsAt)
  <2>1. elapsed <= duration
    BY <1>4 DEF Auction
  <2>2. MulDiv(range, elapsed, duration) \in Nat /\ MulDiv(range, elapsed, duration) <= range
    BY <1>1, <2>1, MulDivType, MulDivPart
  <2>3. PriceAt(auction, t) = auction.startPrice - MulDiv(range, elapsed, duration)
    BY <1>4 DEF PriceAt
  <2> QED
    BY <1>2, <2>2, <2>3
<1> QED
    BY <1>3, <1>4

\* Starting an auction keeps the auction house's types.
LEMMA CreateType ==
    ASSUME AuctionTypeOK, AuctionsSound, now \in Nat,
           NEW ref \in References, NEW amount \in Nat, NEW startPrice \in Nat,
           NEW floorPrice \in Nat, NEW duration \in Nat, ref \in Nat, now' = now,
           Create(ref, amount, startPrice, floorPrice, duration)
    PROVE  AuctionTypeOK' /\ AuctionsSound'
<1> DEFINE new == [status |-> "LIVE", referenceId |-> ref,
                   startedAt |-> now, endsAt |-> now + duration,
                   assetAmount |-> amount, startPrice |-> startPrice,
                   floorPrice |-> floorPrice, salePrice |-> 0, buyer |-> NoAccount]
<1>1. new \in Auction /\ AuctionSound(new)
    BY DEF Auction, AuctionStatus, AuctionSound, Create, CanCreate
<1>2. /\ auctions' = [auctions EXCEPT ![nextAuctionId] = new]
      /\ auctionForReference' = [auctionForReference EXCEPT ![ref] = nextAuctionId]
      /\ nextAuctionId' = nextAuctionId + 1
      /\ nextAuctionId \in AuctionIds
    BY DEF Create, CanCreate
<1> HIDE DEF new
<1>3. AuctionTypeOK'
    BY <1>1, <1>2 DEF AuctionTypeOK
<1>4. ASSUME NEW x \in AuctionIds PROVE AuctionSound(auctions[x])'
    BY <1>1, <1>2 DEF AuctionTypeOK, AuctionsSound, AuctionSound
<1> QED
    BY <1>3, <1>4 DEF AuctionsSound

\* A sale keeps the auction house's types: the price of a live auction is a natural number.
LEMMA MarkSoldType ==
    ASSUME AuctionTypeOK, AuctionsSound, now \in Nat, now' = now,
           NEW x \in AuctionIds, NEW buyer \in Account, NEW maxPrice \in Nat,
           MarkSold(x, buyer, maxPrice)
    PROVE  AuctionTypeOK' /\ AuctionsSound'
<1> DEFINE price == PriceAt(auctions[x], now)
           sold == [auctions[x] EXCEPT !.status = "SOLD", !.buyer = buyer, !.salePrice = price]
<1>1. auctions[x] \in Auction /\ AuctionSound(auctions[x]) /\ auctions[x].status = "LIVE"
    BY DEF AuctionTypeOK, AuctionsSound, MarkSold
<1>2. price \in Nat
    BY <1>1, PriceRange DEF AuctionSound
<1> HIDE DEF price
<1>3. sold \in Auction /\ AuctionSound(sold)
    BY <1>1, <1>2 DEF Auction, AuctionStatus, AuctionSound
<1>4. auctions' = [auctions EXCEPT ![x] = sold]
    BY DEF MarkSold, price, AuctionTypeOK
<1> HIDE DEF sold
<1>5. AuctionTypeOK'
    BY <1>3, <1>4 DEF AuctionTypeOK, MarkSold
<1>6. ASSUME NEW y \in AuctionIds PROVE AuctionSound(auctions[y])'
    BY <1>3, <1>4 DEF AuctionTypeOK, AuctionsSound, AuctionSound
<1> QED
    BY <1>5, <1>6 DEF AuctionsSound

\* A failure keeps the auction house's types.
LEMMA MarkFailedType ==
    ASSUME AuctionTypeOK, AuctionsSound, now \in Nat, now' = now,
           NEW x \in AuctionIds, MarkFailed(x)
    PROVE  AuctionTypeOK' /\ AuctionsSound'
<1> DEFINE failed == [auctions[x] EXCEPT !.status = "FAILED"]
<1>1. auctions[x] \in Auction /\ AuctionSound(auctions[x]) /\ auctions[x].status = "LIVE"
    BY DEF AuctionTypeOK, AuctionsSound, MarkFailed
<1>2. failed \in Auction /\ AuctionSound(failed)
    BY <1>1 DEF Auction, AuctionStatus, AuctionSound
<1>3. auctions' = [auctions EXCEPT ![x] = failed]
    BY DEF MarkFailed, AuctionTypeOK
<1> HIDE DEF failed
<1>4. AuctionTypeOK'
    BY <1>2, <1>3 DEF AuctionTypeOK, MarkFailed
<1>5. ASSUME NEW y \in AuctionIds PROVE AuctionSound(auctions[y])'
    BY <1>2, <1>3 DEF AuctionTypeOK, AuctionsSound, AuctionSound
<1> QED
    BY <1>4, <1>5 DEF AuctionsSound

-----------------------------------------------------------------------------
(* Payments that may fall back on the escrow.                               *)

\* A payment that may fall back on the escrow keeps the book's types.
LEMMA PaidOrEscrowedType ==
    ASSUME NEW b \in Book, NEW payer \in Account, NEW beneficiary \in Account,
           NEW amount \in Nat, CanPayOrEscrow(b, payer, beneficiary, amount)
    PROVE  PaidOrEscrowed(b, payer, beneficiary, amount) \in Book
<1>1. CASE beneficiary \in compliant
    BY <1>1, PaidToType DEF CanPayOrEscrow, PaidOrEscrowed
<1>2. CASE beneficiary \notin compliant
  <2>1. PaidToEscrow(b, payer, amount) \in Book
    BY <1>2, PaidToEscrowType DEF CanPayOrEscrow
  <2> QED
    BY <1>2, <2>1, WithClaimType DEF PaidOrEscrowed
<1> QED
    BY <1>1, <1>2

\* Paying nothing changes nothing, whether or not the beneficiary is compliant.
LEMMA NothingPaid ==
    ASSUME NEW b \in Book, NEW payer \in Account, NEW beneficiary \in Account
    PROVE  PaidOrEscrowed(b, payer, beneficiary, 0) \in Book
<1>1. CanPay(b, payer, 0)
    BY DEF CanPay, Book
<1>2. PaidTo(b, payer, beneficiary, 0) \in Book
    BY <1>1, PaidToType
<1>3. PaidToEscrow(b, payer, 0) \in Book
    BY <1>1, PaidToEscrowType
<1> QED
    BY <1>2, <1>3, WithClaimType DEF PaidOrEscrowed

\* A payment that falls back on the escrow is covered by what it pays in.
LEMMA PaidOrEscrowedBacked ==
    ASSUME NEW b \in Book, NEW payer \in Account, NEW beneficiary \in Account, NEW amount \in Nat,
           BookBacked(b), amount = 0 \/ CanPayOrEscrow(b, payer, beneficiary, amount)
    PROVE  BookBacked(PaidOrEscrowed(b, payer, beneficiary, amount))
<1>1. CASE beneficiary \in compliant
    BY <1>1, PaidToBacked DEF PaidOrEscrowed
<1>2. CASE beneficiary \notin compliant
  <2>1. PICK d : d = PaidToEscrow(b, payer, amount)
    OBVIOUS
  <2>2. CanPay(b, payer, amount) /\ (amount = 0 \/ CanRecordClaims(d, amount))
    BY <1>2, <2>1 DEF CanPayOrEscrow, CanPay, Book
  <2>3. d \in Book /\ BookBacked(d)
    BY <2>1, <2>2, PaidToEscrowType, PaidToEscrowBacked
  <2>4. CanRecordClaims(d, amount)
    BY <2>2, <2>3 DEF CanRecordClaims, BookBacked, Book
  <2>5. BookBacked(WithClaim(d, beneficiary, amount))
    BY <2>3, <2>4, WithClaimBacked
  <2> QED
    BY <1>2, <2>1, <2>5 DEF PaidOrEscrowed
<1> QED
    BY <1>1, <1>2

-----------------------------------------------------------------------------
(* The vault's books, under any controller.                                 *)

VaultBooks == BucketsOwned /\ VaultSolvent

\* A call of the vault keeps its books balanced and is a step of custody.
LEMMA VaultBooksKept ==
    ASSUME VaultTypeOK, VaultTypeOK', VaultBooks, UNCHANGED vaultVars \/ VaultOutcome
    PROVE  VaultBooks' /\ [Custody!LedgerNext]_(Custody!ledger)
<1>1. CASE UNCHANGED vaultVars
  <2>1. UNCHANGED <<bucketVars, totalAccounted, vaultAssets, cva>>
    BY <1>1 DEF vaultVars
  <2>2. BucketsOwned' /\ VaultSolvent'
    BY <2>1 DEF VaultBooks, BucketsOwned, VaultSolvent, bucketVars
  <2>3. [a \in Account |-> Owned(a)]' = [a \in Account |-> Owned(a)]
    BY <2>1 DEF Owned, bucketVars
  <2> QED
    BY <2>1, <2>2, <2>3 DEF VaultBooks, Custody!ledger
<1>2. CASE VaultOutcome
    BY <1>2, OutcomeSolvent, OutcomeCustody DEF VaultBooks, VaultOutcome
<1> QED
    BY <1>1, <1>2

\* An empty vault owes nothing, to anybody.
LEMMA EmptyVault ==
    ASSUME VaultInit
    PROVE  VaultBooks /\ \A a \in Account : Owned(a) = 0
<1>1. ASSUME NEW D, IsFiniteSet(D)
      PROVE  /\ Total([i \in D |-> EmptyBucket]) = 0
             /\ \A a \in Account : HeldIn([i \in D |-> EmptyBucket], a) = 0
  <2>1. PICK f, buckets : buckets = [i \in D |-> EmptyBucket] /\ f = AmountsOf(buckets)
    OBVIOUS
  <2>2. DOMAIN f = D /\ \A i \in D : f[i] = 0
    BY <2>1 DEF AmountsOf, EmptyBucket
  <2>3. SumFunctionOnSet(f, D) = 0
    BY <1>1, <2>2, SumZeros
  <2>4. ASSUME NEW a \in Account PROVE HeldIn(buckets, a) = 0
    <3>1. PICK P : P = {i \in DOMAIN buckets : buckets[i].owner = a}
      OBVIOUS
    <3>2. P \subseteq D /\ IsFiniteSet(P)
      BY <1>1, <2>1, <3>1, FS_Subset
    <3>3. SumFunctionOnSet(f, P) = 0
      BY <2>2, <3>2, SumZeros
    <3> QED
      BY <2>1, <3>1, <3>3 DEF HeldIn
  <2> QED
    BY <2>1, <2>2, <2>3, <2>4 DEF Total, SumFunction
<1>2. SumFunction(availableBalance) = 0
  <2>1. PICK f : f = availableBalance
    OBVIOUS
  <2>2. DOMAIN f = Account /\ \A a \in Account : f[a] = 0
    BY <2>1 DEF VaultInit
  <2>3. SumFunctionOnSet(f, Account) = 0
    BY <2>2, AccountAssumption, SumZeros
  <2> QED
    BY <2>1, <2>2, <2>3 DEF SumFunction
<1>3. /\ Total(offerReserved) = 0 /\ Total(positionLocked) = 0
      /\ Total(auctionLocked) = 0 /\ Total(marginLocked) = 0
      /\ \A a \in Account :
            /\ HeldIn(offerReserved, a) = 0 /\ HeldIn(positionLocked, a) = 0
            /\ HeldIn(auctionLocked, a) = 0 /\ HeldIn(marginLocked, a) = 0
    BY <1>1, FiniteBuckets DEF VaultInit
<1>4. VaultSolvent
    BY <1>2, <1>3 DEF VaultSolvent, Total, VaultInit
<1>5. BucketsOwned
    BY DEF BucketsOwned, BucketOwned, VaultInit, EmptyBucket
<1>6. \A a \in Account : Owned(a) = 0
    BY <1>3 DEF Owned, VaultInit
<1> QED
    BY <1>4, <1>5, <1>6 DEF VaultBooks

-----------------------------------------------------------------------------
(* Steps that leave a module alone.                                         *)

\* The types of a module's variables survive a step that leaves them alone.
LEMMA Frames ==
    /\ VaultTypeOK /\ UNCHANGED vaultVars => VaultTypeOK'
    /\ AuctionTypeOK /\ UNCHANGED auctionVars => AuctionTypeOK'
    /\ EscrowTypeOK /\ UNCHANGED escrowVars => EscrowTypeOK'
    /\ RiskTypeOK /\ UNCHANGED riskVars => RiskTypeOK'
    /\ FeedTypeOK /\ UNCHANGED feedVars => FeedTypeOK'
<1>1. VaultTypeOK /\ UNCHANGED vaultVars => VaultTypeOK'
    BY DEF VaultTypeOK, vaultVars, bucketVars
<1>2. AuctionTypeOK /\ UNCHANGED auctionVars => AuctionTypeOK'
    BY DEF AuctionTypeOK, auctionVars
<1>3. EscrowTypeOK /\ UNCHANGED escrowVars => EscrowTypeOK'
    BY DEF EscrowTypeOK, escrowVars
<1>4. RiskTypeOK /\ UNCHANGED riskVars => RiskTypeOK'
    BY DEF RiskTypeOK, riskVars
<1>5. FeedTypeOK /\ UNCHANGED feedVars => FeedTypeOK'
    BY DEF FeedTypeOK, feedVars
<1> QED
    BY <1>1, <1>2, <1>3, <1>4, <1>5

-----------------------------------------------------------------------------
(* Whose transfers the API lets pass.                                       *)

\* Whom the pool admits passes on either end of a transfer, and as a caller.
LEMMA AdmittedPasses ==
    ASSUME NEW wallet \in compliant, NEW token
    PROVE  DecisionReasons(wallet, token) = {} /\ ParticipantReasons(wallet, token) = {}
<1>1. PICK result : result = ComplianceOf(wallet, token)
    OBVIOUS
<1>2. result.cviActive /\ result.poolEligible
    BY <1>1 DEF ComplianceOf
<1>3. \/ result.verificationCode = 4
      \/ result.verificationCode = 1 /\ result.eligibilitySource = "ONCHAIN_POLICY_POOL"
    BY <1>1 DEF ComplianceOf, EligibilitySource, VerificationCode
<1>4. HasEligibleCviProof(result, FALSE) /\ HasEligibleCviProof(result, RegisteredCustody(wallet))
    BY <1>2, <1>3 DEF HasEligibleCviProof
<1>5. MissingOrInactive(result) = {}
    BY <1>2 DEF MissingOrInactive
<1>6. Blocking([CVI_INELIGIBLE |-> FALSE]) = {}
    BY DEF Blocking
<1>7. DecisionReasons(wallet, token) = {}
  <2>1. PICK registered : registered = RegisteredCustody(wallet)
    OBVIOUS
  <2>2. (\/ ~HasEligibleCviProof(result, registered)
         \/ ~registered /\ ~result.poolEligible) = FALSE
    BY <1>2, <1>4, <2>1
  <2> QED
    BY <1>1, <1>5, <1>6, <2>1, <2>2 DEF DecisionReasons
<1>8. (~HasEligibleCviProof(result, FALSE) \/ ~result.poolEligible) = FALSE
    BY <1>2, <1>4
<1>9. ParticipantReasons(wallet, token) = {}
    BY <1>1, <1>5, <1>6, <1>8 DEF ParticipantReasons
<1> QED
    BY <1>7, <1>9

\* And only they pass as callers and recipients.
LEMMA PassesAdmitted ==
    ASSUME NEW wallet, NEW token, ParticipantReasons(wallet, token) = {}
    PROVE  wallet \in compliant
<1>1. PICK result : result = ComplianceOf(wallet, token)
    OBVIOUS
<1>2. ASSUME wallet \notin compliant PROVE FALSE
  <2>1. (~HasEligibleCviProof(result, FALSE) \/ ~result.poolEligible) = TRUE
    BY <1>1, <1>2 DEF ComplianceOf
  <2>2. "CVI_INELIGIBLE" \in Blocking([CVI_INELIGIBLE |-> TRUE])
    BY DEF Blocking
  <2> QED
    BY <1>1, <2>1, <2>2 DEF ParticipantReasons
<1> QED
    BY <1>2

\* A custody contract passes on the factory's record, whatever the pool says of it.
LEMMA CustodyPasses ==
    ASSUME CustodyRecorded, NEW wallet \in CustodyContracts, NEW token
    PROVE  DecisionReasons(wallet, token) = {}
<1>1. PICK result : result = ComplianceOf(wallet, token)
    OBVIOUS
<1>2. result.cviActive /\ (result.poolEligible \/ RegisteredCustody(wallet))
    BY <1>1 DEF ComplianceOf, RegisteredCustody
<1>3. \/ result.verificationCode = 4
      \/ result.verificationCode = 1 /\ result.eligibilitySource = "ONCHAIN_POLICY_POOL"
    BY <1>1 DEF ComplianceOf, EligibilitySource, VerificationCode
<1>4. HasEligibleCviProof(result, RegisteredCustody(wallet))
    BY <1>2, <1>3 DEF HasEligibleCviProof
<1>5. MissingOrInactive(result) = {}
    BY <1>2 DEF MissingOrInactive
<1> QED
    BY <1>1, <1>2, <1>4, <1>5 DEF DecisionReasons, Blocking

\* A wallet nobody can object to as the end of a transfer.
Passes(wallet) == wallet \in compliant \/ wallet \in CustodyContracts

LEMMA EdgesPass ==
    ASSUME CustodyRecorded, NEW edges,
           \A edge \in edges : Passes(edge.from) /\ Passes(edge.to)
    PROVE  EvaluateEdges(edges) = {}
<1>1. ASSUME NEW edge \in edges
      PROVE  DecisionReasons(edge.from, edge.token) \cup DecisionReasons(edge.to, edge.token) = {}
  <2>1. PICK from, to, token : from = edge.from /\ to = edge.to /\ token = edge.token
    OBVIOUS
  <2>2. Passes(from) /\ Passes(to)
    BY <2>1
  <2>3. DecisionReasons(from, token) = {} /\ DecisionReasons(to, token) = {}
    BY <2>2, AdmittedPasses, CustodyPasses DEF Passes
  <2> QED
    BY <2>1, <2>3
<1> QED
    BY <1>1 DEF EvaluateEdges

LEMMA EdgePasses ==
    ASSUME CustodyRecorded, NEW token, NEW from, NEW to, Passes(from), Passes(to)
    PROVE  EvaluateEdges({Edge(token, from, to)}) = {}
<1>1. \A edge \in {Edge(token, from, to)} : Passes(edge.from) /\ Passes(edge.to)
    BY DEF Edge
<1> QED
    BY <1>1, EdgesPass

LEMMA ParticipantsPass ==
    ASSUME NEW wallets \in SUBSET compliant, NEW token
    PROVE  EvaluateParticipants(wallets, token) = {}
BY AdmittedPasses DEF EvaluateParticipants

\* What is held and approved raises no objection.
LEMMA FundsSuffice ==
    ASSUME NEW balance \in Int, NEW allowance \in Int, NEW amount \in Int,
           amount <= balance, amount <= allowance
    PROVE  FundsReasons(balance, allowance, amount) = {}
<1>1. (balance < amount) = FALSE /\ (allowance < amount) = FALSE
    OBVIOUS
<1>2. Blocking([INSUFFICIENT_BALANCE |-> FALSE, INSUFFICIENT_ALLOWANCE |-> FALSE]) = {}
    BY DEF Blocking
<1> QED
    BY <1>1, <1>2 DEF FundsReasons
-----------------------------------------------------------------------------
(* What it means that the API objects to nothing.                           *)

LEMMA NothingBlocks ==
    ASSUME NEW checks, Blocking(checks) = {}
    PROVE  \A reason \in DOMAIN checks : ~checks[reason]
BY DEF Blocking

\* A wallet that passes is admitted by the pool or a custody contract.
LEMMA DecisionPasses ==
    ASSUME NEW wallet, NEW token, DecisionReasons(wallet, token) = {}
    PROVE  Passes(wallet)
<1>1. PICK result, registered :
         result = ComplianceOf(wallet, token) /\ registered = RegisteredCustody(wallet)
    OBVIOUS
<1>2. ASSUME wallet \notin compliant, wallet \notin CustodyContracts PROVE FALSE
  <2>1. (\/ ~HasEligibleCviProof(result, registered)
         \/ ~registered /\ ~result.poolEligible) = TRUE
    BY <1>1, <1>2 DEF ComplianceOf, RegisteredCustody
  <2>2. "CVI_INELIGIBLE" \in Blocking([CVI_INELIGIBLE |-> TRUE])
    BY DEF Blocking
  <2> QED
    BY <1>1, <2>1, <2>2 DEF DecisionReasons
<1> QED
    BY <1>2 DEF Passes

\* An account is never a custody contract: at the end of a transfer it is admitted itself.
LEMMA EdgeAdmits ==
    ASSUME NEW edges, EvaluateEdges(edges) = {}, NEW token, NEW from, NEW to,
           Edge(token, from, to) \in edges
    PROVE  /\ from \in Account => from \in compliant
           /\ to \in Account => to \in compliant
<1>1. PICK edge \in edges : edge = Edge(token, from, to)
    OBVIOUS
<1>2. DecisionReasons(edge.from, edge.token) \cup DecisionReasons(edge.to, edge.token) = {}
    BY DEF EvaluateEdges
<1>3. edge.from = from /\ edge.to = to /\ edge.token = token
    BY <1>1 DEF Edge
<1>4. DecisionReasons(from, token) = {} /\ DecisionReasons(to, token) = {}
    BY <1>2, <1>3
<1>5. Passes(from) /\ Passes(to)
    BY <1>4, DecisionPasses
<1> QED
    BY <1>5, EligibilityAssumption DEF Passes, CustodyContracts

LEMMA ParticipantsAdmitted ==
    ASSUME NEW wallets, NEW token, EvaluateParticipants(wallets, token) = {}
    PROVE  wallets \subseteq compliant
<1> SUFFICES ASSUME NEW wallet \in wallets PROVE wallet \in compliant
    OBVIOUS
<1>1. ParticipantReasons(wallet, token) = {}
    BY DEF EvaluateParticipants
<1> QED
    BY <1>1, PassesAdmitted

LEMMA FundsHeld ==
    ASSUME NEW balance \in Int, NEW allowance, NEW amount \in Int,
           FundsReasons(balance, allowance, amount) = {}
    PROVE  amount <= balance
<1>1. PICK short, unapproved :
         short = (balance < amount) /\ unapproved = (allowance < amount)
    OBVIOUS
<1>2. PICK checks : checks = [INSUFFICIENT_BALANCE |-> short,
                              INSUFFICIENT_ALLOWANCE |-> unapproved]
    OBVIOUS
<1>3. "INSUFFICIENT_BALANCE" \in DOMAIN checks /\ checks["INSUFFICIENT_BALANCE"] = short
    BY <1>2
<1>4. Blocking(checks) = {}
    BY <1>1, <1>2 DEF FundsReasons
<1>5. ~checks["INSUFFICIENT_BALANCE"]
    BY <1>3, <1>4, NothingBlocks
<1>6. ~(balance < amount)
    BY <1>1, <1>3, <1>5, Zenon
<1> QED
    BY <1>6

-----------------------------------------------------------------------------
(* What the API computes, and what the contracts compute.                   *)

\* ceilDiv and Math.mulDiv round the same quotient up.
LEMMA CeilDivRoundsUp ==
    ASSUME NEW n \in Nat, NEW c \in Nat \ {0}
    PROVE  CeilDiv(n, c) = (n + c - 1) \div c
<1>1. CASE n = 0
    BY <1>1 DEF CeilDiv
<1>2. CASE n # 0
  <2>1. PICK q : q = (n - 1) \div c
    OBVIOUS
  <2>2. q \in Nat /\ c * q <= n - 1 /\ n - 1 < c * q + c
    BY <1>2, <2>1, DivBounds
  <2>3. PICK r : r = (n + c - 1) \div c
    OBVIOUS
  <2>4. r \in Nat /\ c * r <= n + c - 1 /\ n + c - 1 < c * r + c
    BY <2>3, DivBounds
  <2>5. c * (q + 1) = c * q + c /\ c * (r + 1) = c * r + c
    BY <2>2, <2>4
  <2>6. c * r < c * (q + 2) /\ c * (q + 1) < c * (r + 1)
    <3>1. c * (q + 2) = c * q + c + c
      BY <2>2
    <3>2. c * q \in Nat /\ c * r \in Nat
      BY <2>2, <2>4
    <3> QED
      BY <2>2, <2>4, <2>5, <3>1, <3>2
  <2>7. r < q + 2 /\ q + 1 < r + 1
    <3>1. q + 1 \in Int /\ q + 2 \in Int /\ r + 1 \in Int /\ r \in Int
      BY <2>2, <2>4
    <3> QED
      BY <2>6, <3>1, FactorLess
  <2>8. r = q + 1
    BY <2>2, <2>4, <2>7
  <2> QED
    BY <1>2, <2>1, <2>3, <2>8 DEF CeilDiv
<1> QED
    BY <1>1, <1>2

LEMMA CeilDivIsMulDivCeil ==
    ASSUME NEW a \in Nat, NEW b \in Nat, NEW c \in Nat \ {0}
    PROVE  CeilDiv(a * b, c) = MulDivCeil(a, b, c)
<1>1. a * b \in Nat
    OBVIOUS
<1> QED
    BY <1>1, CeilDivRoundsUp DEF MulDivCeil

\* Interest is accrued the same way in both.
LEMMA AccruedIsInterest ==
    ASSUME NEW principal \in Nat, NEW rate \in Nat, NEW elapsed \in Nat
    PROVE  AccruedQuoted(principal, rate, elapsed) = Interest(principal, rate, elapsed)
<1>1. PICK year \in Nat \ {0} : year = BPS_DENOMINATOR * SECONDS_PER_YEAR
    BY ScalesAssumption
<1>2. rate * elapsed \in Nat /\ principal * rate * elapsed = principal * (rate * elapsed)
    OBVIOUS
<1>3. AccruedQuoted(principal, rate, elapsed) = CeilDiv(principal * (rate * elapsed), year)
    BY <1>1, <1>2 DEF AccruedQuoted
<1>4. CASE rate = 0 \/ elapsed = 0
  <2>1. principal * (rate * elapsed) = 0
    BY <1>4
  <2> QED
    BY <1>3, <1>4, <2>1 DEF CeilDiv, Interest
<1>5. CASE rate # 0 /\ elapsed # 0
  <2>1. PICK m \in Nat : m = rate * elapsed
    BY <1>2
  <2>2. CeilDiv(principal * m, year) = MulDivCeil(principal, m, year)
    BY CeilDivIsMulDivCeil
  <2> QED
    BY <1>1, <1>3, <1>5, <2>1, <2>2 DEF Interest
<1> QED
    BY <1>4, <1>5

\* A debt within the quoted limit is within the contracts'.
LEMMA QuotedWithinLtv ==
    ASSUME NEW debt \in Nat, NEW value \in Nat, NEW limit \in Nat,
           ~LtvExceeded(debt, value, limit)
    PROVE  WithinLtv(debt, value, limit)
<1>1. value # 0 /\ value \in Nat \ {0}
    BY DEF LtvExceeded
<1>2. PICK ltv : ltv = CeilDiv(debt * BPS_DENOMINATOR, value)
    OBVIOUS
<1>3. ltv = MulDivCeil(debt, BPS_DENOMINATOR, value)
    BY <1>1, <1>2, CeilDivIsMulDivCeil, ScalesAssumption
<1>4. ltv \in Nat
    BY <1>1, <1>3, MulDivType, ScalesAssumption
<1>5. ~(ltv > limit)
    BY <1>1, <1>2 DEF LtvExceeded
<1> QED
    BY <1>1, <1>3, <1>4, <1>5 DEF WithinLtv

\* No collateral is worth nothing, and so secures no debt.
LEMMA WorthlessIsZero ==
    ASSUME NEW price \in Nat
    PROVE  CollateralValue(0, price) = 0
<1>1. 0 * price = 0 /\ 0 \div AssetScale = 0
    BY ScalesAssumption
<1>2. 0 * SettlementScale = 0 /\ 0 \div PriceScale = 0
    BY ScalesAssumption
<1> QED
    BY <1>1, <1>2 DEF CollateralValue, MulDiv
=============================================================================
