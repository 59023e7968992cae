---------------------------- MODULE CommonProofs ----------------------------
(***************************************************************************)
(* The lemmas more than one component's proofs rest on: what the           *)
(* instructions of the platform keep, what fee_splits returns, and sums    *)
(* over finite sets.  Sums are recursive, so their lemmas need induction;  *)
(* it is stated here with the property as a set.                           *)
(***************************************************************************)
EXTENDS Platform, FeeSplits, FiniteSetTheorems, TLAPS

-----------------------------------------------------------------------------
(* The platform's instructions.                                            *)

\* PlatformTypeOK is kept by the instructions of the platform.
LEMMA PlatformStep ==
  ASSUME PlatformTypeOK, PlatformNext
  PROVE  PlatformTypeOK'
<1>1. ASSUME NEW w \in Deployer, initialize_config(w)
      PROVE  PlatformTypeOK'
  BY <1>1, PlatformAssumption DEF initialize_config, PlatformTypeOK
<1>2. ASSUME NEW w \in Wallet, NEW in \in DayInput,
             initialize_day(w, in[1], in[2], in[3])
      PROVE  PlatformTypeOK'
  <2>1. /\ in[1] \in DayIndex
        /\ in[2] \in Seed
        /\ in[3] \in DailySolutionHashes
    BY PlatformAssumption
  <2> QED
    BY <1>2, <2>1 DEF initialize_day, PlatformTypeOK
<1> QED
  BY <1>1, <1>2 DEF PlatformNext

LEMMA PlatformTypeOKInit == PlatformInit => PlatformTypeOK
BY DEF PlatformInit, PlatformTypeOK, ZeroDay

(***************************************************************************)
(* A day that is open is left alone by the platform's own instructions.    *)
(***************************************************************************)
LEMMA PlatformKeepsDays ==
  ASSUME PlatformTypeOK, PlatformNext, NEW d \in DayIndex
  PROVE  \/ daily'[d] = daily[d]
         \/ /\ ~DayOpen(d)
            /\ daily'[d].slot_hash_seed \in Seed
            /\ daily'[d].total_solvers = 0
<1>1. CASE \E w \in Deployer : initialize_config(w)
  BY <1>1 DEF initialize_config
<1>2. ASSUME NEW w \in Wallet, NEW in \in DayInput,
             initialize_day(w, in[1], in[2], in[3])
      PROVE  \/ daily'[d] = daily[d]
             \/ /\ ~DayOpen(d)
                /\ daily'[d].slot_hash_seed \in Seed
                /\ daily'[d].total_solvers = 0
  <2>1. in[1] \in DayIndex /\ in[2] \in Seed
    BY PlatformAssumption
  <2> QED
    BY <1>2, <2>1 DEF initialize_day, DayIsNew, PlatformTypeOK
<1> QED
  BY <1>1, <1>2 DEF PlatformNext

-----------------------------------------------------------------------------
(* The arithmetic of a payout.                                             *)

(***************************************************************************)
(* The fee of a pot is the exact share rounded down: a natural number, and *)
(* one unit more would exceed the rate.                                    *)
(***************************************************************************)
LEMMA FeeIsTheFloor ==
  ASSUME NEW pot \in Nat, NEW bps \in Nat
  PROVE  /\ Fee(pot, bps) \in Nat
         /\ Fee(pot, bps) * BPS_DENOMINATOR <= pot * bps
         /\ (Fee(pot, bps) + 1) * BPS_DENOMINATOR > pot * bps
<1> DEFINE n == pot * bps
<1>1. n \in Nat
  OBVIOUS
<1>2. Fee(pot, bps) = n \div 10000
  BY DEF Fee, BPS_DENOMINATOR
<1> HIDE DEF n
<1>3. /\ n \div 10000 \in Nat
      /\ (n \div 10000) * 10000 <= n
      /\ ((n \div 10000) + 1) * 10000 > n
  BY <1>1, SMT
<1> QED
  BY <1>2, <1>3 DEF n, BPS_DENOMINATOR

(***************************************************************************)
(* As long as the rate is at most 10000 basis points the fee is never more *)
(* than the pot: the checked_sub of settle_win succeeds.                   *)
(***************************************************************************)
LEMMA FeeWithinPot ==
  ASSUME NEW pot \in Nat, NEW bps \in 0..BPS_DENOMINATOR
  PROVE  /\ Fee(pot, bps) \in Nat
         /\ Fee(pot, bps) <= pot
<1> DEFINE n == pot * bps
<1>1. n \in Nat /\ n <= pot * 10000
  BY SMT DEF BPS_DENOMINATOR
<1> HIDE DEF n
<1>2. n \div 10000 \in Nat /\ n \div 10000 <= pot
  BY <1>1, SMT
<1>3. Fee(pot, bps) = n \div 10000
  BY DEF Fee, BPS_DENOMINATOR, n
<1> QED
  BY <1>2, <1>3

(***************************************************************************)
(* The keeper's tip and the platform's share are natural numbers and make  *)
(* up the fee exactly, whatever the rate and the tip are configured to be: *)
(* no token of the fee is created or left over.  The keeper is served      *)
(* first: the platform gets something only when the whole tip has been     *)
(* paid or no tip is due.                                                  *)
(***************************************************************************)
LEMMA SplitIsExact ==
  ASSUME NEW pot \in Nat, NEW bps \in Nat,
         NEW from_fee \in BOOLEAN, NEW tip \in Nat,
         NEW split, split = fee_splits(pot, bps, from_fee, tip)
  PROVE  /\ split.fee = Fee(pot, bps)
         /\ split.keeper_tip \in Nat
         /\ split.platform_fee \in Nat
         /\ split.keeper_tip + split.platform_fee = split.fee
         /\ split.keeper_tip <= tip
         /\ from_fee /\ split.platform_fee > 0 => split.keeper_tip = tip
         /\ ~from_fee => split.keeper_tip = 0
<1> DEFINE fee == Fee(pot, bps)
           kept == KeeperTip(fee, from_fee, tip)
<1>1. fee \in Nat
  BY FeeIsTheFloor
<1>2. /\ split.fee = fee
      /\ split.keeper_tip = kept
      /\ split.platform_fee = PlatformShare(fee, kept)
  BY DEF fee_splits
<1> HIDE DEF fee
<1>3. kept \in Nat /\ kept <= fee /\ kept <= tip /\ (~from_fee => kept = 0)
  BY <1>1, SMT DEF KeeperTip, Lesser
<1>4. /\ PlatformShare(fee, kept) \in Nat
      /\ kept + PlatformShare(fee, kept) = fee
  BY <1>1, <1>3, SMT DEF PlatformShare, SaturatingSub
<1>5. from_fee /\ PlatformShare(fee, kept) > 0 => kept = tip
  BY <1>1, SMT DEF KeeperTip, Lesser, PlatformShare, SaturatingSub
<1> QED
  BY <1>2, <1>3, <1>4, <1>5 DEF fee

(***************************************************************************)
(* The same for the rates initialize_config can store.                     *)
(***************************************************************************)
LEMMA FeeIsDividedExactly ==
  ASSUME NEW pot \in Nat, NEW bps \in 0..BPS_DENOMINATOR,
         NEW from_fee \in BOOLEAN, NEW tip \in Nat,
         NEW split, split = fee_splits(pot, bps, from_fee, tip)
  PROVE  /\ split.fee \in Nat
         /\ split.fee <= pot
         /\ split.keeper_tip \in Nat
         /\ split.platform_fee \in Nat
         /\ split.keeper_tip + split.platform_fee = split.fee
<1>1. bps \in Nat
  BY DEF BPS_DENOMINATOR
<1>2. /\ split.fee = Fee(pot, bps)
      /\ split.keeper_tip \in Nat
      /\ split.platform_fee \in Nat
      /\ split.keeper_tip + split.platform_fee = split.fee
  BY <1>1, SplitIsExact
<1> QED
  BY <1>2, FeeWithinPot

-----------------------------------------------------------------------------
(* Induction, and sums over finite sets.                                   *)

(***************************************************************************)
(* Every non-empty set of natural numbers has a least element.             *)
(***************************************************************************)
LEMMA LeastNatural == \A T \in SUBSET Nat : T # {} => \E x \in T : \A y \in T : x <= y
<1> SUFFICES ASSUME NEW T \in SUBSET Nat, T # {}
             PROVE  \E x \in T : \A y \in T : x <= y
  OBVIOUS
<1> DEFINE R == {ss \in Nat \X Nat : ss[1] < ss[2]}
<1>1. R = OpToRel(<, Nat)
  BY DEF OpToRel
<1>2. IsWellFoundedOn(R, Nat)
  BY <1>1, NatLessThanWellFounded
<1>3. \A x, y \in Nat : <<y, x>> \in R <=> y < x
  OBVIOUS
<1> HIDE DEF R
<1>4. PICK x \in T : \A y \in T : ~(<<y, x>> \in R)
  BY <1>2, WFMin
<1>5. \A y \in T : ~(y < x) /\ x \in Nat /\ y \in Nat
  BY <1>3, <1>4
<1>6. \A y \in T : x <= y
  BY <1>5
<1> QED
  BY <1>6

(***************************************************************************)
(* Induction on a natural number, with the property as a set.              *)
(***************************************************************************)
LEMMA NatInduction1 ==
  ASSUME NEW F, 0 \in F, \A n \in Nat : n \in F => n + 1 \in F
  PROVE  Nat \subseteq F
<1> SUFFICES ASSUME Nat \ F # {}
             PROVE  FALSE
  OBVIOUS
<1>1. PICK x \in Nat \ F : \A y \in Nat \ F : x <= y
  BY LeastNatural
<1>2. x # 0 /\ x - 1 \in Nat /\ x - 1 \in F
  BY <1>1
<1>3. (x - 1) + 1 = x
  OBVIOUS
<1> QED
  BY <1>1, <1>2, <1>3

(***************************************************************************)
(* Induction on a finite set, with the property as a set of sets.          *)
(***************************************************************************)
LEMMA FiniteSetGrows ==
  ASSUME NEW S, IsFiniteSet(S), NEW F, 
         \A T \in SUBSET S : (\A U \in SUBSET T : U # T => U \in F) => T \in F
  PROVE  S \in F
<1> DEFINE R == StrictSubsetOrdering(S)
           B == {T \in SUBSET S : T \notin F}
<1>1. IsWellFoundedOn(R, FiniteSubsetsOf(S)) /\ FiniteSubsetsOf(S) = SUBSET S
  BY FS_StrictSubsetOrderingWellFounded, FS_FiniteSubsetsOfFinite
<1> SUFFICES ASSUME B # {} PROVE FALSE
  OBVIOUS
<1>a. B \subseteq FiniteSubsetsOf(S)
  BY <1>1
<1>b. \A T \in B : T \in SUBSET S /\ T \notin F
  OBVIOUS
<1>c. \A T \in SUBSET S : T \notin F => T \in B
  OBVIOUS
<1> HIDE DEF R, B
<1>2. PICK T \in B : \A U \in B : ~(<<U, T>> \in R)
  BY <1>1, <1>a, WFMin
<1>3. ASSUME NEW U \in SUBSET T, U # T
      PROVE  U \in F
  <2>1. U \in SUBSET S /\ T \in SUBSET S
    BY <1>b
  <2>2. <<U, T>> \in R
    BY <1>3, <2>1, SMT DEF R, StrictSubsetOrdering
  <2> QED
    BY <1>2, <1>c, <2>1, <2>2
<1> QED
  BY <1>3, <1>b

\* One unfolding of the sum of f over s, given the sums over smaller sets.
Unfolded(f, g, s) ==
  IF s = {} THEN 0
  ELSE LET x == CHOOSE x \in s : TRUE IN f[x] + g[s \ {x}]

IsSumTable(f, g, S) == g = [s \in SUBSET S |-> Unfolded(f, g, s)]

SumTable(f, S) == CHOOSE g : g = [s \in SUBSET S |-> Unfolded(f, g, s)]

LEMMA SumIsTabled ==
  ASSUME NEW f, NEW S
  PROVE  SumFunctionOnSet(f, S) = SumTable(f, S)[S]
BY DEF SumFunctionOnSet, FoldFunctionOnSet, MapThenFoldSet, Unfolded, SumTable

LEMMA SumTableExists ==
  ASSUME NEW f, NEW S, IsFiniteSet(S)
  PROVE  IsSumTable(f, SumTable(f, S), S)
<1> DEFINE F == {n \in Nat : \E g : \A s \in SUBSET S :
                   Cardinality(s) <= n => g[s] = Unfolded(f, g, s)}
<1>0. \A s \in SUBSET S : IsFiniteSet(s) /\ Cardinality(s) \in Nat /\ (Cardinality(s) = 0 <=> s = {})
  BY FS_Subset, FS_CardinalityType, FS_EmptySet
<1>1. 0 \in F
  <2>1. \A s \in SUBSET S : Cardinality(s) <= 0 => s = {}
    BY <1>0
  <2> DEFINE g == [s \in SUBSET S |-> 0]
  <2>2. \A s \in SUBSET S : Cardinality(s) <= 0 => g[s] = Unfolded(f, g, s)
    BY <2>1 DEF Unfolded
  <2> HIDE DEF g
  <2> QED
    BY <2>2
<1>2. ASSUME NEW n \in Nat, n \in F
      PROVE  n + 1 \in F
  <2>1. PICK g : \A s \in SUBSET S : Cardinality(s) <= n => g[s] = Unfolded(f, g, s)
    BY <1>2
  <2> DEFINE h == [s \in SUBSET S |-> Unfolded(f, g, s)]
  <2>2. ASSUME NEW s \in SUBSET S, Cardinality(s) <= n + 1
        PROVE  h[s] = Unfolded(f, h, s)
    <3>1. CASE s = {}
      BY <3>1 DEF Unfolded
    <3>2. CASE s # {}
      <4> DEFINE x == CHOOSE x \in s : TRUE
      <4>1. x \in s
        BY <3>2
      <4> HIDE DEF x
      <4>2. s \ {x} \in SUBSET S
        OBVIOUS
      <4>3. Cardinality(s \ {x}) <= n
        BY <1>0, <2>2, <4>1, FS_RemoveElement
      <4>4. g[s \ {x}] = h[s \ {x}]
        BY <2>1, <4>2, <4>3
      <4> HIDE DEF h
      <4>5. Unfolded(f, g, s) = f[x] + g[s \ {x}] /\ Unfolded(f, h, s) = f[x] + h[s \ {x}]
        BY <3>2 DEF Unfolded, x
      <4> QED
        BY <4>4, <4>5 DEF h
    <3> QED
      BY <3>1, <3>2
  <2> HIDE DEF h
  <2> QED
    BY <2>2
<1> HIDE DEF F
<1>3. Nat \subseteq F
  BY <1>1, <1>2, NatInduction1
<1>4. Cardinality(S) \in F
  BY <1>0, <1>3
<1>5. PICK g : \A s \in SUBSET S : Cardinality(s) <= Cardinality(S) => g[s] = Unfolded(f, g, s)
  BY <1>4 DEF F
<1> DEFINE h == [s \in SUBSET S |-> g[s]]
<1>6. ASSUME NEW s \in SUBSET S
      PROVE  h[s] = Unfolded(f, h, s)
  <2>1. h[s] = Unfolded(f, g, s)
    BY <1>0, <1>5, FS_Subset
  <2>2. s # {} => h[s \ {CHOOSE x \in s : TRUE}] = g[s \ {CHOOSE x \in s : TRUE}]
    <3>1. s \ {CHOOSE x \in s : TRUE} \in SUBSET S
      OBVIOUS
    <3> QED
      BY <3>1
  <2> QED
    BY <2>1, <2>2 DEF Unfolded
<1>7. h = [s \in SUBSET S |-> Unfolded(f, h, s)]
  <2>1. h = [s \in SUBSET S |-> h[s]]
    OBVIOUS
  <2> HIDE DEF h
  <2> QED
    BY <1>6, <2>1
<1> HIDE DEF h
<1> QED
  BY <1>7 DEF SumTable, IsSumTable

LEMMA SumTableStep ==
  ASSUME NEW f, NEW S, IsFiniteSet(S), NEW s \in SUBSET S
  PROVE  SumTable(f, S)[s] = Unfolded(f, SumTable(f, S), s)
<1> DEFINE g == SumTable(f, S)
<1>0. IsSumTable(f, g, S)
  BY SumTableExists
<1> HIDE DEF g
<1>1. g = [t \in SUBSET S |-> Unfolded(f, g, t)]
  BY <1>0 DEF IsSumTable
<1>2. [t \in SUBSET S |-> Unfolded(f, g, t)][s] = Unfolded(f, g, s)
  OBVIOUS
<1>3. g[s] = Unfolded(f, g, s)
  BY <1>1, <1>2
<1> QED
  BY <1>3 DEF g

\* A table of sums says the same of a set whatever it is a table over.
LEMMA SumTablesAgree ==
  ASSUME NEW f, NEW S, IsFiniteSet(S), NEW T \in SUBSET S
  PROVE  SumTable(f, S)[T] = SumTable(f, T)[T]
<1> DEFINE g == SumTable(f, S)
           h == SumTable(f, T)
           F == {s \in SUBSET T : g[s] = h[s]}
<1>0. IsFiniteSet(T)
  BY FS_Subset
<1>1. \A s \in SUBSET T : /\ g[s] = Unfolded(f, g, s)
                          /\ h[s] = Unfolded(f, h, s)
  <2> SUFFICES ASSUME NEW s \in SUBSET T
               PROVE  g[s] = Unfolded(f, g, s) /\ h[s] = Unfolded(f, h, s)
    OBVIOUS
  <2>1. s \in SUBSET S
    OBVIOUS
  <2> HIDE DEF g, h
  <2> QED
    BY <1>0, <2>1, SumTableStep DEF g, h
<1> HIDE DEF g, h
<1>2. ASSUME NEW U \in SUBSET T, \A V \in SUBSET U : V # U => V \in F
      PROVE  U \in F
  <2>1. CASE U = {}
    BY <1>1, <2>1 DEF Unfolded
  <2>2. CASE U # {}
    <3> DEFINE x == CHOOSE x \in U : TRUE
    <3>1. x \in U
      BY <2>2
    <3>2. /\ g[U] = f[x] + g[U \ {x}]
          /\ h[U] = f[x] + h[U \ {x}]
      BY <1>1, <2>2 DEF Unfolded
    <3> HIDE DEF x
    <3>3. U \ {x} \in SUBSET U /\ U \ {x} # U
      BY <3>1
    <3>4. g[U \ {x}] = h[U \ {x}]
      BY <1>2, <3>3
    <3> QED
      BY <3>2, <3>4
  <2> QED
    BY <2>1, <2>2
<1> HIDE DEF F
<1>3. T \in F
  BY <1>0, <1>2, FiniteSetGrows
<1> QED
  BY <1>3 DEF F, g, h

(***************************************************************************)
(* The recursive equation of SumFunctionOnSet.                             *)
(***************************************************************************)
LEMMA SumUnfolds ==
  ASSUME NEW f, NEW S, IsFiniteSet(S), S # {}
  PROVE  \E x \in S : SumFunctionOnSet(f, S) = f[x] + SumFunctionOnSet(f, S \ {x})
<1> DEFINE x == CHOOSE x \in S : TRUE
<1>1. x \in S
  OBVIOUS
<1>2. SumTable(f, S)[S] = f[x] + SumTable(f, S)[S \ {x}]
  <2>1. S \in SUBSET S
    OBVIOUS
  <2>2. SumTable(f, S)[S] = Unfolded(f, SumTable(f, S), S)
    BY <2>1, SumTableStep
  <2> QED
    BY <2>2 DEF Unfolded
<1> HIDE DEF x
<1>3. S \ {x} \in SUBSET S
  OBVIOUS
<1>4. SumTable(f, S)[S \ {x}] = SumTable(f, S \ {x})[S \ {x}]
  BY <1>3, SumTablesAgree
<1> QED
  BY <1>1, <1>2, <1>4, SumIsTabled

LEMMA SumOfNothing == \A f : SumFunctionOnSet(f, {}) = 0
<1> TAKE f
<1>1. IsFiniteSet({}) /\ {} \in SUBSET {}
  BY FS_EmptySet
<1>2. SumTable(f, {})[{}] = Unfolded(f, SumTable(f, {}), {})
  BY <1>1, SumTableStep
<1> QED
  BY <1>2, SumIsTabled DEF Unfolded

(***************************************************************************)
(* The sum of integers is an integer.                                      *)
(***************************************************************************)
LEMMA SumIsInt ==
  ASSUME NEW S, IsFiniteSet(S), NEW f, \A x \in S : f[x] \in Int
  PROVE  SumFunctionOnSet(f, S) \in Int
<1> DEFINE F == {T \in SUBSET S : SumFunctionOnSet(f, T) \in Int}
<1>1. ASSUME NEW T \in SUBSET S, \A U \in SUBSET T : U # T => U \in F
      PROVE  T \in F
  <2>1. CASE T = {}
    BY <2>1, SumOfNothing
  <2>2. CASE T # {}
    <3>1. IsFiniteSet(T)
      BY FS_Subset
    <3>2. PICK x \in T : SumFunctionOnSet(f, T) = f[x] + SumFunctionOnSet(f, T \ {x})
      BY <2>2, <3>1, SumUnfolds
    <3>3. T \ {x} \in F
      BY <1>1
    <3> QED
      BY <3>2, <3>3
  <2> QED
    BY <2>1, <2>2
<1> HIDE DEF F
<1>2. S \in F
  BY <1>1, FiniteSetGrows
<1> QED
  BY <1>2 DEF F

(***************************************************************************)
(* Any element can be taken out of the sum first.                          *)
(***************************************************************************)
LEMMA SumSplitsOff ==
  ASSUME NEW S, IsFiniteSet(S), NEW f, \A x \in S : f[x] \in Int, NEW y \in S
  PROVE  SumFunctionOnSet(f, S) = f[y] + SumFunctionOnSet(f, S \ {y})
<1> DEFINE Splits(T) == \A z \in T :
             SumFunctionOnSet(f, T) = f[z] + SumFunctionOnSet(f, T \ {z})
           F == {T \in SUBSET S : Splits(T)}
<1>0. \A T \in SUBSET S : IsFiniteSet(T) /\ SumFunctionOnSet(f, T) \in Int
  BY FS_Subset, SumIsInt
<1>1. ASSUME NEW T \in SUBSET S, \A U \in SUBSET T : U # T => U \in F
      PROVE  T \in F
  <2> SUFFICES ASSUME NEW z \in T
               PROVE  SumFunctionOnSet(f, T) = f[z] + SumFunctionOnSet(f, T \ {z})
    OBVIOUS
  <2>1. PICK x \in T : SumFunctionOnSet(f, T) = f[x] + SumFunctionOnSet(f, T \ {x})
    BY <1>0, SumUnfolds
  <2>2. CASE x = z
    BY <2>1, <2>2
  <2>3. CASE x # z
    <3>1. Splits(T \ {x}) /\ Splits(T \ {z})
      BY <1>1
    <3>2. (T \ {x}) \ {z} = (T \ {z}) \ {x}
      OBVIOUS
    <3>3. z \in T \ {x} /\ x \in T \ {z}
      BY <2>3
    <3> DEFINE rest == SumFunctionOnSet(f, (T \ {x}) \ {z})
    <3>4. /\ SumFunctionOnSet(f, T \ {x}) = f[z] + rest
          /\ SumFunctionOnSet(f, T \ {z}) = f[x] + rest
      BY <3>1, <3>2, <3>3
    <3>5. rest \in Int /\ f[x] \in Int /\ f[z] \in Int
      BY <1>0
    <3> HIDE DEF rest
    <3> QED
      BY <2>1, <3>4, <3>5
  <2> QED
    BY <2>2, <2>3
<1> HIDE DEF F
<1>2. S \in F
  BY <1>1, FiniteSetGrows
<1> QED
  BY <1>2 DEF F

(***************************************************************************)
(* Two functions that are ordered on S have ordered sums.                  *)
(***************************************************************************)
LEMMA SumIsMonotone ==
  ASSUME NEW S, IsFiniteSet(S), NEW f, NEW g,
         \A x \in S : f[x] \in Int /\ g[x] \in Int /\ f[x] <= g[x]
  PROVE  SumFunctionOnSet(f, S) <= SumFunctionOnSet(g, S)
<1> DEFINE F == {T \in SUBSET S : SumFunctionOnSet(f, T) <= SumFunctionOnSet(g, T)}
<1>0. \A T \in SUBSET S : /\ IsFiniteSet(T)
                          /\ SumFunctionOnSet(f, T) \in Int
                          /\ SumFunctionOnSet(g, T) \in Int
  BY FS_Subset, SumIsInt
<1>1. ASSUME NEW T \in SUBSET S, \A U \in SUBSET T : U # T => U \in F
      PROVE  T \in F
  <2>1. CASE T = {}
    BY <2>1, SumOfNothing
  <2>2. CASE T # {}
    <3>1. PICK x \in T : TRUE
      BY <2>2
    <3>2. /\ SumFunctionOnSet(f, T) = f[x] + SumFunctionOnSet(f, T \ {x})
          /\ SumFunctionOnSet(g, T) = g[x] + SumFunctionOnSet(g, T \ {x})
      BY <1>0, SumSplitsOff
    <3>3. T \ {x} \in F
      BY <1>1
    <3>4. SumFunctionOnSet(f, T \ {x}) \in Int /\ SumFunctionOnSet(g, T \ {x}) \in Int
      BY <1>0
    <3> QED
      BY <3>2, <3>3, <3>4
  <2> QED
    BY <2>1, <2>2
<1> HIDE DEF F
<1>2. S \in F
  BY <1>1, FiniteSetGrows
<1> QED
  BY <1>2 DEF F

(***************************************************************************)
(* Equal functions have equal sums.                                        *)
(***************************************************************************)
LEMMA SumsAgree ==
  ASSUME NEW S, IsFiniteSet(S), NEW f, NEW g,
         \A x \in S : f[x] \in Int /\ f[x] = g[x]
  PROVE  SumFunctionOnSet(f, S) = SumFunctionOnSet(g, S)
<1>1. /\ SumFunctionOnSet(f, S) <= SumFunctionOnSet(g, S)
      /\ SumFunctionOnSet(g, S) <= SumFunctionOnSet(f, S)
  BY SumIsMonotone
<1>2. SumFunctionOnSet(f, S) \in Int /\ SumFunctionOnSet(g, S) \in Int
  BY SumIsInt
<1> QED
  BY <1>1, <1>2

LEMMA SumOfZeros ==
  ASSUME NEW S, IsFiniteSet(S), NEW f, \A x \in S : f[x] = 0
  PROVE  SumFunctionOnSet(f, S) = 0
<1> DEFINE F == {T \in SUBSET S : SumFunctionOnSet(f, T) = 0}
<1>1. ASSUME NEW T \in SUBSET S, \A U \in SUBSET T : U # T => U \in F
      PROVE  T \in F
  <2>1. CASE T = {}
    BY <2>1, SumOfNothing
  <2>2. CASE T # {}
    <3>1. IsFiniteSet(T)
      BY FS_Subset
    <3>2. PICK x \in T : SumFunctionOnSet(f, T) = f[x] + SumFunctionOnSet(f, T \ {x})
      BY <2>2, <3>1, SumUnfolds
    <3>3. T \ {x} \in F
      BY <1>1
    <3> QED
      BY <3>2, <3>3
  <2> QED
    BY <2>1, <2>2
<1> HIDE DEF F
<1>2. S \in F
  BY <1>1, FiniteSetGrows
<1> QED
  BY <1>2 DEF F

(***************************************************************************)
(* The same of an element that may not be in the set.                      *)
(***************************************************************************)
LEMMA SumWithout ==
  ASSUME NEW S, IsFiniteSet(S), NEW f, \A x \in S : f[x] \in Int, NEW y
  PROVE  /\ SumFunctionOnSet(f, S \ {y}) \in Int
         /\ SumFunctionOnSet(f, S)
              = (IF y \in S THEN f[y] ELSE 0) + SumFunctionOnSet(f, S \ {y})
<1>1. SumFunctionOnSet(f, S \ {y}) \in Int
  <2>1. IsFiniteSet(S \ {y})
    BY FS_RemoveElement
  <2> QED
    BY <2>1, SumIsInt
<1>2. CASE y \in S
  BY <1>1, <1>2, SumSplitsOff
<1>3. CASE y \notin S
  <2>1. SumFunctionOnSet(f, S \ {y}) = SumFunctionOnSet(f, S)
    <3>1. S \ {y} = S
      BY <1>3
    <3> QED
      BY <3>1
  <2>2. SumFunctionOnSet(f, S) = 0 + SumFunctionOnSet(f, S \ {y})
    BY <1>1, <2>1
  <2> QED
    BY <1>1, <1>3, <2>2
<1> QED
  BY <1>2, <1>3

(***************************************************************************)
(* The sum of what is zero except at four different points.                *)
(***************************************************************************)
LEMMA SumOfFour ==
  ASSUME NEW S, IsFiniteSet(S), NEW d, \A x \in S : d[x] \in Int,
         NEW c, NEW o, NEW k, NEW p, c \notin {o, k, p}, o \notin {k, p}, k # p,
         \A x \in S \ {c, o, k, p} : d[x] = 0
  PROVE  SumFunctionOnSet(d, S)
           = (IF c \in S THEN d[c] ELSE 0) + (IF o \in S THEN d[o] ELSE 0)
               + (IF k \in S THEN d[k] ELSE 0) + (IF p \in S THEN d[p] ELSE 0)
<1> DEFINE S1 == S \ {c}
           S2 == S1 \ {o}
           S3 == S2 \ {k}
           S4 == S3 \ {p}
           At(x, T) == IF x \in T THEN d[x] ELSE 0
<1>0. IsFiniteSet(S1) /\ IsFiniteSet(S2) /\ IsFiniteSet(S3) /\ IsFiniteSet(S4)
  BY FS_RemoveElement
<1>a. ASSUME NEW T \in SUBSET S, NEW y
      PROVE  SumFunctionOnSet(d, T) = At(y, T) + SumFunctionOnSet(d, T \ {y})
  <2>1. IsFiniteSet(T) /\ \A x \in T : d[x] \in Int
    BY FS_Subset
  <2> QED
    BY <2>1, SumWithout
<1>b. S \in SUBSET S /\ S1 \in SUBSET S /\ S2 \in SUBSET S /\ S3 \in SUBSET S
  OBVIOUS
<1>c. /\ SumFunctionOnSet(d, S) = At(c, S) + SumFunctionOnSet(d, S1)
      /\ SumFunctionOnSet(d, S1) = At(o, S1) + SumFunctionOnSet(d, S2)
      /\ SumFunctionOnSet(d, S2) = At(k, S2) + SumFunctionOnSet(d, S3)
      /\ SumFunctionOnSet(d, S3) = At(p, S3) + SumFunctionOnSet(d, S4)
  <2> HIDE DEF At
  <2> QED
    BY <1>a, <1>b
<1>5. SumFunctionOnSet(d, S4) = 0
  BY <1>0, SumOfZeros
<1>6. At(o, S1) = At(o, S) /\ At(k, S2) = At(k, S) /\ At(p, S3) = At(p, S)
  OBVIOUS
<1>7. \A x : At(x, S) \in Int
  OBVIOUS
<1> HIDE DEF At, S1, S2, S3, S4
<1>8. SumFunctionOnSet(d, S) = At(c, S) + (At(o, S) + (At(k, S) + (At(p, S) + 0)))
  BY <1>c, <1>5, <1>6
<1>9. SumFunctionOnSet(d, S) = At(c, S) + At(o, S) + At(k, S) + At(p, S)
  BY <1>7, <1>8
<1> QED
  BY <1>9 DEF At

(***************************************************************************)
(* A sum changes by what changed at the one point where its function did.  *)
(***************************************************************************)
LEMMA SumChangesAtOne ==
  ASSUME NEW S, IsFiniteSet(S), NEW f, NEW g, NEW y \in S,
         \A x \in S : f[x] \in Int /\ g[x] \in Int,
         \A x \in S \ {y} : g[x] = f[x]
  PROVE  SumFunctionOnSet(g, S) = SumFunctionOnSet(f, S) + (g[y] - f[y])
<1>1. /\ SumFunctionOnSet(f, S) = f[y] + SumFunctionOnSet(f, S \ {y})
      /\ SumFunctionOnSet(g, S) = g[y] + SumFunctionOnSet(g, S \ {y})
  BY SumSplitsOff
<1>2. IsFiniteSet(S \ {y})
  BY FS_RemoveElement
<1>3. SumFunctionOnSet(f, S \ {y}) = SumFunctionOnSet(g, S \ {y})
  BY <1>2, SumsAgree
<1>4. SumFunctionOnSet(f, S \ {y}) \in Int
  BY <1>2, SumIsInt
<1> QED
  BY <1>1, <1>3, <1>4

(***************************************************************************)
(* The sum of the differences is the difference of the sums.               *)
(***************************************************************************)
LEMMA SumOfDifferences ==
  ASSUME NEW S, IsFiniteSet(S), NEW f, NEW g, NEW d,
         \A x \in S : f[x] \in Int /\ g[x] \in Int /\ d[x] = g[x] - f[x]
  PROVE  SumFunctionOnSet(d, S) = SumFunctionOnSet(g, S) - SumFunctionOnSet(f, S)
<1> DEFINE Differs(T) == SumFunctionOnSet(d, T)
                           = SumFunctionOnSet(g, T) - SumFunctionOnSet(f, T)
           F == {T \in SUBSET S : Differs(T)}
<1>d. \A x \in S : d[x] \in Int
  OBVIOUS
<1>0. \A T \in SUBSET S : /\ IsFiniteSet(T)
                          /\ SumFunctionOnSet(f, T) \in Int
                          /\ SumFunctionOnSet(g, T) \in Int
                          /\ SumFunctionOnSet(d, T) \in Int
  BY <1>d, FS_Subset, SumIsInt
<1>1. ASSUME NEW T \in SUBSET S, \A U \in SUBSET T : U # T => U \in F
      PROVE  T \in F
  <2>1. CASE T = {}
    BY <2>1, SumOfNothing
  <2>2. CASE T # {}
    <3>1. PICK x \in T : TRUE
      BY <2>2
    <3>2. /\ SumFunctionOnSet(f, T) = f[x] + SumFunctionOnSet(f, T \ {x})
          /\ SumFunctionOnSet(g, T) = g[x] + SumFunctionOnSet(g, T \ {x})
          /\ SumFunctionOnSet(d, T) = d[x] + SumFunctionOnSet(d, T \ {x})
      BY <1>0, <1>d, SumSplitsOff
    <3>3. Differs(T \ {x})
      BY <1>1
    <3>4. /\ SumFunctionOnSet(f, T \ {x}) \in Int
          /\ SumFunctionOnSet(g, T \ {x}) \in Int
          /\ SumFunctionOnSet(d, T \ {x}) \in Int
          /\ f[x] \in Int /\ g[x] \in Int /\ d[x] = g[x] - f[x]
      BY <1>0
    <3>5. Differs(T)
      BY <3>2, <3>3, <3>4
    <3> QED
      BY <3>5
  <2> QED
    BY <2>1, <2>2
<1> HIDE DEF F
<1>2. S \in F
  BY <1>1, FiniteSetGrows
<1> QED
  BY <1>2 DEF F
=============================================================================
