---------------------------- MODULE DailyProofs -----------------------------
(***************************************************************************)
(* Theorems about Daily for any wallets, days, words and inputs, and any   *)
(* width of the counters.                                                  *)
(***************************************************************************)
EXTENDS Daily, CommonProofs

-----------------------------------------------------------------------------
(* The counters.                                                           *)

LEMMA SaturatingAddTyped ==
  \A n \in 0..U32_MAX : SaturatingAdd(n) \in 0..U32_MAX /\ SaturatingAdd(n) >= n
BY DailyAssumption DEF SaturatingAdd

LEMMA SaturatingAddGrows ==
  \A m, n \in 0..U32_MAX : m <= n => SaturatingAdd(m) <= SaturatingAdd(n)
BY DailyAssumption DEF SaturatingAdd

\* Adding to a full counter and filling it late are the same.
LEMMA SaturatingAddCounts ==
  \A n \in Nat : SaturatingAdd(AtMostU32(n)) = AtMostU32(n + 1)
BY DailyAssumption DEF SaturatingAdd, AtMostU32

LEMMA SolvedProfileTyped ==
  ASSUME NEW p \in Solver, profile[p] \in ProfileRecord
  PROVE  /\ SolvedProfile(p) \in ProfileRecord
         /\ SolvedProfile(p).total_solves = SaturatingAdd(profile[p].total_solves)
         /\ SolvedProfile(p).current_streak = SaturatingAdd(profile[p].current_streak)
         /\ SolvedProfile(p).best_streak \in
              {profile[p].best_streak, SolvedProfile(p).current_streak}
         /\ SolvedProfile(p).best_streak >= profile[p].best_streak
         /\ SolvedProfile(p).best_streak >= SolvedProfile(p).current_streak
<1> DEFINE streak == SaturatingAdd(profile[p].current_streak)
           best == IF streak > profile[p].best_streak
                   THEN streak ELSE profile[p].best_streak
<1>1. /\ profile[p].total_solves \in 0..U32_MAX
      /\ profile[p].current_streak \in 0..U32_MAX
      /\ profile[p].best_streak \in 0..U32_MAX
  BY DEF ProfileRecord
<1>2. streak \in 0..U32_MAX /\ SaturatingAdd(profile[p].total_solves) \in 0..U32_MAX
  BY <1>1, SaturatingAddTyped
<1>3. SolvedProfile(p) =
        [player         |-> p,
         total_solves   |-> SaturatingAdd(profile[p].total_solves),
         current_streak |-> streak,
         best_streak    |-> best]
  BY DEF SolvedProfile
<1> HIDE DEF streak
<1>4. /\ best \in 0..U32_MAX
      /\ best \in {profile[p].best_streak, streak}
      /\ best >= profile[p].best_streak
      /\ best >= streak
  BY <1>1, <1>2, DailyAssumption
<1> HIDE DEF best
<1> QED
  BY <1>2, <1>3, <1>4 DEF ProfileRecord, streak

-----------------------------------------------------------------------------
(* Type correctness.                                                       *)

LEMMA TypeOKInit == Init => TypeOK
<1> SUFFICES ASSUME Init PROVE TypeOK
  OBVIOUS
<1>1. PlatformTypeOK
  BY PlatformTypeOKInit DEF Init
<1>2. \A d \in DayIndex : daily[d].total_solvers <= U32_MAX
  BY DailyAssumption DEF Init, PlatformInit, ZeroDay
<1>3. profile \in [Solver -> ProfileRecord]
  BY DailyAssumption DEF Init, ZeroProfile, ProfileRecord
<1> QED
  BY <1>1, <1>2, <1>3 DEF Init, TypeOK

\* What submit_solution does to the days.
LEMMA SubmitDays ==
  ASSUME TypeOK, NEW d \in DayIndex, NEW word \in Word, NEW p \in Solver,
         submit_solution(d, word, p)
  PROVE  /\ daily' \in [DayIndex -> [slot_hash_seed : Seed \cup {ZERO},
                                     solution_hash : DailySolutionHashes \cup {ZERO},
                                     total_solvers : Nat]]
         /\ daily[d].total_solvers \in 0..U32_MAX
         /\ daily'[d].total_solvers = SaturatingAdd(daily[d].total_solvers)
         /\ \A e \in DayIndex \ {d} : daily'[e] = daily[e]
         /\ \A e \in DayIndex :
              /\ daily'[e].slot_hash_seed = daily[e].slot_hash_seed
              /\ daily'[e].solution_hash = daily[e].solution_hash
<1>1. daily[d].total_solvers \in 0..U32_MAX
  BY DailyAssumption DEF TypeOK, PlatformTypeOK
<1>2. SaturatingAdd(daily[d].total_solvers) \in Nat
  BY <1>1, SaturatingAddTyped
<1> QED
  BY <1>1, <1>2 DEF submit_solution, TypeOK, PlatformTypeOK

LEMMA TypeOKStep == TypeOK /\ [Next]_vars => TypeOK'
<1> SUFFICES ASSUME TypeOK, [Next]_vars PROVE TypeOK'
  OBVIOUS
<1>1. CASE PlatformNext /\ UNCHANGED <<solved, profile>>
  <2>1. PlatformTypeOK'
    BY <1>1, PlatformStep DEF TypeOK
  <2>2. \A d \in DayIndex : daily'[d].total_solvers <= U32_MAX
    BY <1>1, PlatformKeepsDays, DailyAssumption DEF TypeOK
  <2> QED
    BY <1>1, <2>1, <2>2 DEF TypeOK
<1>2. ASSUME NEW d \in DayIndex, NEW word \in Word, NEW p \in Solver,
             submit_solution(d, word, p)
      PROVE  TypeOK'
  <2>1. PlatformTypeOK'
    BY <1>2, SubmitDays DEF TypeOK, PlatformTypeOK, submit_solution
  <2>2. \A e \in DayIndex : daily'[e].total_solvers <= U32_MAX
    BY <1>2, SubmitDays, SaturatingAddTyped DEF TypeOK
  <2>3. solved' \subseteq DayIndex \X Solver
    BY <1>2 DEF TypeOK, submit_solution
  <2>4. profile' \in [Solver -> ProfileRecord]
    BY <1>2, SolvedProfileTyped DEF TypeOK, submit_solution
  <2> QED
    BY <2>1, <2>2, <2>3, <2>4 DEF TypeOK
<1>3. CASE UNCHANGED vars
  BY <1>3 DEF vars, TypeOK, PlatformTypeOK
<1> QED
  BY <1>1, <1>2, <1>3 DEF Next

(***************************************************************************)
(* Every account of the daily puzzle always holds a value of its type, and *)
(* no counter outgrows its width.                                          *)
(***************************************************************************)
THEOREM TypeCorrect == Spec => []TypeOK
BY TypeOKInit, TypeOKStep, PTL DEF Spec

-----------------------------------------------------------------------------
(* Records and counters.                                                   *)

SolversOf(d) == {s \in solved : s[1] = d}

SolvesOf(p) == {s \in solved : s[2] = p}

\* The safety properties hold together, of finitely many records.
DailyInv ==
  /\ TypeOK
  /\ IsFiniteSet(solved)
  /\ SolversKnewTheWord
  /\ CountersAgree

LEMMA CountersRead ==
  CountersAgree <=>
    /\ \A d \in DayIndex : daily[d].total_solvers = AtMostU32(Cardinality(SolversOf(d)))
    /\ \A p \in Solver : profile[p].total_solves = AtMostU32(Cardinality(SolvesOf(p)))
BY DEF CountersAgree, SolversOf, SolvesOf

LEMMA DailyInvInit == Init => DailyInv
<1> SUFFICES ASSUME Init PROVE DailyInv
  OBVIOUS
<1>1. TypeOK
  BY TypeOKInit
<1>2. solved = {} /\ IsFiniteSet(solved)
  BY FS_EmptySet DEF Init
<1>3. SolversKnewTheWord
  BY <1>2 DEF SolversKnewTheWord
<1>4. CountersAgree
  <2>1. \A d \in DayIndex : SolversOf(d) = {}
    BY <1>2 DEF SolversOf
  <2>2. \A p \in Solver : SolvesOf(p) = {}
    BY <1>2 DEF SolvesOf
  <2>3. AtMostU32(0) = 0
    BY DailyAssumption DEF AtMostU32
  <2> QED
    BY <2>1, <2>2, <2>3, FS_EmptySet, CountersRead
    DEF Init, PlatformInit, ZeroDay, ZeroProfile
<1> QED
  BY <1>1, <1>2, <1>3, <1>4 DEF DailyInv

LEMMA KnewStep == DailyInv /\ [Next]_vars => SolversKnewTheWord'
<1> SUFFICES ASSUME DailyInv, [Next]_vars,
                    NEW s \in solved'
             PROVE  /\ DayOpen(s[1])'
                    /\ \E word \in Word :
                         daily'[s[1]].solution_hash = <<daily'[s[1]].slot_hash_seed, word>>
  BY DEF SolversKnewTheWord
<1> USE DEF DailyInv
<1>1. CASE PlatformNext /\ UNCHANGED <<solved, profile>>
  <2>1. s \in solved /\ s[1] \in DayIndex /\ DayOpen(s[1])
    BY <1>1 DEF TypeOK, SolversKnewTheWord
  <2>2. daily'[s[1]] = daily[s[1]]
    BY <1>1, <2>1, PlatformKeepsDays DEF TypeOK
  <2> QED
    BY <2>1, <2>2 DEF SolversKnewTheWord, DayOpen
<1>2. ASSUME NEW d \in DayIndex, NEW word \in Word, NEW p \in Solver,
             submit_solution(d, word, p)
      PROVE  /\ DayOpen(s[1])'
             /\ \E w \in Word :
                  daily'[s[1]].solution_hash = <<daily'[s[1]].slot_hash_seed, w>>
  <2>1. \A e \in DayIndex : /\ daily'[e].slot_hash_seed = daily[e].slot_hash_seed
                            /\ daily'[e].solution_hash = daily[e].solution_hash
    BY <1>2, SubmitDays
  <2>2. CASE s \in solved
    BY <2>1, <2>2 DEF TypeOK, SolversKnewTheWord, DayOpen
  <2>3. CASE s = <<d, p>>
    <3>1. s[1] = d
      BY <2>3
    <3>2. DayOpen(d) /\ daily[d].solution_hash = <<daily[d].slot_hash_seed, word>>
      BY <1>2 DEF submit_solution, WordSolves, DailySolutionHash
    <3> QED
      BY <2>1, <3>1, <3>2 DEF DayOpen
  <2> QED
    BY <1>2, <2>2, <2>3 DEF submit_solution
<1>3. CASE UNCHANGED vars
  BY <1>3 DEF vars, SolversKnewTheWord, DayOpen
<1> QED
  BY <1>1, <1>2, <1>3 DEF Next

LEMMA CounterStep ==
  DailyInv /\ [Next]_vars => CountersAgree' /\ IsFiniteSet(solved)'
<1> SUFFICES ASSUME DailyInv, [Next]_vars
             PROVE  CountersAgree' /\ IsFiniteSet(solved)'
  OBVIOUS
<1> USE DEF DailyInv
<1>1. CASE PlatformNext /\ UNCHANGED <<solved, profile>>
  <2>1. ASSUME NEW d \in DayIndex
        PROVE  daily'[d].total_solvers = AtMostU32(Cardinality(SolversOf(d)))
    <3>1. CASE daily'[d] = daily[d]
      BY <3>1, CountersRead
    <3>2. CASE ~DayOpen(d) /\ daily'[d].total_solvers = 0
      <4>1. SolversOf(d) = {}
        BY <3>2 DEF SolversOf, SolversKnewTheWord
      <4> QED
        BY <3>2, <4>1, FS_EmptySet, DailyAssumption DEF AtMostU32
    <3> QED
      BY <1>1, <3>1, <3>2, PlatformKeepsDays DEF TypeOK
  <2> QED
    BY <1>1, <2>1, CountersRead DEF CountersAgree, SolversOf
<1>2. ASSUME NEW d \in DayIndex, NEW word \in Word, NEW p \in Solver,
             submit_solution(d, word, p)
      PROVE  CountersAgree' /\ IsFiniteSet(solved)'
  <2>1. solved' = solved \cup {<<d, p>>} /\ <<d, p>> \notin solved
    BY <1>2 DEF submit_solution, RecordIsNew
  <2>2. IsFiniteSet(solved)'
    BY <2>1, FS_AddElement
  <2>3. ASSUME NEW e \in DayIndex
        PROVE  daily'[e].total_solvers
                 = AtMostU32(Cardinality({s \in solved' : s[1] = e}))
    <3>1. IsFiniteSet(SolversOf(e)) /\ Cardinality(SolversOf(e)) \in Nat
      BY FS_Subset, FS_CardinalityType DEF SolversOf
    <3>2. CASE e = d
      <4>1. {s \in solved' : s[1] = e} = SolversOf(e) \cup {<<d, p>>}
        BY <2>1, <3>2 DEF SolversOf
      <4>2. <<d, p>> \notin SolversOf(e)
        BY <2>1 DEF SolversOf
      <4>3. Cardinality({s \in solved' : s[1] = e}) = Cardinality(SolversOf(e)) + 1
        BY <3>1, <4>1, <4>2, FS_AddElement
      <4>4. daily'[e].total_solvers = SaturatingAdd(AtMostU32(Cardinality(SolversOf(e))))
        BY <1>2, <3>2, SubmitDays, CountersRead
      <4> QED
        BY <3>1, <4>3, <4>4, SaturatingAddCounts
    <3>3. CASE e # d
      <4>1. {s \in solved' : s[1] = e} = SolversOf(e)
        BY <2>1, <3>3 DEF SolversOf
      <4> QED
        BY <1>2, <3>3, <4>1, SubmitDays, CountersRead
    <3> QED
      BY <3>2, <3>3
  <2>4. ASSUME NEW q \in Solver
        PROVE  profile'[q].total_solves
                 = AtMostU32(Cardinality({s \in solved' : s[2] = q}))
    <3>1. IsFiniteSet(SolvesOf(q)) /\ Cardinality(SolvesOf(q)) \in Nat
      BY FS_Subset, FS_CardinalityType DEF SolvesOf
    <3>2. CASE q = p
      <4>1. {s \in solved' : s[2] = q} = SolvesOf(q) \cup {<<d, p>>}
        BY <2>1, <3>2 DEF SolvesOf
      <4>2. <<d, p>> \notin SolvesOf(q)
        BY <2>1 DEF SolvesOf
      <4>3. Cardinality({s \in solved' : s[2] = q}) = Cardinality(SolvesOf(q)) + 1
        BY <3>1, <4>1, <4>2, FS_AddElement
      <4>4. profile'[q] = SolvedProfile(q) /\ profile[q] \in ProfileRecord
        BY <1>2, <3>2 DEF submit_solution, TypeOK
      <4>5. profile'[q].total_solves = SaturatingAdd(AtMostU32(Cardinality(SolvesOf(q))))
        BY <4>4, SolvedProfileTyped, CountersRead
      <4> QED
        BY <3>1, <4>3, <4>5, SaturatingAddCounts
    <3>3. CASE q # p
      <4>1. {s \in solved' : s[2] = q} = SolvesOf(q)
        BY <2>1, <3>3 DEF SolvesOf
      <4>2. profile'[q] = profile[q]
        BY <1>2, <3>3 DEF submit_solution, TypeOK
      <4> QED
        BY <4>1, <4>2, CountersRead
    <3> QED
      BY <3>2, <3>3
  <2> QED
    BY <2>2, <2>3, <2>4 DEF CountersAgree
<1>3. CASE UNCHANGED vars
  BY <1>3 DEF vars, CountersAgree
<1> QED
  BY <1>1, <1>2, <1>3 DEF Next

LEMMA DailyInvStep == DailyInv /\ [Next]_vars => DailyInv'
BY TypeOKStep, KnewStep, CounterStep DEF DailyInv

LEMMA DailyInvHolds == Spec => []DailyInv
BY DailyInvInit, DailyInvStep, PTL DEF Spec

(***************************************************************************)
(* The day's counter, the player's counter and the records agree, for any  *)
(* number of records, before and after a counter is full.                  *)
(***************************************************************************)
THEOREM CountersAlwaysAgree == Spec => []CountersAgree
<1>1. DailyInv => CountersAgree
  BY DEF DailyInv
<1> QED
  BY <1>1, DailyInvHolds, PTL

(***************************************************************************)
(* Every record is of an open day whose digest a word opens.               *)
(***************************************************************************)
THEOREM RecordsProveTheWord == Spec => []SolversKnewTheWord
<1>1. DailyInv => SolversKnewTheWord
  BY DEF DailyInv
<1> QED
  BY <1>1, DailyInvHolds, PTL

LEMMA GoodStep == TypeOK /\ [Next]_vars => DayIsForGoodStep
<1> SUFFICES ASSUME TypeOK, [Next]_vars, NEW e \in DayIndex, DayOpen(e)
             PROVE  /\ daily'[e].slot_hash_seed = daily[e].slot_hash_seed
                    /\ daily'[e].solution_hash = daily[e].solution_hash
                    /\ daily'[e].total_solvers >= daily[e].total_solvers
  BY DEF DayIsForGoodStep
<1>1. daily[e].total_solvers \in Nat
  BY DEF TypeOK, PlatformTypeOK
<1>2. CASE PlatformNext
  BY <1>1, <1>2, PlatformKeepsDays DEF TypeOK
<1>3. ASSUME NEW d \in DayIndex, NEW word \in Word, NEW p \in Solver,
             submit_solution(d, word, p)
      PROVE  /\ daily'[e].slot_hash_seed = daily[e].slot_hash_seed
             /\ daily'[e].solution_hash = daily[e].solution_hash
             /\ daily'[e].total_solvers >= daily[e].total_solvers
  <2>1. CASE e = d
    BY <1>3, <2>1, SubmitDays, SaturatingAddTyped
  <2>2. CASE e # d
    BY <1>1, <1>3, <2>2, SubmitDays
  <2> QED
    BY <2>1, <2>2
<1>4. CASE UNCHANGED vars
  BY <1>1, <1>4 DEF vars
<1> QED
  BY <1>2, <1>3, <1>4 DEF Next

(***************************************************************************)
(* An open day keeps its seed and its word, and its solvers, for good.     *)
(***************************************************************************)
THEOREM DaysAreForGood == Spec => DayIsForGood
<1>1. TypeOK /\ [Next]_vars => [DayIsForGoodStep]_vars
  BY GoodStep
<1> QED
  BY <1>1, TypeCorrect, PTL DEF Spec, DayIsForGood
=============================================================================
