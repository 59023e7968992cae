------------------------------- MODULE Daily --------------------------------
(***************************************************************************)
(* The free daily puzzle (submit_solution.rs): a wallet proves it knows    *)
(* the word of a day, gets one SolverRecord for it, and its PlayerProfile  *)
(* and the day's counter go up by one, saturating.                         *)
(***************************************************************************)
EXTENDS Platform, FiniteSets

CONSTANTS
  Solver,        \* the wallets that play the daily puzzle
  U32_MAX        \* the largest u32; runs give it a smaller stand-in

ASSUME DailyAssumption ==
  /\ Solver \subseteq Wallet
  /\ U32_MAX \in Nat \ {0}

VARIABLES
  solved,        \* the <<day, player>> whose SolverRecord exists
  profile        \* the PlayerProfile of each player

vars == <<config, daily, solved, profile>>

ZeroProfile ==
  [player |-> DefaultPubkey, total_solves |-> 0, current_streak |-> 0,
   best_streak |-> 0]

ProfileRecord ==
  [player : Solver \cup {DefaultPubkey}, total_solves : 0..U32_MAX,
   current_streak : 0..U32_MAX, best_streak : 0..U32_MAX]

\* Every account holds a value its Rust type admits, counters within u32.
TypeOK ==
  /\ PlatformTypeOK
  /\ \A d \in DayIndex : daily[d].total_solvers <= U32_MAX
  /\ solved \subseteq DayIndex \X Solver
  /\ profile \in [Solver -> ProfileRecord]

Init ==
  /\ PlatformInit
  /\ solved = {}
  /\ profile = [p \in Solver |-> ZeroProfile]

\* Broken: the counter is not bounded by its width.
UnboundedAdd(n) == n + 1

SaturatingAdd(n) == IF n < U32_MAX THEN n + 1 ELSE n

\* Broken: the digest is not compared with the day's.
AnyWordSolves(d, word) == TRUE

WordSolves(d, word) ==
  DailySolutionHash(daily[d].slot_hash_seed, word) = daily[d].solution_hash

\* Broken: the record is taken with init_if_needed, so a day counts again.
RecordIsNewUnchecked(d, p) == TRUE

RecordIsNew(d, p) == <<d, p>> \notin solved

ProfileIsOwn(p) == profile[p].player \in {DefaultPubkey, p}

SolvedProfile(p) ==
  LET streak == SaturatingAdd(profile[p].current_streak) IN
  [player         |-> p,
   total_solves   |-> SaturatingAdd(profile[p].total_solves),
   current_streak |-> streak,
   best_streak    |-> IF streak > profile[p].best_streak
                      THEN streak ELSE profile[p].best_streak]

(***************************************************************************)
(* submit_solution.  Any open day can be solved, today's or an old one,    *)
(* and no instruction ever lowers or resets a streak: the current one, the *)
(* best one and the number of solves are always the same number.           *)
(***************************************************************************)
submit_solution(d, word, p) ==
  /\ RecordIsNew(d, p)
  /\ DayOpen(d)
  /\ Configured
  /\ WordSolves(d, word)
  /\ ProfileIsOwn(p)
  /\ solved' = solved \cup {<<d, p>>}
  /\ profile' = [profile EXCEPT ![p] = SolvedProfile(p)]
  /\ daily' = [daily EXCEPT ![d].total_solvers = SaturatingAdd(@)]
  /\ UNCHANGED config

Next ==
  \/ PlatformNext /\ UNCHANGED <<solved, profile>>
  \/ \E d \in DayIndex, word \in Word, p \in Solver : submit_solution(d, word, p)

Spec == Init /\ [][Next]_vars

-----------------------------------------------------------------------------
AtMostU32(n) == IF n <= U32_MAX THEN n ELSE U32_MAX

(***************************************************************************)
(* The three places that count solves agree, also once a counter is full:  *)
(* a day's total_solvers is the number of its SolverRecords and a player's *)
(* total_solves the number of that player's, up to the width of u32.       *)
(***************************************************************************)
CountersAgree ==
  /\ \A d \in DayIndex :
       daily[d].total_solvers = AtMostU32(Cardinality({s \in solved : s[1] = d}))
  /\ \A p \in Solver :
       profile[p].total_solves = AtMostU32(Cardinality({s \in solved : s[2] = p}))

(***************************************************************************)
(* A record is proof of the word: whoever has one for a day solved an open *)
(* day whose digest some word of the vocabulary opens.  A day whose digest *)
(* was made with another seed is never solved.                             *)
(***************************************************************************)
SolversKnewTheWord ==
  \A s \in solved :
    /\ DayOpen(s[1])
    /\ \E word \in Word :
         daily[s[1]].solution_hash = <<daily[s[1]].slot_hash_seed, word>>

(***************************************************************************)
(* Once a day is open its seed and its word are fixed for good and its     *)
(* solvers are never uncounted (Slotword_PRD.md:119,125).                  *)
(***************************************************************************)
DayIsForGoodStep ==
  \A d \in DayIndex : DayOpen(d) =>
    /\ daily'[d].slot_hash_seed = daily[d].slot_hash_seed
    /\ daily'[d].solution_hash = daily[d].solution_hash
    /\ daily'[d].total_solvers >= daily[d].total_solvers

DayIsForGood == [][DayIsForGoodStep]_vars
=============================================================================
