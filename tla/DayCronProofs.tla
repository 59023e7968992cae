--------------------------- MODULE DayCronProofs ----------------------------
(***************************************************************************)
(* Theorems about the day script next to the program, for any number of    *)
(* runs, days, seeds and words.                                            *)
(***************************************************************************)
EXTENDS DayCron, DailyProofs

-----------------------------------------------------------------------------
(* The invariant.                                                          *)

(***************************************************************************)
(* A run sends once, with the day and the seed it holds from then on, and  *)
(* hears nothing before.                                                   *)
(***************************************************************************)
RunsInOrder ==
  \A u \in Run :
    /\ script[u].pc # "idle" => script[u].day \in DayIndex
    /\ script[u].pc \in {"idle", "reading"} => u \notin sent /\ reply[u] = "none"
    /\ u \in sent => script[u].seed \in Seed /\ reply[u] = "none"

\* What the network answered was and stays true.
RepliesAreTrue ==
  \A u \in Run :
    /\ reply[u] = "confirmed" =>
         /\ DayOpen(script[u].day)
         /\ daily[script[u].day].slot_hash_seed = script[u].seed
         /\ \A v \in Run \ {u} :
              reply[v] = "confirmed" => script[v].day # script[u].day
    /\ reply[u] = "already in use" => DayOpen(script[u].day)
    /\ script[u].pc = "OK" => reply[u] = "confirmed"
    /\ script[u].pc = "skipped" => reply[u] = "already in use"

DayCronInv ==
  /\ DayCronTypeOK
  /\ RunsInOrder
  /\ OpenDaysAreSolvable
  /\ RepliesAreTrue

LEMMA RepliesGiveReports == DayCronInv => ReportsAreTrue
BY DEF DayCronInv, RepliesAreTrue, ReportsAreTrue

LEMMA DayCronInvInit == DayCronInit => DayCronInv
<1> SUFFICES ASSUME DayCronInit PROVE DayCronInv
  OBVIOUS
<1>1. DayCronTypeOK
  <2>1. TypeOK
    BY TypeOKInit DEF DayCronInit
  <2> QED
    BY <2>1 DEF DayCronInit, DayCronTypeOK, NotStarted, ScriptRecord
<1>2. RunsInOrder /\ RepliesAreTrue
  BY DEF DayCronInit, NotStarted, RunsInOrder, RepliesAreTrue
<1>3. OpenDaysAreSolvable
  BY DEF DayCronInit, Init, PlatformInit, ZeroDay, DayOpen, OpenDaysAreSolvable
<1> QED
  BY <1>1, <1>2, <1>3 DEF DayCronInv

-----------------------------------------------------------------------------
(* What becomes of the days.                                               *)

\* A transaction that lands opens its run's day with that run's seed and word.
LEMMA LandOpens ==
  ASSUME DayCronInv, NEW u \in Run, Land(u)
  PROVE  LET d == script[u].day IN
         /\ d \in DayIndex
         /\ ~DayOpen(d)
         /\ script[u].seed \in Seed
         /\ daily'[d] = [slot_hash_seed |-> script[u].seed,
                         solution_hash |-> <<script[u].seed, WordOfDay[d]>>,
                         total_solvers |-> 0]
         /\ <<script[u].seed, WordOfDay[d]>> \in DailySolutionHashes
         /\ daily' \in [DayIndex -> [slot_hash_seed : Seed \cup {ZERO},
                                     solution_hash : DailySolutionHashes \cup {ZERO},
                                     total_solvers : Nat]]
         /\ \A e \in DayIndex \ {d} : daily'[e] = daily[e]
<1> DEFINE d == script[u].day
           hash == <<script[u].seed, WordOfDay[d]>>
<1>1. u \in sent
  BY DEF Land, Answered
<1>2. d \in DayIndex /\ script[u].seed \in Seed
  BY <1>1 DEF DayCronInv, RunsInOrder
<1>3. hash \in DailySolutionHashes
  BY <1>2, DayCronAssumption DEF DailySolutionHashes, DailySolutionHash
<1>4. /\ ~DayOpen(d)
      /\ daily' = [daily EXCEPT ![d] = [slot_hash_seed |-> script[u].seed,
                                        solution_hash |-> hash,
                                        total_solvers |-> 0]]
  BY DEF Land, initialize_day, DayIsNew, StoredSeed, SolutionHash, DailySolutionHash
<1>5. daily \in [DayIndex -> [slot_hash_seed : Seed \cup {ZERO},
                              solution_hash : DailySolutionHashes \cup {ZERO},
                              total_solvers : Nat]]
  BY DEF DayCronInv, DayCronTypeOK, TypeOK, PlatformTypeOK
<1> HIDE DEF hash
<1>6. [slot_hash_seed |-> script[u].seed, solution_hash |-> hash, total_solvers |-> 0]
        \in [slot_hash_seed : Seed \cup {ZERO},
             solution_hash : DailySolutionHashes \cup {ZERO},
             total_solvers : Nat]
  BY <1>2, <1>3
<1> QED
  BY <1>2, <1>3, <1>4, <1>5, <1>6 DEF hash

\* Every other step leaves the seed and the digest of every day alone.
LEMMA OthersKeepDays ==
  ASSUME DayCronInv, [DayCronNext]_dayCronVars, \A u \in Run : ~Land(u),
         NEW d \in DayIndex
  PROVE  /\ daily'[d].slot_hash_seed = daily[d].slot_hash_seed
         /\ daily'[d].solution_hash = daily[d].solution_hash
<1>1. CASE daily' = daily
  BY <1>1
<1>2. CASE OthersNext
  <2>1. CASE \E w \in Deployer : initialize_config(w)
    BY <1>1, <2>1 DEF initialize_config
  <2>2. ASSUME NEW e \in DayIndex, NEW word \in Word, NEW p \in Solver,
               submit_solution(e, word, p)
        PROVE  /\ daily'[d].slot_hash_seed = daily[d].slot_hash_seed
               /\ daily'[d].solution_hash = daily[d].solution_hash
    BY <2>2, SubmitDays DEF DayCronInv, DayCronTypeOK
  <2> QED
    BY <1>2, <2>1, <2>2 DEF OthersNext
<1>3. CASE \E u \in Run : Script(u)
  BY <1>1, <1>3 DEF Script, Start, ReadSeedAndSend, Finish, Fail, Exit, vars
<1>4. CASE \E u \in Run : RejectOpen(u) \/ Drop(u)
  BY <1>1, <1>4 DEF RejectOpen, Drop, vars
<1>5. CASE NewSlot \/ Midnight \/ UNCHANGED dayCronVars
  BY <1>1, <1>5 DEF NewSlot, Midnight, dayCronVars, vars
<1> QED
  BY <1>2, <1>3, <1>4, <1>5 DEF DayCronNext, Network

LEMMA OpenStaysOpen ==
  ASSUME DayCronInv, [DayCronNext]_dayCronVars, NEW d \in DayIndex, DayOpen(d)
  PROVE  DayOpen(d)' /\ daily'[d].slot_hash_seed = daily[d].slot_hash_seed
<1>1. CASE \A u \in Run : ~Land(u)
  BY <1>1, OthersKeepDays DEF DayOpen
<1>2. ASSUME NEW u \in Run, Land(u)
      PROVE  daily'[d] = daily[d]
  BY <1>2, LandOpens
<1> QED
  BY <1>1, <1>2 DEF DayOpen

-----------------------------------------------------------------------------
(* The invariant is inductive.                                             *)

LEMMA SolvableStep ==
  DayCronInv /\ [DayCronNext]_dayCronVars => OpenDaysAreSolvable'
<1> SUFFICES ASSUME DayCronInv, [DayCronNext]_dayCronVars, NEW d \in DayIndex,
                    DayOpen(d)'
             PROVE  daily'[d].solution_hash = <<daily'[d].slot_hash_seed, WordOfDay[d]>>
  BY DEF OpenDaysAreSolvable
<1>1. DayOpen(d) => daily[d].solution_hash = <<daily[d].slot_hash_seed, WordOfDay[d]>>
  BY DEF DayCronInv, OpenDaysAreSolvable
<1>2. CASE \A u \in Run : ~Land(u)
  BY <1>1, <1>2, OthersKeepDays DEF DayOpen
<1>3. ASSUME NEW u \in Run, Land(u)
      PROVE  daily'[d].solution_hash = <<daily'[d].slot_hash_seed, WordOfDay[d]>>
  <2>1. CASE d = script[u].day
    <3>1. daily'[d] = [slot_hash_seed |-> script[u].seed,
                       solution_hash |-> <<script[u].seed, WordOfDay[d]>>,
                       total_solvers |-> 0]
      BY <1>3, <2>1, LandOpens
    <3> QED
      BY <3>1
  <2>2. CASE d # script[u].day
    <3>1. daily'[d] = daily[d]
      BY <1>3, <2>2, LandOpens
    <3> QED
      BY <1>1, <3>1 DEF DayOpen
  <2> QED
    BY <2>1, <2>2
<1> QED
  BY <1>2, <1>3

LEMMA ScriptTyped ==
  ASSUME DayCronTypeOK, NEW u \in Run
  PROVE  /\ \A d \in DayIndex :
              [script EXCEPT ![u].pc = "reading", ![u].day = d]
                \in [Run -> ScriptRecord]
         /\ \A s \in Seed :
              [script EXCEPT ![u].pc = "sending", ![u].seed = s]
                \in [Run -> ScriptRecord]
         /\ \A status \in {"OK", "skipped", "failed"} :
              [script EXCEPT ![u].pc = status] \in [Run -> ScriptRecord]
<1>1. script[u] \in ScriptRecord
  BY DEF DayCronTypeOK
<1>2. ASSUME NEW d \in DayIndex
      PROVE  [script[u] EXCEPT !.pc = "reading", !.day = d] \in ScriptRecord
  BY <1>1 DEF ScriptRecord
<1>3. ASSUME NEW s \in Seed
      PROVE  [script[u] EXCEPT !.pc = "sending", !.seed = s] \in ScriptRecord
  BY <1>1 DEF ScriptRecord
<1>4. ASSUME NEW status \in {"OK", "skipped", "failed"}
      PROVE  [script[u] EXCEPT !.pc = status] \in ScriptRecord
  BY <1>1 DEF ScriptRecord
<1> QED
  BY <1>2, <1>3, <1>4 DEF DayCronTypeOK

LEMMA TypeKept == ASSUME TypeOK, UNCHANGED vars PROVE TypeOK'
BY DEF TypeOK, vars, PlatformTypeOK

LEMMA CronTypeStep ==
  DayCronInv /\ [DayCronNext]_dayCronVars => DayCronTypeOK'
<1> SUFFICES ASSUME DayCronInv, [DayCronNext]_dayCronVars PROVE DayCronTypeOK'
  OBVIOUS
<1> DayCronTypeOK /\ TypeOK
  BY DEF DayCronInv, DayCronTypeOK
<1>1. ASSUME NEW u \in Run, Script(u)
      PROVE  DayCronTypeOK'
  <2>1. TypeOK' /\ today' = today /\ slotHash' = slotHash /\ reply' = reply
    BY <1>1, TypeKept
    DEF Script, Start, ReadSeedAndSend, Finish, Fail, Exit, Skips
  <2>2. script' \in [Run -> ScriptRecord]
    <3>1. CASE Start(u)
      BY <3>1, ScriptTyped DEF Start, DayCronTypeOK
    <3>2. CASE ReadSeedAndSend(u)
      BY <3>2, ScriptTyped DEF ReadSeedAndSend, DayCronTypeOK
    <3>3. CASE Finish(u) \/ Fail(u)
      <4>1. PICK status \in {"OK", "skipped", "failed"} : Exit(u, status)
        BY <3>3 DEF Finish, Fail
      <4> QED
        BY <4>1, ScriptTyped DEF Exit
    <3> QED
      BY <1>1, <3>1, <3>2, <3>3 DEF Script
  <2>3. sent' \subseteq Run
    BY <1>1 DEF Script, Start, ReadSeedAndSend, Finish, Fail, Exit, DayCronTypeOK
  <2> QED
    BY <2>1, <2>2, <2>3 DEF DayCronTypeOK
<1>2. ASSUME NEW u \in Run, NEW answer \in {"confirmed", "already in use", "error"},
             Answered(u, answer), TypeOK'
      PROVE  DayCronTypeOK'
  BY <1>2 DEF Answered, DayCronTypeOK
<1>3. ASSUME NEW u \in Run, Land(u)
      PROVE  TypeOK'
  <2>1. PlatformTypeOK'
    BY <1>3, LandOpens DEF Land, initialize_day, TypeOK, PlatformTypeOK
  <2>2. ASSUME NEW d \in DayIndex
        PROVE  daily'[d].total_solvers <= U32_MAX
    <3>1. CASE d = script[u].day
      <4>1. daily'[d] = [slot_hash_seed |-> script[u].seed,
                         solution_hash |-> <<script[u].seed, WordOfDay[d]>>,
                         total_solvers |-> 0]
        BY <1>3, <3>1, LandOpens
      <4>2. daily'[d].total_solvers = 0
        BY <4>1
      <4> QED
        BY <4>2, DailyAssumption
    <3>2. CASE d # script[u].day
      <4>1. daily'[d] = daily[d]
        BY <1>3, <3>2, LandOpens
      <4> QED
        BY <4>1 DEF TypeOK
    <3> QED
      BY <3>1, <3>2
  <2> QED
    BY <1>3, <2>1, <2>2 DEF Land, TypeOK
<1>4. CASE \E u \in Run : Network(u)
  BY <1>2, <1>3, <1>4, TypeKept DEF Network, Land, RejectOpen, Drop
<1>5. CASE NewSlot \/ Midnight
  BY <1>5, TypeKept DEF NewSlot, Midnight, DayCronTypeOK
<1>6. CASE OthersNext
  <2>1. cronVars' = cronVars
    BY <1>6 DEF OthersNext
  <2>2. CASE (\E w \in Deployer : initialize_config(w)) /\ UNCHANGED <<solved, profile>>
    <3>1. Next
      BY <2>2 DEF Next, PlatformNext
    <3>2. TypeOK'
      BY <3>1, TypeOKStep
    <3> QED
      BY <2>1, <3>2 DEF cronVars, DayCronTypeOK
  <2>3. CASE \E d \in DayIndex, word \in Word, p \in Solver : submit_solution(d, word, p)
    <3>1. TypeOK'
      BY <2>3, TypeOKStep DEF Next
    <3> QED
      BY <2>1, <3>1 DEF cronVars, DayCronTypeOK
  <2> QED
    BY <1>6, <2>2, <2>3 DEF OthersNext
<1>7. CASE UNCHANGED dayCronVars
  BY <1>7, TypeKept DEF dayCronVars, cronVars, DayCronTypeOK
<1> QED
  BY <1>1, <1>4, <1>5, <1>6, <1>7 DEF DayCronNext

LEMMA OrderStep == DayCronInv /\ [DayCronNext]_dayCronVars => RunsInOrder'
<1> SUFFICES ASSUME DayCronInv, [DayCronNext]_dayCronVars PROVE RunsInOrder'
  OBVIOUS
<1> RunsInOrder /\ DayCronTypeOK
  BY DEF DayCronInv
<1> USE DEF RunsInOrder
<1>1. ASSUME NEW u \in Run, Script(u)
      PROVE  RunsInOrder'
  <2>1. CASE Start(u)
    BY <2>1 DEF Start, DayCronTypeOK, ScriptRecord
  <2>2. CASE ReadSeedAndSend(u)
    BY <2>2 DEF ReadSeedAndSend, DayCronTypeOK, ScriptRecord
  <2>3. CASE Finish(u) \/ Fail(u)
    <3>1. PICK status \in {"OK", "skipped", "failed"} :
            Exit(u, status) /\ script[u].pc # "idle"
      BY <2>3 DEF Finish, Fail
    <3> QED
      BY <3>1 DEF Exit, DayCronTypeOK, ScriptRecord
  <2> QED
    BY <1>1, <2>1, <2>2, <2>3 DEF Script
<1>2. ASSUME NEW u \in Run, Network(u)
      PROVE  RunsInOrder'
  <2>1. PICK answer : Answered(u, answer)
    BY <1>2 DEF Network, Land, RejectOpen, Drop
  <2> QED
    BY <2>1 DEF Answered, DayCronTypeOK
<1>3. CASE UNCHANGED <<script, sent, reply>>
  BY <1>3
<1>4. CASE NewSlot \/ Midnight \/ OthersNext \/ UNCHANGED dayCronVars
  BY <1>3, <1>4 DEF NewSlot, Midnight, OthersNext, dayCronVars, cronVars
<1> QED
  BY <1>1, <1>2, <1>4 DEF DayCronNext

LEMMA RepliesStep == DayCronInv /\ [DayCronNext]_dayCronVars => RepliesAreTrue'
<1> SUFFICES ASSUME DayCronInv, [DayCronNext]_dayCronVars PROVE RepliesAreTrue'
  OBVIOUS
<1> RepliesAreTrue /\ RunsInOrder /\ DayCronTypeOK
  BY DEF DayCronInv
<1> DEFINE Held(v) == script'[v].day = script[v].day /\ script'[v].seed = script[v].seed
\* What was answered before is still true, whoever moves.
<1>1. ASSUME NEW v \in Run, reply[v] \in {"confirmed", "already in use"}, Held(v)
      PROVE  /\ DayOpen(script[v].day)'
             /\ daily'[script'[v].day].slot_hash_seed
                  = daily[script[v].day].slot_hash_seed
  <2>1. script[v].day \in DayIndex /\ DayOpen(script[v].day)
    BY <1>1 DEF RunsInOrder, RepliesAreTrue
  <2>2. /\ daily'[script[v].day].slot_hash_seed = daily[script[v].day].slot_hash_seed
        /\ daily[script[v].day].slot_hash_seed # ZERO
    BY <2>1, OpenStaysOpen DEF DayOpen
  <2> QED
    BY <1>1, <2>2 DEF DayOpen
<1>2. ASSUME reply' = reply,
             \A v \in Run : reply[v] # "none" => Held(v),
             \A v \in Run : script'[v].pc = "OK" => reply[v] = "confirmed",
             \A v \in Run : script'[v].pc = "skipped" => reply[v] = "already in use"
      PROVE  RepliesAreTrue'
  <2>1. ASSUME NEW v \in Run, reply[v] \in {"confirmed", "already in use"}
        PROVE  DayOpen(script[v].day)'
    BY <1>1, <1>2, <2>1
  <2>2. ASSUME NEW v \in Run, reply[v] = "confirmed"
        PROVE  /\ daily'[script'[v].day].slot_hash_seed = script'[v].seed
               /\ \A w \in Run \ {v} :
                    reply[w] = "confirmed" => script'[w].day # script'[v].day
    BY <1>1, <1>2, <2>2 DEF RepliesAreTrue
  <2> QED
    BY <1>2, <2>1, <2>2 DEF RepliesAreTrue
\* A run that has heard nothing moves on.
<1>s. ASSUME NEW u \in Run, reply[u] = "none", reply' = reply,
             \A v \in Run \ {u} : script'[v] = script[v],
             script'[u].pc \in {"reading", "sending"}
      PROVE  RepliesAreTrue'
  <2>1. \A v \in Run : reply[v] # "none" => Held(v)
    BY <1>s
  <2>2. \A v \in Run : script'[v].pc \in {"OK", "skipped"} => script'[v] = script[v]
    BY <1>s
  <2> QED
    BY <1>2, <1>s, <2>1, <2>2 DEF RepliesAreTrue
<1>3. ASSUME NEW u \in Run, Script(u)
      PROVE  RepliesAreTrue'
  <2>1. CASE Start(u)
    <3>1. /\ reply[u] = "none" /\ reply' = reply
          /\ \A v \in Run \ {u} : script'[v] = script[v]
          /\ script'[u].pc = "reading"
      BY <2>1 DEF Start, RunsInOrder, DayCronTypeOK, ScriptRecord
    <3> QED
      BY <1>s, <3>1
  <2>2. CASE ReadSeedAndSend(u)
    <3>1. /\ reply[u] = "none" /\ reply' = reply
          /\ \A v \in Run \ {u} : script'[v] = script[v]
          /\ script'[u].pc = "sending"
      BY <2>2 DEF ReadSeedAndSend, RunsInOrder, DayCronTypeOK, ScriptRecord
    <3> QED
      BY <1>s, <3>1
  <2>3. CASE Finish(u) \/ Fail(u)
    <3>1. PICK status \in {"OK", "skipped", "failed"} :
            /\ Exit(u, status)
            /\ status = "OK" => reply[u] = "confirmed"
            /\ status = "skipped" => reply[u] = "already in use"
      BY <2>3 DEF Finish, Fail, Skips
    <3>2. /\ reply' = reply
          /\ \A v \in Run \ {u} : script'[v] = script[v]
          /\ script'[u].pc = status
          /\ Held(u)
      BY <3>1 DEF Exit, DayCronTypeOK, ScriptRecord
    <3> QED
      BY <1>2, <3>1, <3>2 DEF RepliesAreTrue
  <2> QED
    BY <1>3, <2>1, <2>2, <2>3 DEF Script
<1>4. ASSUME NEW u \in Run, NEW answer, Answered(u, answer),
             answer = "confirmed" =>
               /\ DayOpen(script[u].day)'
               /\ daily'[script[u].day].slot_hash_seed = script[u].seed
               /\ ~DayOpen(script[u].day),
             answer = "already in use" => DayOpen(script[u].day)'
      PROVE  RepliesAreTrue'
  <2>1. /\ script' = script
        /\ reply[u] = "none"
        /\ reply'[u] = answer
        /\ \A v \in Run \ {u} : reply'[v] = reply[v]
    BY <1>4 DEF Answered, RunsInOrder, DayCronTypeOK
  <2>2. \A v \in Run : Held(v)
    BY <2>1
  <2>3. \A v \in Run : script[v].pc \in {"OK", "skipped"} => v # u
    BY <2>1 DEF RepliesAreTrue
  <2>4. answer = "confirmed" =>
          \A v \in Run \ {u} : reply[v] = "confirmed" => script[v].day # script[u].day
    BY <1>4 DEF RepliesAreTrue
  <2>5. ASSUME NEW v \in Run
        PROVE  /\ reply'[v] = "confirmed" =>
                    /\ DayOpen(script[v].day)'
                    /\ daily'[script'[v].day].slot_hash_seed = script'[v].seed
               /\ reply'[v] = "already in use" => DayOpen(script[v].day)'
    <3>1. CASE v = u
      BY <1>4, <2>1, <3>1 DEF DayOpen
    <3>2. CASE v # u
      BY <1>1, <2>1, <2>2, <3>2 DEF RepliesAreTrue
    <3> QED
      BY <3>1, <3>2
  <2>6. ASSUME NEW v \in Run, NEW w \in Run \ {v},
               reply'[v] = "confirmed", reply'[w] = "confirmed"
        PROVE  script'[w].day # script'[v].day
    <3>1. CASE v = u \/ w = u
      BY <2>1, <2>4, <2>6, <3>1
    <3>2. CASE v # u /\ w # u
      BY <2>1, <2>6, <3>2 DEF RepliesAreTrue
    <3> QED
      BY <3>1, <3>2
  <2>7. ASSUME NEW v \in Run
        PROVE  /\ script'[v].pc = "OK" => reply'[v] = "confirmed"
               /\ script'[v].pc = "skipped" => reply'[v] = "already in use"
    BY <2>1, <2>3 DEF RepliesAreTrue
  <2> QED
    BY <2>5, <2>6, <2>7 DEF RepliesAreTrue
<1>5. ASSUME NEW u \in Run, Network(u)
      PROVE  RepliesAreTrue'
  <2>1. CASE Land(u)
    <3>6. daily'[script[u].day] =
            [slot_hash_seed |-> script[u].seed,
             solution_hash |-> <<script[u].seed, WordOfDay[script[u].day]>>,
             total_solvers |-> 0]
      BY <2>1, LandOpens
    <3>7. ~DayOpen(script[u].day) /\ script[u].seed \in Seed
      BY <2>1, LandOpens
    <3>1. ~DayOpen(script[u].day)
          /\ daily'[script[u].day].slot_hash_seed = script[u].seed
          /\ script[u].seed \in Seed
      BY <3>6, <3>7
    <3>2. Answered(u, "confirmed")
      BY <2>1 DEF Land
    <3>3. daily'[script[u].day].slot_hash_seed # ZERO
      BY <3>1, PlatformAssumption
    <3>4. script' = script
      BY <3>2 DEF Answered
    <3>5. DayOpen(script[u].day)'
      BY <3>3, <3>4 DEF DayOpen
    <3> QED
      BY <1>4, <3>1, <3>2, <3>5
  <2>2. CASE RejectOpen(u)
    <3>1. DayOpen(script[u].day)' /\ Answered(u, "already in use")
      BY <2>2 DEF RejectOpen, DayOpen, vars, Answered
    <3> QED
      BY <1>4, <3>1
  <2>3. CASE Drop(u)
    <3>1. Answered(u, "error")
      BY <2>3 DEF Drop
    <3> QED
      BY <1>4, <3>1
  <2> QED
    BY <1>5, <2>1, <2>2, <2>3 DEF Network
<1>6. CASE NewSlot \/ Midnight \/ OthersNext \/ UNCHANGED dayCronVars
  <2>1. script' = script /\ reply' = reply
    BY <1>6 DEF NewSlot, Midnight, OthersNext, dayCronVars, cronVars
  <2> QED
    BY <1>2, <2>1 DEF RepliesAreTrue
<1> QED
  BY <1>3, <1>5, <1>6 DEF DayCronNext

LEMMA DayCronInvHolds == DayCronSpec => []DayCronInv
<1>1. DayCronInv /\ [DayCronNext]_dayCronVars => DayCronInv'
  BY CronTypeStep, OrderStep, SolvableStep, RepliesStep DEF DayCronInv
<1> QED
  BY <1>1, DayCronInvInit, PTL DEF DayCronSpec

(***************************************************************************)
(* The runs, the network and the accounts always have their types.         *)
(***************************************************************************)
THEOREM DayCronTypeCorrect == DayCronSpec => []DayCronTypeOK
<1>1. DayCronInv => DayCronTypeOK
  BY DEF DayCronInv
<1> QED
  BY <1>1, DayCronInvHolds, PTL

(***************************************************************************)
(* However many runs overlap, and however late their transactions land, a  *)
(* day that is open is solved by its word and the seed stored with it.     *)
(***************************************************************************)
THEOREM OpenDaysStaySolvable == DayCronSpec => []OpenDaysAreSolvable
<1>1. DayCronInv => OpenDaysAreSolvable
  BY DEF DayCronInv
<1> QED
  BY <1>1, DayCronInvHolds, PTL

(***************************************************************************)
(* What any run of the script reports of its day is true for good.         *)
(***************************************************************************)
THEOREM ReportsStayTrue == DayCronSpec => []ReportsAreTrue
BY RepliesGiveReports, DayCronInvHolds, PTL

(***************************************************************************)
(* With every argument of initialize_day allowed to the authority, the     *)
(* program next to the script is the daily puzzle, and every theorem about *)
(* Daily holds of it.                                                      *)
(***************************************************************************)
THEOREM DayCronImplementsDaily ==
  ASSUME DayInput = DayIndex \X Seed \X DailySolutionHashes
  PROVE  DayCronSpec => Spec
<1>1. DayCronInit => Init
  BY DEF DayCronInit
<1>2. DayCronInv /\ [DayCronNext]_dayCronVars => [Next]_vars
  <2> SUFFICES ASSUME DayCronInv, [DayCronNext]_dayCronVars PROVE [Next]_vars
    OBVIOUS
  <2>1. ASSUME NEW u \in Run, Land(u)
        PROVE  Next
    <3> DEFINE in == <<script[u].day, script[u].seed, SolutionHash(u)>>
    <3>1. in \in DayInput
      BY <2>1, LandOpens DEF SolutionHash, DailySolutionHash
    <3>2. initialize_day(AUTHORITY_KEYPAIR, in[1], in[2], in[3])
      BY <2>1 DEF Land, StoredSeed
    <3>3. PlatformNext
      BY <3>1, <3>2, DayCronAssumption DEF PlatformNext
    <3> QED
      BY <2>1, <3>3 DEF Land, Next
  <2>2. CASE OthersNext
    BY <2>2 DEF OthersNext, Next, PlatformNext
  <2>3. CASE \E u \in Run : Script(u) \/ RejectOpen(u) \/ Drop(u)
    BY <2>3 DEF Script, Start, ReadSeedAndSend, Finish, Fail, Exit, RejectOpen, Drop
  <2>4. CASE NewSlot \/ Midnight \/ UNCHANGED dayCronVars
    BY <2>4 DEF NewSlot, Midnight, dayCronVars
  <2> QED
    BY <2>1, <2>2, <2>3, <2>4 DEF DayCronNext, Network
<1> QED
  BY <1>1, <1>2, DayCronInvHolds, PTL DEF DayCronSpec, Spec
=============================================================================
