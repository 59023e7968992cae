------------------------------ MODULE DayCron -------------------------------
(***************************************************************************)
(* scripts/init_day.ts next to the program.  A run of the script picks the *)
(* word of the UTC day, reads the newest slot hash, sends initialize_day   *)
(* and waits; it is started once per UTC midnight, and again by hand when  *)
(* it failed, so runs overlap.  Meanwhile the slot hash moves on, the day  *)
(* may end, a transaction may land after its run gave up, and players      *)
(* solve what is open.  Only this script signs initialize_day.             *)
(***************************************************************************)
EXTENDS Daily

CONSTANTS
  Run,                  \* the runs of the script
  AUTHORITY_KEYPAIR,
  WordOfDay             \* wordList[dayIndex % wordList.length]

ASSUME DayCronAssumption ==
  /\ DayIndex \subseteq Nat
  /\ AUTHORITY_KEYPAIR \in Wallet
  /\ WordOfDay \in [DayIndex -> Word]

VARIABLES
  today,        \* Date.now() in whole days
  slotHash,     \* the newest entry of the SlotHashes sysvar
  script,       \* where each run stands and what it holds
  sent,         \* the runs whose transaction has neither landed nor expired
  reply         \* what the network says of each run's transaction

cronVars == <<today, slotHash, script, sent, reply>>
dayCronVars == <<vars, cronVars>>

NotStarted == [pc |-> "idle", day |-> 0, seed |-> ZERO]

ScriptRecord ==
  [pc : {"idle", "reading", "sending", "OK", "skipped", "failed"},
   day : DayIndex \cup {0}, seed : Seed \cup {ZERO}]

\* The scripts and the network hold what the code can put there.
DayCronTypeOK ==
  /\ TypeOK
  /\ today \in DayIndex
  /\ slotHash \in Seed
  /\ script \in [Run -> ScriptRecord]
  /\ sent \subseteq Run
  /\ reply \in [Run -> {"none", "confirmed", "already in use", "error"}]

DayCronInit ==
  /\ Init
  /\ today \in DayIndex
  /\ \A d \in DayIndex : today <= d
  /\ slotHash \in Seed
  /\ script = [u \in Run |-> NotStarted]
  /\ sent = {}
  /\ reply = [u \in Run |-> "none"]

-----------------------------------------------------------------------------
(* The script.                                                             *)

\* The day is fixed here, however long the rest takes.
Start(u) ==
  /\ script[u].pc = "idle"
  /\ script' = [script EXCEPT ![u].pc = "reading", ![u].day = today]
  /\ UNCHANGED <<vars, today, slotHash, sent, reply>>

\* getRecentSlotHashSeed, then client.initializeDay.
ReadSeedAndSend(u) ==
  /\ script[u].pc = "reading"
  /\ script' = [script EXCEPT ![u].pc = "sending", ![u].seed = slotHash]
  /\ sent' = sent \cup {u}
  /\ UNCHANGED <<vars, today, slotHash, reply>>

\* Broken: whatever went wrong, the day is taken to be open.
SkipsOnAnyError(u) == reply[u] \in {"already in use", "error"}

Skips(u) == reply[u] = "already in use"

Exit(u, status) ==
  /\ script' = [script EXCEPT ![u].pc = status]
  /\ UNCHANGED <<vars, today, slotHash, sent, reply>>

Finish(u) ==
  /\ script[u].pc = "sending"
  /\ \/ reply[u] = "confirmed" /\ Exit(u, "OK")
     \/ Skips(u) /\ Exit(u, "skipped")
     \/ reply[u] = "error" /\ ~Skips(u) /\ Exit(u, "failed")

\* The sysvar cannot be read, no answer comes in time, or the run is killed.
Fail(u) ==
  /\ script[u].pc \in {"reading", "sending"}
  /\ Exit(u, "failed")

-----------------------------------------------------------------------------
(* The network and the program.                                            *)

\* Broken: the digest is made before the seed is there.
UnseededHash(u) == DailySolutionHash(ZERO, WordOfDay[script[u].day])

SolutionHash(u) == DailySolutionHash(script[u].seed, WordOfDay[script[u].day])

\* Broken: the program stores the sysvar's value and not its argument.
SysvarSeed(u) == slotHash

StoredSeed(u) == script[u].seed

Answered(u, answer) ==
  /\ u \in sent
  /\ sent' = sent \ {u}
  /\ reply' = [reply EXCEPT ![u] = answer]
  /\ UNCHANGED <<today, slotHash, script>>

Land(u) ==
  /\ Answered(u, "confirmed")
  /\ initialize_day(AUTHORITY_KEYPAIR, script[u].day, StoredSeed(u), SolutionHash(u))
  /\ UNCHANGED <<solved, profile>>

\* The system program will not allocate the account a second time.
RejectOpen(u) ==
  /\ Answered(u, "already in use")
  /\ DayOpen(script[u].day)
  /\ UNCHANGED vars

\* Any other rejection, or the blockhash expires.
Drop(u) == Answered(u, "error") /\ UNCHANGED vars

\* A new slot begins, and sometimes a new day.
NewSlot ==
  /\ slotHash' \in Seed \ {slotHash}
  /\ UNCHANGED <<vars, today, script, sent, reply>>

Midnight ==
  /\ today' = today + 1
  /\ today' \in DayIndex
  /\ UNCHANGED <<vars, slotHash, script, sent, reply>>

Script(u) == Start(u) \/ ReadSeedAndSend(u) \/ Finish(u) \/ Fail(u)

Network(u) == Land(u) \/ RejectOpen(u) \/ Drop(u)

\* The config is opened, and players submit their solutions.
OthersNext ==
  /\ \/ /\ \E w \in Deployer : initialize_config(w)
        /\ UNCHANGED <<solved, profile>>
     \/ \E d \in DayIndex, word \in Word, p \in Solver : submit_solution(d, word, p)
  /\ UNCHANGED cronVars

DayCronNext ==
  \/ \E u \in Run : Script(u) \/ Network(u)
  \/ NewSlot
  \/ Midnight
  \/ OthersNext

DayCronSpec == DayCronInit /\ [][DayCronNext]_dayCronVars

(***************************************************************************)
(* A run that was started goes on or fails, and the network gives every    *)
(* transaction an answer in the end.  Nothing makes a run start.           *)
(***************************************************************************)
FairDayCronSpec ==
  /\ DayCronSpec
  /\ \A u \in Run : /\ WF_dayCronVars(ReadSeedAndSend(u) \/ Finish(u) \/ Fail(u))
                    /\ WF_dayCronVars(Network(u))

-----------------------------------------------------------------------------
(***************************************************************************)
(* Whatever runs overlap and however old their slot hashes are when they   *)
(* land, an open day is solved by the list's word of that day and by the   *)
(* seed stored with it (init_day.ts:16: no race between the two reads).    *)
(***************************************************************************)
OpenDaysAreSolvable ==
  \A d \in DayIndex : DayOpen(d) =>
    daily[d].solution_hash = <<daily[d].slot_hash_seed, WordOfDay[d]>>

(***************************************************************************)
(* What a run reports is true, for good: a day that is skipped is open,    *)
(* and of all the runs for one day at most one says OK, whose seed is the  *)
(* one stored.                                                             *)
(***************************************************************************)
ReportsAreTrue ==
  \A u \in Run :
    /\ script[u].pc = "skipped" => DayOpen(script[u].day)
    /\ script[u].pc = "OK" =>
         /\ daily[script[u].day].slot_hash_seed = script[u].seed
         /\ \A v \in Run \ {u} :
              script[v].pc = "OK" => script[v].day # script[u].day

(***************************************************************************)
(* A run ends with its day open or with a failing exit status, also when   *)
(* its own transaction came too late.                                      *)
(***************************************************************************)
RunsOpenTheirDay ==
  \A u \in Run :
    script[u].pc = "reading" ~>
      (script[u].pc = "failed" \/
         (script[u].pc \in {"OK", "skipped"} /\ DayOpen(script[u].day)))
=============================================================================
