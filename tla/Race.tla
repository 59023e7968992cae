-------------------------------- MODULE Race --------------------------------
(***************************************************************************)
(* What the duel promises about who wins, and nothing else.  Two racers    *)
(* sit down, each marks a time at most once, and may show that the mark    *)
(* was made with the right word.  The race is judged once, when both have  *)
(* shown or the deadline has come, by the marks shown until then: the      *)
(* earliest wins, equal ones tie, none is a refund.  What is shown later   *)
(* changes nothing.                                                        *)
(***************************************************************************)
EXTENDS Integers

CONSTANTS RaceId, Racer, Nobody

VARIABLES
  clock,
  limit,        \* the deadline of each race
  seats,        \* the racers of each race
  mark,         \* when each racer made the mark, or NoMark
  shown,        \* the racers that have shown theirs
  result,       \* "open", "won", "tied" or "refunded"
  champion

raceVars == <<clock, limit, seats, mark, shown, result, champion>>

NoMark == -1

RaceInit ==
  /\ clock = 0
  /\ limit = [i \in RaceId |-> 0]
  /\ seats = [i \in RaceId |-> {}]
  /\ mark = [i \in RaceId |-> [p \in Racer |-> NoMark]]
  /\ shown = [i \in RaceId |-> {}]
  /\ result = [i \in RaceId |-> "open"]
  /\ champion = [i \in RaceId |-> Nobody]

Paired(i) == \E p, q \in Racer : p # q /\ seats[i] = {p, q}

OpenRace(i) ==
  /\ seats[i] = {}
  /\ \E p \in Racer : seats' = [seats EXCEPT ![i] = {p}]
  /\ limit' = [limit EXCEPT ![i] = limit'[i]]
  /\ limit'[i] >= clock
  /\ UNCHANGED <<clock, mark, shown, result, champion>>

Pair(i) ==
  /\ result[i] = "open"
  /\ clock < limit[i]
  /\ \E p, q \in Racer :
       /\ p # q
       /\ seats[i] = {p}
       /\ seats' = [seats EXCEPT ![i] = {p, q}]
  /\ UNCHANGED <<clock, limit, mark, shown, result, champion>>

MarkTime(i, p) ==
  /\ result[i] = "open"
  /\ Paired(i)
  /\ p \in seats[i]
  /\ mark[i][p] = NoMark
  /\ mark' = [mark EXCEPT ![i][p] = clock]
  /\ UNCHANGED <<clock, limit, seats, shown, result, champion>>

Show(i, p) ==
  /\ p \in seats[i] \ shown[i]
  /\ mark[i][p] # NoMark
  /\ shown' = [shown EXCEPT ![i] = @ \cup {p}]
  /\ UNCHANGED <<clock, limit, seats, mark, result, champion>>

Earliest(i) == {p \in shown[i] : \A q \in shown[i] : mark[i][p] <= mark[i][q]}

Declare(i, what, who) ==
  /\ result' = [result EXCEPT ![i] = what]
  /\ champion' = [champion EXCEPT ![i] = who]

Judge(i) ==
  /\ result[i] = "open"
  /\ Paired(i)
  /\ seats[i] \subseteq shown[i] \/ clock >= limit[i]
  /\ \/ shown[i] = {} /\ Declare(i, "refunded", Nobody)
     \/ \E p \in Racer : Earliest(i) = {p} /\ Declare(i, "won", p)
     \/ Earliest(i) = seats[i] /\ Declare(i, "tied", Nobody)
  /\ UNCHANGED <<clock, limit, seats, mark, shown>>

CallOff(i) ==
  /\ result[i] = "open"
  /\ \E p \in Racer : seats[i] = {p}
  /\ Declare(i, "refunded", Nobody)
  /\ UNCHANGED <<clock, limit, seats, mark, shown>>

PassTime ==
  /\ clock' > clock
  /\ UNCHANGED <<limit, seats, mark, shown, result, champion>>

RaceNext ==
  \/ \E i \in RaceId : OpenRace(i) \/ Pair(i) \/ Judge(i) \/ CallOff(i)
  \/ \E i \in RaceId, p \in Racer : MarkTime(i, p) \/ Show(i, p)
  \/ PassTime

RaceSpec == RaceInit /\ [][RaceNext]_raceVars
=============================================================================
