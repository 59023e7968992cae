---------------------------- MODULE VerdictProofs ----------------------------
(***************************************************************************)
(* Who wins a duel, for every value of the constants: Duel implements      *)
(* Race, a copier never wins, and every settlement is decided by the       *)
(* resolution matrix.                                                      *)
(***************************************************************************)
EXTENDS DuelLedger, DuelProofs

-----------------------------------------------------------------------------
(* A room nobody has closed has no winner yet.                             *)

OpenUndecided ==
  \A r \in Room : room[r].status = "Active" => room[r].winner = DefaultPubkey

\* A settlement closes the room with the winner of the verdict that holds.
LEMMA SettleVerdict ==
  ASSUME TypeOK, NEW r \in Room, NEW keeper \in Wallet,
         NEW c \in TokenAccount, NEW o \in TokenAccount,
         NEW k \in TokenAccount, NEW p \in TokenAccount,
         NEW v \in Vault, settle_duel(r, keeper, c, o, k, p, v)
  PROVE  /\ Active(r) /\ Joined(r) /\ Due(r)
         /\ \A q \in Room \ {r} : room'[q] = room[q]
         /\ \/ /\ Tied(r)
               /\ room'[r].status = "Settled" /\ room'[r].winner = DefaultPubkey
            \/ /\ CreatorWins(r)
               /\ room'[r].status = "Settled" /\ room'[r].winner = room[r].creator
            \/ /\ OpponentWins(r)
               /\ room'[r].status = "Settled" /\ room'[r].winner = room[r].opponent
            \/ /\ NobodyRevealed(r)
               /\ room'[r].status = "Refunded" /\ room'[r].winner = DefaultPubkey
<1>1. ASSUME NEW s, NEW w, Close(r, s, w)
      PROVE  /\ room'[r].status = s /\ room'[r].winner = w
             /\ \A q \in Room \ {r} : room'[q] = room[q]
  BY <1>1 DEF Close, TypeOK, RoomRecord
<1> QED
  BY <1>1 DEF settle_duel, settle_tie, settle_win, settle_refund

LEMMA UndecidedStep == TypeOK /\ OpenUndecided /\ [Next]_vars => OpenUndecided'
<1> SUFFICES ASSUME TypeOK, OpenUndecided, [Next]_vars, NEW q \in Room,
                    room'[q].status = "Active"
             PROVE  room'[q].winner = DefaultPubkey
  BY DEF OpenUndecided
<1>1. CASE room' = room
  BY <1>1 DEF OpenUndecided
<1>2. ASSUME NEW r \in Room, NEW d \in DayIndex, NEW stake \in StakeInput,
             NEW offset \in OffsetInput, NEW a \in TokenAccount,
             create_duel(r, d, stake, offset, a)
      PROVE  room'[q].winner = DefaultPubkey
  BY <1>2 DEF create_duel, TypeOK, ZeroRoom, OpenUndecided
<1>3. ASSUME NEW r \in Room, NEW p \in Player, NEW a \in TokenAccount,
             NEW v \in Vault, join_duel(r, p, a, v)
      PROVE  room'[q].winner = DefaultPubkey
  BY <1>3 DEF join_duel, TypeOK, RoomRecord, OpenUndecided
<1>4. ASSUME NEW r \in Room, NEW w \in Wallet,
             NEW h \in DuelSolutionHashes \cup {ZERO}, set_duel_word(r, w, h)
      PROVE  room'[q].winner = DefaultPubkey
  BY <1>4 DEF set_duel_word, TypeOK, RoomRecord, OpenUndecided
<1>5. ASSUME NEW r \in Room, NEW keeper \in Wallet,
             NEW c \in TokenAccount, NEW o \in TokenAccount,
             NEW k \in TokenAccount, NEW p \in TokenAccount,
             NEW v \in Vault, settle_duel(r, keeper, c, o, k, p, v)
      PROVE  room'[q].winner = DefaultPubkey
  BY <1>5, SettleVerdict DEF OpenUndecided
<1>6. ASSUME NEW r \in Room, NEW p \in Player, NEW a \in TokenAccount,
             NEW v \in Vault, cancel_duel(r, p, a, v)
      PROVE  room'[q].winner = DefaultPubkey
  BY <1>6 DEF cancel_duel, CanCancel, TypeOK, RoomRecord, OpenUndecided
<1>7. CASE CommitDuelSolution \/ RevealDuelSolution
  BY <1>1, <1>7 DEF CommitDuelSolution, RevealDuelSolution, commit_duel_solution,
                    reveal_duel_solution
<1>8. CASE (PlatformNext /\ UNCHANGED <<now, duelVars>>) \/ Tick
          \/ OpenAnyVault \/ UNCHANGED vars
  BY <1>1, <1>8, OpenEffect DEF Tick, duelVars, vars
<1> QED
  BY <1>2, <1>3, <1>4, <1>5, <1>6, <1>7, <1>8, AccountsTyped
  DEF Next, CreateDuel, JoinDuel, SetDuelWord, SettleDuel, CancelDuel

RaceInv == IInv /\ OpenUndecided

LEMMA RaceInvHolds == Spec => []RaceInv
<1>1. Init => OpenUndecided
  BY DEF Init, OpenUndecided, ZeroRoom
<1>2. IInv /\ OpenUndecided /\ [Next]_vars => OpenUndecided'
  BY UndecidedStep DEF IInv
<1> QED
  BY <1>1, <1>2, IInvHolds, PTL DEF Spec, RaceInv

-----------------------------------------------------------------------------
(* What the accounts say of a race.                                        *)

LEMMA SeatsOf ==
  ASSUME IInv, NEW r \in Room
  PROVE  /\ ~Exists(r) => Seats(r) = {}
         /\ Exists(r) /\ ~Joined(r) => room[r].creator \in Player
                                       /\ Seats(r) = {room[r].creator}
         /\ Joined(r) => /\ room[r].creator \in Player
                         /\ room[r].opponent \in Player
                         /\ room[r].creator # room[r].opponent
                         /\ Seats(r) = {room[r].creator, room[r].opponent}
<1>1. /\ room[r].creator \in Player \cup {DefaultPubkey}
      /\ room[r].opponent \in Player \cup {DefaultPubkey}
  BY DEF IInv, TypeOK, RoomRecord
<1>2. CASE ~Exists(r)
  BY <1>2, PlayersAreSomebody
  DEF Seats, Participant, IInv, BlankRooms, ZeroRoom, Exists, Joined
<1>3. CASE Exists(r) /\ ~Joined(r)
  BY <1>1, <1>3, PlayersAreSomebody DEF Seats, Participant, Exists, Joined
<1>4. CASE Exists(r) /\ Joined(r)
  BY <1>1, <1>4 DEF Seats, Participant, Exists, IInv, SeatTakenInTime
<1>5. Joined(r) => Exists(r)
  BY DEF Joined, IInv, BlankRooms, ZeroRoom
<1> QED
  BY <1>2, <1>3, <1>4, <1>5

\* Whoever has revealed sits in the room and has a mark, the commitment's time.
LEMMA RevealersMarked ==
  ASSUME IInv, NEW r \in Room, NEW p \in Revealers(r)
  PROVE  /\ p \in Player
         /\ p \in Seats(r)
         /\ entry[r][p].commit_hash # ZERO
         /\ Mark(r, p) = entry[r][p].commit_timestamp
         /\ Mark(r, p) \in Nat
<1>1. p \in Player /\ entry[r][p].revealed
  BY DEF Revealers
<1>2. entry[r][p].commit_hash # ZERO
  <2>1. PICK word \in Word, salt \in Salt :
          entry[r][p].commit_hash = CommitHash(word, salt, p)
    BY <1>1 DEF IInv, RevealedProvesWord, CommitHash
  <2>2. entry[r][p].commit_hash \in CommitHashes
    BY <1>1, <2>1 DEF CommitHashes
  <2> QED
    BY <2>2, ZeroIsNoDigest
<1>3. Participant(r, p)
  BY <1>1, <1>2 DEF IInv, CommitTimeline
<1>4. entry[r][p].commit_timestamp \in Nat
  BY <1>1 DEF IInv, TypeOK, EntryRecord
<1> QED
  BY <1>1, <1>2, <1>3, <1>4 DEF Seats, Mark

\* A player without a commitment is unmarked and has not revealed.
LEMMA FreshSeat ==
  ASSUME IInv, NEW r \in Room, ~Joined(r), NEW p \in Player
  PROVE  Mark(r, p) = -1 /\ p \notin Revealers(r)
<1>1. entry[r][p].commit_hash = ZERO
  BY DEF IInv, CommitTimeline
<1> QED
  BY <1>1, RevealersMarked DEF Mark

\* What Duel substitutes for the variables of Race.
LimitMap == [q \in Room |-> room[q].deadline]
SeatsMap == [q \in Room |-> Seats(q)]
MarkMap == [q \in Room |-> [p \in Player |-> Mark(q, p)]]
ShownMap == [q \in Room |-> Revealers(q)]
ResultMap == [q \in Room |-> Result(q)]
ChampionMap == [q \in Room |-> room[q].winner]

\* An instruction on one room moves the race of that room alone.
LEMMA RaceReads ==
  ASSUME NEW q \in Room, room'[q] = room[q], entry'[q] = entry[q]
  PROVE  /\ Seats(q)' = Seats(q)
         /\ Revealers(q)' = Revealers(q)
         /\ Result(q)' = Result(q)
         /\ \A p \in Player : Mark(q, p)' = Mark(q, p)
BY DEF Seats, Participant, Revealers, Result, Mark

LEMMA RaceFrame ==
  ASSUME NEW r \in Room,
         \A q \in Room \ {r} : room'[q] = room[q] /\ entry'[q] = entry[q]
  PROVE  /\ LimitMap' = [LimitMap EXCEPT ![r] = room'[r].deadline]
         /\ SeatsMap' = [SeatsMap EXCEPT ![r] = Seats(r)']
         /\ MarkMap' = [MarkMap EXCEPT ![r] = [p \in Player |-> Mark(r, p)']]
         /\ ShownMap' = [ShownMap EXCEPT ![r] = Revealers(r)']
         /\ ResultMap' = [ResultMap EXCEPT ![r] = Result(r)']
         /\ ChampionMap' = [ChampionMap EXCEPT ![r] = room'[r].winner]
<1>1. \A q \in Room \ {r} : /\ Seats(q)' = Seats(q)
                            /\ Revealers(q)' = Revealers(q)
                            /\ Result(q)' = Result(q)
                            /\ \A p \in Player : Mark(q, p)' = Mark(q, p)
  BY RaceReads
<1>2. LimitMap' = [LimitMap EXCEPT ![r] = room'[r].deadline]
  BY DEF LimitMap
<1>3. SeatsMap' = [SeatsMap EXCEPT ![r] = Seats(r)']
  BY <1>1 DEF SeatsMap
<1>4. MarkMap' = [MarkMap EXCEPT ![r] = [p \in Player |-> Mark(r, p)']]
  <2>1. \A q \in Room \ {r} :
          [p \in Player |-> Mark(q, p)'] = [p \in Player |-> Mark(q, p)]
    BY <1>1
  <2> QED
    BY <2>1 DEF MarkMap
<1>5. ShownMap' = [ShownMap EXCEPT ![r] = Revealers(r)']
  BY <1>1 DEF ShownMap
<1>6. ResultMap' = [ResultMap EXCEPT ![r] = Result(r)']
  BY <1>1 DEF ResultMap
<1>7. ChampionMap' = [ChampionMap EXCEPT ![r] = room'[r].winner]
  BY DEF ChampionMap
<1> QED
  BY <1>2, <1>3, <1>4, <1>5, <1>6, <1>7

\* What stays equal in the room of the instruction stays equal in the race.
LEMMA RaceSame ==
  ASSUME NEW r \in Room
  PROVE  /\ [LimitMap EXCEPT ![r] = room[r].deadline] = LimitMap
         /\ [SeatsMap EXCEPT ![r] = Seats(r)] = SeatsMap
         /\ [MarkMap EXCEPT ![r] = [p \in Player |-> Mark(r, p)]] = MarkMap
         /\ [ShownMap EXCEPT ![r] = Revealers(r)] = ShownMap
         /\ [ResultMap EXCEPT ![r] = Result(r)] = ResultMap
         /\ [ChampionMap EXCEPT ![r] = room[r].winner] = ChampionMap
BY DEF LimitMap, SeatsMap, MarkMap, ShownMap, ResultMap, ChampionMap

LEMMA RaceInitMaps == Init => Verdict!RaceInit
<1> SUFFICES ASSUME Init PROVE Verdict!RaceInit
  OBVIOUS
<1>1. IInv
  BY IInvInit
<1>2. \A r \in Room : /\ room[r] = ZeroRoom
                      /\ ~Exists(r) /\ ~Joined(r)
  BY DEF Init, Exists, Joined, ZeroRoom
<1>3. \A r \in Room : Seats(r) = {} /\ Revealers(r) = {}
  BY <1>1, <1>2, SeatsOf, FreshSeat DEF Revealers
<1>4. \A r \in Room, p \in Player : Mark(r, p) = -1
  BY <1>1, <1>2, FreshSeat
<1>5. \A r \in Room : /\ room[r].deadline = 0
                      /\ room[r].winner = DefaultPubkey
                      /\ Result(r) = "open"
  BY <1>2 DEF ZeroRoom, Result
<1> QED
  BY <1>3, <1>4, <1>5 DEF Init, Verdict!RaceInit, Verdict!NoMark

-----------------------------------------------------------------------------
(* Each instruction is a step of the race or leaves it alone.              *)

LEMMA CreateOpens ==
  ASSUME RaceInv, NEW r \in Room, NEW d \in DayIndex, NEW stake \in StakeInput,
         NEW offset \in OffsetInput, NEW a \in TokenAccount,
         create_duel(r, d, stake, offset, a)
  PROVE  Verdict!OpenRace(r)
<1> IInv /\ TypeOK
  BY DEF RaceInv, IInv
<1>1. /\ ~Exists(r) /\ room[r] = ZeroRoom /\ ~Joined(r)
      /\ \A p \in Player : entry[r][p] = ZeroEntry
  <2>1. ~Exists(r)
    BY DEF create_duel
  <2>2. room[r] = ZeroRoom /\ \A p \in Player : entry[r][p] = ZeroEntry
    BY <2>1 DEF IInv, BlankRooms
  <2>3. ~Joined(r)
    BY <2>2 DEF Joined, ZeroRoom
  <2> QED
    BY <2>1, <2>2, <2>3
<1>2. /\ room'[r].deadline = now + offset
      /\ room'[r].status = "Active"
      /\ room'[r].winner = DefaultPubkey
      /\ room'[r].opponent = DefaultPubkey
      /\ room'[r].creator \in Player
      /\ \A q \in Room \ {r} : room'[q] = room[q] /\ entry'[q] = entry[q]
      /\ now' = now
  <2>1. /\ room'[r].deadline = now + offset
        /\ room'[r].winner = DefaultPubkey
        /\ now' = now
    BY DEF create_duel, TypeOK, ZeroRoom
  <2> QED
    BY <2>1, CreateEffect
<1>3. Seats(r) = {}
  BY <1>1, SeatsOf
<1>4. Seats(r)' = {room'[r].creator}
  BY <1>2, PlayersAreSomebody DEF Seats, Participant
<1>5. \A p \in Player : entry'[r][p].commit_hash = ZERO /\ ~entry'[r][p].revealed
  BY <1>1, CreateEffect, StartedEntryFresh, RoomKeys DEF ZeroEntry
<1>6. Revealers(r)' = Revealers(r)
  BY <1>1, <1>5, FreshSeat DEF Revealers
<1>7. [p \in Player |-> Mark(r, p)'] = [p \in Player |-> Mark(r, p)]
  BY <1>1, <1>5, FreshSeat DEF Mark
<1>8. Result(r)' = Result(r) /\ room'[r].winner = room[r].winner
  BY <1>1, <1>2 DEF Result, ZeroRoom
<1>9. /\ LimitMap' = [LimitMap EXCEPT ![r] = room'[r].deadline]
      /\ SeatsMap' = [SeatsMap EXCEPT ![r] = {room'[r].creator}]
      /\ MarkMap' = MarkMap
      /\ ShownMap' = ShownMap
      /\ ResultMap' = ResultMap
      /\ ChampionMap' = ChampionMap
  BY <1>2, <1>4, <1>6, <1>7, <1>8, RaceFrame, RaceSame
<1>10. LimitMap'[r] = room'[r].deadline /\ SeatsMap[r] = {}
  BY <1>3 DEF LimitMap, SeatsMap
<1>11. room'[r].deadline >= now
  BY <1>2, DuelAssumption DEF TypeOK
<1> QED
  BY <1>2, <1>9, <1>10, <1>11
  DEF Verdict!OpenRace, LimitMap, SeatsMap, MarkMap, ShownMap, ResultMap, ChampionMap

LEMMA JoinPairs ==
  ASSUME RaceInv, NEW r \in Room, NEW p \in Player, NEW a \in TokenAccount,
         NEW v \in Vault, join_duel(r, p, a, v)
  PROVE  Verdict!Pair(r)
<1> IInv /\ TypeOK
  BY DEF RaceInv, IInv
<1>1. /\ Exists(r) /\ ~Joined(r)
      /\ room[r].status = "Active"
      /\ now < room[r].deadline
      /\ p # room[r].creator
      /\ now' = now
  BY DEF join_duel, Active, SeatFree, JoinWindow
<1>2. room[r].creator \in Player /\ Seats(r) = {room[r].creator}
  BY <1>1, SeatsOf
<1>3. /\ room'[r].creator = room[r].creator
      /\ room'[r].opponent = p
      /\ room'[r].status = room[r].status
      /\ room'[r].deadline = room[r].deadline
      /\ room'[r].winner = room[r].winner
      /\ \A q \in Room \ {r} : room'[q] = room[q] /\ entry'[q] = entry[q]
  BY DEF join_duel, TypeOK, RoomRecord
<1>4. Seats(r)' = {room[r].creator, p}
  BY <1>2, <1>3 DEF Seats, Participant
<1>5. /\ entry'[r][p].commit_hash = ZERO /\ ~entry'[r][p].revealed
      /\ \A s \in Player \ {p} : entry'[r][s] = entry[r][s]
  BY JoinEffect, StartedEntryFresh
<1>6. Revealers(r)' = Revealers(r)
  BY <1>1, <1>5, FreshSeat DEF Revealers
<1>7. [s \in Player |-> Mark(r, s)'] = [s \in Player |-> Mark(r, s)]
  BY <1>1, <1>5, FreshSeat DEF Mark
<1>8. Result(r)' = Result(r) /\ Result(r) = "open"
  BY <1>1, <1>3 DEF Result
<1>9. /\ LimitMap' = LimitMap
      /\ SeatsMap' = [SeatsMap EXCEPT ![r] = {room[r].creator, p}]
      /\ MarkMap' = MarkMap
      /\ ShownMap' = ShownMap
      /\ ResultMap' = ResultMap
      /\ ChampionMap' = ChampionMap
  BY <1>3, <1>4, <1>6, <1>7, <1>8, RaceFrame, RaceSame
<1>10. /\ LimitMap[r] = room[r].deadline
       /\ SeatsMap[r] = {room[r].creator}
       /\ ResultMap[r] = "open"
  BY <1>2, <1>8 DEF LimitMap, SeatsMap, ResultMap
<1> QED
  BY <1>1, <1>2, <1>9, <1>10
  DEF Verdict!Pair, LimitMap, SeatsMap, MarkMap, ShownMap, ResultMap, ChampionMap

LEMMA CommitMarks ==
  ASSUME RaceInv, NEW r \in Room, NEW p \in Player,
         NEW h \in CommitHashes \cup {ZERO}, commit_duel_solution(r, p, h)
  PROVE  Verdict!MarkTime(r, p) \/ UNCHANGED Verdict!raceVars
<1> IInv /\ TypeOK
  BY DEF RaceInv, IInv
<1>1. /\ Joined(r) /\ room[r].status = "Active" /\ Participant(r, p)
      /\ Mark(r, p) = -1
      /\ now' = now /\ room' = room
  BY DEF commit_duel_solution, ReadyToCommit, Active, Uncommitted, Mark
<1>2. /\ entry'[r][p].commit_hash = h
      /\ entry'[r][p].commit_timestamp = now
      /\ entry'[r][p].revealed = entry[r][p].revealed
      /\ \A s \in Player \ {p} : entry'[r][s] = entry[r][s]
      /\ \A q \in Room \ {r} : entry'[q] = entry[q]
  BY CommitEffect
<1>3. /\ Seats(r)' = Seats(r)
      /\ Revealers(r)' = Revealers(r)
      /\ Result(r)' = Result(r)
  BY <1>1, <1>2 DEF Seats, Participant, Revealers, Result
<1>4. Mark(r, p)' = IF h = ZERO THEN -1 ELSE now
  BY <1>2 DEF Mark
<1>5. \A s \in Player \ {p} : Mark(r, s)' = Mark(r, s)
  BY <1>2 DEF Mark
<1>6. /\ LimitMap' = LimitMap
      /\ SeatsMap' = SeatsMap
      /\ MarkMap' = [MarkMap EXCEPT ![r] = [s \in Player |-> Mark(r, s)']]
      /\ ShownMap' = ShownMap
      /\ ResultMap' = ResultMap
      /\ ChampionMap' = ChampionMap
  BY <1>1, <1>2, <1>3, RaceFrame, RaceSame
<1>7. CASE h = ZERO
  <2>1. [s \in Player |-> Mark(r, s)'] = [s \in Player |-> Mark(r, s)]
    BY <1>1, <1>4, <1>5, <1>7
  <2>2. MarkMap' = MarkMap
    BY <1>6, <2>1, RaceSame
  <2> QED
    BY <1>1, <1>6, <2>2
    DEF Verdict!raceVars, LimitMap, SeatsMap, MarkMap, ShownMap, ResultMap, ChampionMap
<1>8. CASE h # ZERO
  <2>1. MarkMap' = [MarkMap EXCEPT ![r][p] = now]
    <3>1. [s \in Player |-> Mark(r, s)'] = [MarkMap[r] EXCEPT ![p] = now]
      BY <1>4, <1>5, <1>8 DEF MarkMap
    <3> QED
      BY <1>6, <3>1
  <2>2. /\ room[r].creator \in Player /\ room[r].opponent \in Player
        /\ room[r].creator # room[r].opponent
        /\ Seats(r) = {room[r].creator, room[r].opponent}
    BY <1>1, SeatsOf
  <2>3. p \in Seats(r) /\ Result(r) = "open"
    BY <1>1 DEF Seats, Result
  <2>4. /\ SeatsMap[r] = Seats(r)
        /\ MarkMap[r][p] = -1
        /\ ResultMap[r] = "open"
    BY <1>1, <2>3 DEF SeatsMap, MarkMap, ResultMap
  <2>5. Verdict!Paired(r)
    BY <2>2, <2>4 DEF Verdict!Paired, SeatsMap
  <2> QED
    BY <1>1, <1>6, <2>1, <2>3, <2>4, <2>5
    DEF Verdict!MarkTime, Verdict!NoMark, LimitMap, SeatsMap, MarkMap, ShownMap,
        ResultMap, ChampionMap
<1> QED
  BY <1>7, <1>8

LEMMA RevealShows ==
  ASSUME RaceInv, NEW r \in Room, NEW p \in Player, NEW word \in Word,
         NEW salt \in Salt, reveal_duel_solution(r, p, word, salt)
  PROVE  Verdict!Show(r, p)
<1> IInv /\ TypeOK
  BY DEF RaceInv, IInv
<1>1. /\ Participant(r, p) /\ ~entry[r][p].revealed
      /\ entry[r][p].commit_hash # ZERO
      /\ now' = now /\ room' = room
  BY DEF reveal_duel_solution
<1>2. /\ entry'[r][p].commit_hash = entry[r][p].commit_hash
      /\ entry'[r][p].commit_timestamp = entry[r][p].commit_timestamp
      /\ entry'[r][p].revealed
      /\ \A s \in Player \ {p} : entry'[r][s] = entry[r][s]
      /\ \A q \in Room \ {r} : entry'[q] = entry[q]
  BY RevealEffect
<1>3. Revealers(r)' = Revealers(r) \cup {p}
  BY <1>2 DEF Revealers
<1>4. /\ Seats(r)' = Seats(r)
      /\ Result(r)' = Result(r)
      /\ [s \in Player |-> Mark(r, s)'] = [s \in Player |-> Mark(r, s)]
  BY <1>1, <1>2 DEF Seats, Participant, Result, Mark
<1>5. /\ LimitMap' = LimitMap
      /\ SeatsMap' = SeatsMap
      /\ MarkMap' = MarkMap
      /\ ShownMap' = [ShownMap EXCEPT ![r] = Revealers(r) \cup {p}]
      /\ ResultMap' = ResultMap
      /\ ChampionMap' = ChampionMap
  BY <1>1, <1>2, <1>3, <1>4, RaceFrame, RaceSame
<1>6. /\ SeatsMap[r] = Seats(r) /\ ShownMap[r] = Revealers(r)
      /\ MarkMap[r][p] = Mark(r, p)
  BY DEF SeatsMap, ShownMap, MarkMap
<1>7. p \in SeatsMap[r] \ ShownMap[r]
  BY <1>1, <1>6 DEF Seats, Revealers
<1>8. MarkMap[r][p] # -1
  <2>1. entry[r][p].commit_timestamp \in Nat
    BY DEF TypeOK, EntryRecord
  <2> QED
    BY <1>1, <1>6, <2>1 DEF Mark
<1>9. ShownMap' = [ShownMap EXCEPT ![r] = ShownMap[r] \cup {p}]
  BY <1>5, <1>6
<1> QED
  BY <1>1, <1>5, <1>7, <1>8, <1>9
  DEF Verdict!Show, Verdict!NoMark, LimitMap, SeatsMap, MarkMap, ShownMap,
      ResultMap, ChampionMap

LEMMA EarliestReads ==
  ASSUME IInv, NEW r \in Room
  PROVE  Verdict!Earliest(r) =
           {p \in Revealers(r) : \A q \in Revealers(r) :
              entry[r][p].commit_timestamp <= entry[r][q].commit_timestamp}
<1>1. \A p \in Revealers(r) : p \in Player /\ Mark(r, p) = entry[r][p].commit_timestamp
  BY RevealersMarked
<1>2. Verdict!Earliest(r) =
        {p \in Revealers(r) : \A q \in Revealers(r) : Mark(r, p) <= Mark(r, q)}
  BY <1>1 DEF Verdict!Earliest
<1> QED
  BY <1>1, <1>2

LEMMA SettleJudges ==
  ASSUME RaceInv, NEW r \in Room, NEW keeper \in Wallet,
         NEW c \in TokenAccount, NEW o \in TokenAccount,
         NEW k \in TokenAccount, NEW p \in TokenAccount,
         NEW v \in Vault, settle_duel(r, keeper, c, o, k, p, v)
  PROVE  Verdict!Judge(r)
<1> IInv /\ TypeOK
  BY DEF RaceInv, IInv
<1> DEFINE cr == room[r].creator
           op == room[r].opponent
           ct == entry[r][cr].commit_timestamp
           ot == entry[r][op].commit_timestamp
           Judged(s, w) == Verdict!Declare(r, s, w)
<1>1. /\ Active(r) /\ Joined(r) /\ Due(r) /\ now' = now /\ entry' = entry
      /\ \A q \in Room \ {r} : room'[q] = room[q]
  BY SettleVerdict DEF settle_duel
<1>2. /\ cr \in Player /\ op \in Player /\ cr # op
      /\ Seats(r) = {cr, op}
  BY <1>1, SeatsOf
<1>3. /\ room'[r].deadline = room[r].deadline
      /\ room'[r].creator = cr /\ room'[r].opponent = op
  BY SettleEffect DEF IInv
<1>4. Seats(r)' = Seats(r)
  BY <1>3 DEF Seats, Participant
<1>5. Revealers(r)' = Revealers(r)
  BY <1>1 DEF Revealers
<1>6. [s \in Player |-> Mark(r, s)'] = [s \in Player |-> Mark(r, s)]
  BY <1>1 DEF Mark
<1>7. /\ LimitMap' = LimitMap
      /\ SeatsMap' = SeatsMap
      /\ MarkMap' = MarkMap
      /\ ShownMap' = ShownMap
      /\ ResultMap' = [ResultMap EXCEPT ![r] = Result(r)']
      /\ ChampionMap' = [ChampionMap EXCEPT ![r] = room'[r].winner]
  BY <1>1, <1>3, <1>4, <1>5, <1>6, RaceFrame, RaceSame
<1>8. /\ SeatsMap[r] = {cr, op} /\ ShownMap[r] = Revealers(r)
      /\ LimitMap[r] = room[r].deadline /\ ResultMap[r] = "open"
  BY <1>1, <1>2 DEF SeatsMap, ShownMap, LimitMap, ResultMap, Result, Active
<1>9. /\ Revealers(r) \subseteq {cr, op}
      /\ cr \in Revealers(r) <=> CreatorEntry(r).revealed
      /\ op \in Revealers(r) <=> OpponentEntry(r).revealed
  BY <1>2, RevealersMarked DEF Revealers, CreatorEntry, OpponentEntry
<1>10. ct \in Nat /\ ot \in Nat
  BY <1>2 DEF TypeOK, EntryRecord
<1>11. Verdict!Paired(r)
  BY <1>2, <1>8 DEF Verdict!Paired, SeatsMap
<1>12. SeatsMap[r] \subseteq ShownMap[r] \/ now >= LimitMap[r]
  BY <1>1, <1>8, <1>9 DEF Due, BothRevealed
<1>13. Verdict!Earliest(r) =
         {s \in Revealers(r) : \A q \in Revealers(r) :
            entry[r][s].commit_timestamp <= entry[r][q].commit_timestamp}
  BY EarliestReads
<1>14. ASSUME NEW s, NEW w, Result(r)' = s, room'[r].winner = w
       PROVE  Judged(s, w)
  BY <1>7, <1>14 DEF Verdict!Declare, ResultMap, ChampionMap
<1> DEFINE Decided == \/ ShownMap[r] = {} /\ Judged("refunded", DefaultPubkey)
                      \/ \E s \in Player : /\ Verdict!Earliest(r) = {s}
                                           /\ Judged("won", s)
                      \/ /\ Verdict!Earliest(r) = SeatsMap[r]
                         /\ Judged("tied", DefaultPubkey)
<1>15. Decided
  <2> HIDE DEF Judged
  <2>1. CASE Tied(r) /\ room'[r].status = "Settled" /\ room'[r].winner = DefaultPubkey
    <3>1. Revealers(r) = {cr, op} /\ ct = ot
      BY <1>9, <2>1 DEF Tied, BothRevealed, CreatorEntry, OpponentEntry
    <3>2. Verdict!Earliest(r) = {cr, op}
      BY <1>10, <1>13, <3>1
    <3>3. Judged("tied", DefaultPubkey)
      BY <1>14, <2>1 DEF Result
    <3> QED
      BY <1>8, <3>2, <3>3
  <2>2. CASE CreatorWins(r) /\ room'[r].status = "Settled" /\ room'[r].winner = cr
    <3>1. /\ cr \in Revealers(r)
          /\ op \in Revealers(r) => ct < ot
      BY <1>9, <2>2 DEF CreatorWins, CreatorEntry, OpponentEntry
    <3>2. Verdict!Earliest(r) = {cr}
      BY <1>9, <1>10, <1>13, <3>1
    <3>3. Judged("won", cr)
      BY <1>2, <1>14, <2>2, PlayersAreSomebody DEF Result
    <3> QED
      BY <1>2, <3>2, <3>3
  <2>3. CASE OpponentWins(r) /\ room'[r].status = "Settled" /\ room'[r].winner = op
    <3>1. /\ op \in Revealers(r)
          /\ cr \in Revealers(r) => ot < ct
      BY <1>9, <1>10, <2>3 DEF OpponentWins, CreatorEntry, OpponentEntry
    <3>2. Verdict!Earliest(r) = {op}
      BY <1>9, <1>10, <1>13, <3>1
    <3>3. Judged("won", op)
      BY <1>2, <1>14, <2>3, PlayersAreSomebody DEF Result
    <3> QED
      BY <1>2, <3>2, <3>3
  <2>4. CASE NobodyRevealed(r) /\ room'[r].status = "Refunded"
             /\ room'[r].winner = DefaultPubkey
    <3>1. ShownMap[r] = {}
      BY <1>8, <1>9, <2>4 DEF NobodyRevealed
    <3>2. Judged("refunded", DefaultPubkey)
      BY <1>14, <2>4 DEF Result
    <3> QED
      BY <3>1, <3>2
  <2> QED
    BY <2>1, <2>2, <2>3, <2>4, SettleVerdict
<1> QED
  BY <1>1, <1>7, <1>8, <1>11, <1>12, <1>15
  DEF Verdict!Judge, LimitMap, SeatsMap, MarkMap, ShownMap, ResultMap

LEMMA CancelCallsOff ==
  ASSUME RaceInv, NEW r \in Room, NEW p \in Player, NEW a \in TokenAccount,
         NEW v \in Vault, cancel_duel(r, p, a, v)
  PROVE  Verdict!CallOff(r)
<1> IInv /\ TypeOK
  BY DEF RaceInv, IInv
<1>1. /\ Active(r) /\ Exists(r) /\ ~Joined(r) /\ now' = now /\ entry' = entry
      /\ room[r].winner = DefaultPubkey
  BY DEF cancel_duel, CanCancel, Cancellable, Active, RaceInv, OpenUndecided
<1>2. room[r].creator \in Player /\ Seats(r) = {room[r].creator}
  BY <1>1, SeatsOf
<1>3. /\ room'[r] = [room[r] EXCEPT !.status = "Refunded"]
      /\ \A q \in Room \ {r} : room'[q] = room[q]
  BY DEF cancel_duel, CanCancel, TypeOK
<1>4. /\ room'[r].deadline = room[r].deadline
      /\ room'[r].creator = room[r].creator
      /\ room'[r].opponent = room[r].opponent
      /\ room'[r].winner = room[r].winner
      /\ room'[r].status = "Refunded"
  BY <1>3 DEF TypeOK, RoomRecord
<1>5. /\ Seats(r)' = Seats(r)
      /\ Revealers(r)' = Revealers(r)
      /\ [s \in Player |-> Mark(r, s)'] = [s \in Player |-> Mark(r, s)]
      /\ Result(r)' = "refunded"
  BY <1>1, <1>4 DEF Seats, Participant, Revealers, Mark, Result
<1>6. /\ LimitMap' = LimitMap
      /\ SeatsMap' = SeatsMap
      /\ MarkMap' = MarkMap
      /\ ShownMap' = ShownMap
      /\ ResultMap' = [ResultMap EXCEPT ![r] = "refunded"]
      /\ ChampionMap' = [ChampionMap EXCEPT ![r] = DefaultPubkey]
  <2>1. room'[r].winner = DefaultPubkey
    BY <1>1, <1>4
  <2>2. \A q \in Room \ {r} : room'[q] = room[q] /\ entry'[q] = entry[q]
    BY <1>1, <1>3
  <2>3. /\ LimitMap' = [LimitMap EXCEPT ![r] = room[r].deadline]
        /\ SeatsMap' = [SeatsMap EXCEPT ![r] = Seats(r)]
        /\ MarkMap' = [MarkMap EXCEPT ![r] = [s \in Player |-> Mark(r, s)]]
        /\ ShownMap' = [ShownMap EXCEPT ![r] = Revealers(r)]
        /\ ResultMap' = [ResultMap EXCEPT ![r] = "refunded"]
        /\ ChampionMap' = [ChampionMap EXCEPT ![r] = DefaultPubkey]
    BY <1>4, <1>5, <2>1, <2>2, RaceFrame
  <2> QED
    BY <2>3, RaceSame
<1>7. SeatsMap[r] = {room[r].creator} /\ ResultMap[r] = "open"
  BY <1>1, <1>2 DEF SeatsMap, ResultMap, Result, Active
<1> QED
  BY <1>1, <1>2, <1>6, <1>7
  DEF Verdict!CallOff, Verdict!Declare, LimitMap, SeatsMap, MarkMap, ShownMap,
      ResultMap, ChampionMap

LEMMA WordLeavesRace ==
  ASSUME RaceInv, NEW r \in Room, NEW w \in Wallet,
         NEW h \in DuelSolutionHashes \cup {ZERO}, set_duel_word(r, w, h)
  PROVE  UNCHANGED Verdict!raceVars
<1> IInv /\ TypeOK
  BY DEF RaceInv, IInv
<1>1. /\ now' = now /\ entry' = entry
      /\ \A q \in Room \ {r} : room'[q] = room[q] /\ entry'[q] = entry[q]
  BY SetWordEffect DEF set_duel_word
<1>2. /\ room'[r].deadline = room[r].deadline
      /\ room'[r].creator = room[r].creator
      /\ room'[r].opponent = room[r].opponent
      /\ room'[r].winner = room[r].winner
      /\ room'[r].status = room[r].status
  BY DEF set_duel_word, TypeOK, RoomRecord
<1>3. /\ Seats(r)' = Seats(r)
      /\ Revealers(r)' = Revealers(r)
      /\ [s \in Player |-> Mark(r, s)'] = [s \in Player |-> Mark(r, s)]
      /\ Result(r)' = Result(r)
  BY <1>1, <1>2 DEF Seats, Participant, Revealers, Mark, Result
<1>4. /\ LimitMap' = LimitMap
      /\ SeatsMap' = SeatsMap
      /\ MarkMap' = MarkMap
      /\ ShownMap' = ShownMap
      /\ ResultMap' = ResultMap
      /\ ChampionMap' = ChampionMap
  <2>1. /\ LimitMap' = [LimitMap EXCEPT ![r] = room[r].deadline]
        /\ SeatsMap' = [SeatsMap EXCEPT ![r] = Seats(r)]
        /\ MarkMap' = [MarkMap EXCEPT ![r] = [s \in Player |-> Mark(r, s)]]
        /\ ShownMap' = [ShownMap EXCEPT ![r] = Revealers(r)]
        /\ ResultMap' = [ResultMap EXCEPT ![r] = Result(r)]
        /\ ChampionMap' = [ChampionMap EXCEPT ![r] = room[r].winner]
    BY <1>1, <1>2, <1>3, RaceFrame
  <2> QED
    BY <2>1, RaceSame
<1> QED
  BY <1>1, <1>4
  DEF Verdict!raceVars, LimitMap, SeatsMap, MarkMap, ShownMap, ResultMap, ChampionMap

LEMMA QuietStep ==
  ASSUME room' = room, entry' = entry
  PROVE  /\ LimitMap' = LimitMap /\ SeatsMap' = SeatsMap /\ MarkMap' = MarkMap
         /\ ShownMap' = ShownMap /\ ResultMap' = ResultMap
         /\ ChampionMap' = ChampionMap
<1>1. LimitMap' = LimitMap /\ ChampionMap' = ChampionMap
  BY DEF LimitMap, ChampionMap
<1>2. SeatsMap' = SeatsMap
  BY DEF SeatsMap, Seats, Participant
<1>3. MarkMap' = MarkMap
  BY DEF MarkMap, Mark
<1>4. ShownMap' = ShownMap
  BY DEF ShownMap, Revealers
<1>5. ResultMap' = ResultMap
  BY DEF ResultMap, Result
<1> QED
  BY <1>1, <1>2, <1>3, <1>4, <1>5

LEMMA RaceStepMaps == RaceInv /\ [Next]_vars => [Verdict!RaceNext]_(Verdict!raceVars)
<1> SUFFICES ASSUME RaceInv, [Next]_vars
             PROVE  Verdict!RaceNext \/ UNCHANGED Verdict!raceVars
  OBVIOUS
<1> DEFINE Goal == Verdict!RaceNext \/ UNCHANGED Verdict!raceVars
<1> USE DEF Verdict!RaceNext
<1>1. CASE UNCHANGED <<now, room, entry>>
  BY <1>1, QuietStep
  DEF Verdict!raceVars, LimitMap, SeatsMap, MarkMap, ShownMap, ResultMap, ChampionMap
<1>2. CASE CreateDuel
  BY <1>2, CreateOpens DEF CreateDuel
<1>3. CASE JoinDuel
  BY <1>3, JoinPairs DEF JoinDuel
<1>4. CASE SetDuelWord
  BY <1>4, WordLeavesRace DEF SetDuelWord
<1>5. CASE CommitDuelSolution
  BY <1>5, CommitMarks DEF CommitDuelSolution
<1>6. CASE RevealDuelSolution
  BY <1>6, RevealShows DEF RevealDuelSolution
<1>7. CASE \E r \in Room : SettleDuel(r)
  BY <1>7, SettleJudges, AccountsTyped DEF SettleDuel
<1>8. CASE CancelDuel
  BY <1>8, CancelCallsOff DEF CancelDuel
<1>9. CASE Tick
  <2>1. now' > now /\ room' = room /\ entry' = entry
    BY <1>9, DuelAssumption DEF Tick, duelVars, RaceInv, IInv, TypeOK
  <2>2. Verdict!PassTime
    BY <2>1, QuietStep
    DEF Verdict!PassTime, LimitMap, SeatsMap, MarkMap, ShownMap, ResultMap, ChampionMap
  <2> QED
    BY <2>2
<1>10. CASE PlatformNext /\ UNCHANGED <<now, duelVars>>
  BY <1>1, <1>10 DEF duelVars
<1>11. CASE OpenAnyVault \/ UNCHANGED vars
  BY <1>1, <1>11, OpenEffect DEF vars
<1> QED
  BY <1>2, <1>3, <1>4, <1>5, <1>6, <1>7, <1>8, <1>9, <1>10, <1>11 DEF Next

(***************************************************************************)
(* Whatever the players, the authority, the keepers and the clock do, a    *)
(* room is decided only as the abstract race allows: once, by the first    *)
(* non-zero commitment of each player and by the reveals accepted before   *)
(* the settlement.                                                         *)
(***************************************************************************)
THEOREM DuelImplementsRace == Spec => ImplementsRace
<1>1. RaceInv /\ [Next]_vars => [Verdict!RaceNext]_(Verdict!raceVars)
  BY RaceStepMaps
<1> QED
  BY <1>1, RaceInitMaps, RaceInvHolds, PTL DEF Spec, ImplementsRace, Verdict!RaceSpec

-----------------------------------------------------------------------------
(* What a step does to the entries of a room both players sit in.          *)

\* No commitment is younger than the clock.
CommitsPast == \A r \in Room, p \in Player : entry[r][p].commit_timestamp <= now

LEMMA CommitsPastStep == TypeOK /\ CommitsPast /\ [Next]_vars => CommitsPast'
<1> SUFFICES ASSUME TypeOK, CommitsPast, [Next]_vars,
                    NEW q \in Room, NEW s \in Player
             PROVE  entry'[q][s].commit_timestamp <= now'
  BY DEF CommitsPast
<1>t. now \in Nat /\ entry[q][s].commit_timestamp <= now
  BY DuelAssumption DEF TypeOK, CommitsPast
<1>e. entry[q][s].commit_timestamp \in Nat
  BY DEF TypeOK, EntryRecord
<1>1. CASE entry' = entry /\ now' \in {now, now + 1}
  BY <1>t, <1>e, <1>1
<1>2. ASSUME NEW r \in Room, NEW p \in Player, now' = now,
             entry' = [entry EXCEPT ![r][p] = StartedEntry(p)]
      PROVE  entry'[q][s].commit_timestamp <= now'
  <2>1. entry'[q][s] \in {entry[q][s], StartedEntry(p)}
    BY <1>2 DEF TypeOK
  <2> QED
    BY <1>t, <1>2, <2>1 DEF StartedEntry
<1>3. CASE CreateDuel \/ JoinDuel
  <2>1. PICK r \in Room, p \in Player :
          now' = now /\ entry' = [entry EXCEPT ![r][p] = StartedEntry(p)]
    <3>1. CASE CreateDuel
      <4>1. PICK r \in Room, d \in DayIndex, stake \in StakeInput,
                 offset \in OffsetInput, a \in TokenAccount :
              create_duel(r, d, stake, offset, a)
        BY <3>1 DEF CreateDuel
      <4>2. now' = now /\ entry' = [entry EXCEPT ![r][r[1]] = StartedEntry(r[1])]
        BY <4>1 DEF create_duel
      <4>3. r[1] \in Player
        BY RoomKeys
      <4> QED
        BY <4>2, <4>3
    <3>2. CASE JoinDuel
      BY <3>2 DEF JoinDuel, join_duel
    <3> QED
      BY <1>3, <3>1, <3>2
  <2> QED
    BY <1>2, <2>1
<1>4. ASSUME NEW r \in Room, NEW p \in Player,
             NEW h \in CommitHashes \cup {ZERO}, commit_duel_solution(r, p, h)
      PROVE  entry'[q][s].commit_timestamp <= now'
  <2>1. now' = now
    BY <1>4 DEF commit_duel_solution
  <2>2. CASE q = r /\ s = p
    BY <1>t, <1>4, <2>1, <2>2, CommitEffect
  <2>3. CASE ~(q = r /\ s = p)
    <3>1. entry'[q][s] = entry[q][s]
      BY <1>4, <2>3, CommitEffect
    <3> QED
      BY <1>t, <2>1, <3>1
  <2> QED
    BY <2>2, <2>3
<1>5. ASSUME NEW r \in Room, NEW p \in Player, NEW word \in Word,
             NEW salt \in Salt, reveal_duel_solution(r, p, word, salt)
      PROVE  entry'[q][s].commit_timestamp <= now'
  <2>1. now' = now
    BY <1>5 DEF reveal_duel_solution
  <2>2. entry'[q][s].commit_timestamp = entry[q][s].commit_timestamp
    <3>1. CASE q = r /\ s = p
      BY <1>5, <3>1, RevealEffect
    <3>2. CASE ~(q = r /\ s = p)
      <4>1. entry'[q][s] = entry[q][s]
        BY <1>5, <3>2, RevealEffect
      <4> QED
        BY <4>1
    <3> QED
      BY <3>1, <3>2
  <2> QED
    BY <1>t, <2>1, <2>2
<1>6. CASE SetDuelWord \/ (\E r \in Room : SettleDuel(r)) \/ CancelDuel
  <2>1. CASE SetDuelWord
    BY <1>1, <2>1 DEF SetDuelWord, set_duel_word
  <2>2. CASE \E r \in Room : SettleDuel(r)
    BY <1>1, <2>2 DEF SettleDuel, settle_duel
  <2>3. CASE CancelDuel
    BY <1>1, <2>3 DEF CancelDuel, cancel_duel, CanCancel
  <2> QED
    BY <1>6, <2>1, <2>2, <2>3
<1>7. CASE (PlatformNext /\ UNCHANGED <<now, duelVars>>) \/ Tick
          \/ OpenAnyVault \/ UNCHANGED vars
  BY <1>1, <1>7, OpenEffect DEF Tick, duelVars, vars
<1> QED
  BY <1>3, <1>4, <1>5, <1>6, <1>7 DEF Next, CommitDuelSolution, RevealDuelSolution

\* In a room with both seats taken only a commitment in time moves a mark.
LEMMA MarkMoves ==
  ASSUME IInv, [Next]_vars, NEW q \in Room, NEW s \in Player, Joined(q)
  PROVE  \/ /\ entry'[q][s].commit_timestamp = entry[q][s].commit_timestamp
            /\ entry'[q][s].commit_hash = entry[q][s].commit_hash
         \/ /\ entry'[q][s].commit_timestamp = now
            /\ room[q].status = "Active"
            /\ room' = room
<1> DEFINE Goal == \/ /\ entry'[q][s].commit_timestamp = entry[q][s].commit_timestamp
                      /\ entry'[q][s].commit_hash = entry[q][s].commit_hash
                   \/ /\ entry'[q][s].commit_timestamp = now
                      /\ room[q].status = "Active"
                      /\ room' = room
<1> SUFFICES Goal
  OBVIOUS
<1> TypeOK
  BY DEF IInv
<1>1. CASE entry' = entry
  BY <1>1
<1>2. ASSUME NEW r \in Room, NEW d \in DayIndex, NEW stake \in StakeInput,
             NEW offset \in OffsetInput, NEW a \in TokenAccount,
             create_duel(r, d, stake, offset, a)
      PROVE  Goal
  <2>1. q # r
    BY <1>2 DEF create_duel, Joined, IInv, BlankRooms, ZeroRoom
  <2> QED
    BY <1>2, <2>1, CreateEffect
<1>3. ASSUME NEW r \in Room, NEW p \in Player, NEW a \in TokenAccount,
             NEW v \in Vault, join_duel(r, p, a, v)
      PROVE  Goal
  <2>1. q # r
    BY <1>3 DEF join_duel, SeatFree
  <2> QED
    BY <1>3, <2>1, JoinEffect
<1>4. ASSUME NEW r \in Room, NEW p \in Player,
             NEW h \in CommitHashes \cup {ZERO}, commit_duel_solution(r, p, h)
      PROVE  Goal
  <2>1. CASE q = r /\ s = p
    <3>1. room[r].status = "Active" /\ room' = room
      BY <1>4 DEF commit_duel_solution, ReadyToCommit, Active
    <3> QED
      BY <1>4, <2>1, <3>1, CommitEffect
  <2>2. CASE ~(q = r /\ s = p)
    <3>1. entry'[q][s] = entry[q][s]
      BY <1>4, <2>2, CommitEffect
    <3> QED
      BY <3>1
  <2> QED
    BY <2>1, <2>2
<1>5. ASSUME NEW r \in Room, NEW p \in Player, NEW word \in Word,
             NEW salt \in Salt, reveal_duel_solution(r, p, word, salt)
      PROVE  Goal
  <2>1. CASE q = r /\ s = p
    BY <1>5, <2>1, RevealEffect
  <2>2. CASE ~(q = r /\ s = p)
    <3>1. entry'[q][s] = entry[q][s]
      BY <1>5, <2>2, RevealEffect
    <3> QED
      BY <3>1
  <2> QED
    BY <2>1, <2>2
<1>6. CASE SetDuelWord \/ (\E r \in Room : SettleDuel(r)) \/ CancelDuel
  <2>1. CASE SetDuelWord
    BY <1>1, <2>1 DEF SetDuelWord, set_duel_word
  <2>2. CASE \E r \in Room : SettleDuel(r)
    BY <1>1, <2>2 DEF SettleDuel, settle_duel
  <2>3. CASE CancelDuel
    BY <1>1, <2>3 DEF CancelDuel, cancel_duel, CanCancel
  <2> QED
    BY <1>6, <2>1, <2>2, <2>3
<1>7. CASE (PlatformNext /\ UNCHANGED <<now, duelVars>>) \/ Tick
          \/ OpenAnyVault \/ UNCHANGED vars
  BY <1>1, <1>7, OpenEffect DEF Tick, duelVars, vars
<1> QED
  BY <1>2, <1>3, <1>4, <1>5, <1>6, <1>7
  DEF Next, CreateDuel, JoinDuel, CommitDuelSolution, RevealDuelSolution

\* A room is closed by a settlement of its own, or by a cancellation.
LEMMA ClosedBySettlement ==
  ASSUME TypeOK, [Next]_vars, NEW q \in Room,
         room[q].status = "Active", room'[q].status # "Active", Joined(q)
  PROVE  \E keeper \in Wallet, c, o, k, p \in TokenAccount, v \in Vault :
           settle_duel(q, keeper, c, o, k, p, v)
<1>1. room'[q] # room[q]
  OBVIOUS
<1>2. CASE CreateDuel
  BY <1>1, <1>2, CreateEffect DEF CreateDuel
<1>3. CASE JoinDuel
  BY <1>1, <1>3, JoinEffect DEF JoinDuel
<1>4. CASE SetDuelWord
  BY <1>1, <1>4, SetWordEffect DEF SetDuelWord
<1>5. ASSUME NEW r \in Room, SettleDuel(r)
      PROVE  \E keeper \in Wallet, c, o, k, p \in TokenAccount, v \in Vault :
               settle_duel(q, keeper, c, o, k, p, v)
  <2>1. PICK keeper \in Wallet, c, o, k, p \in TokenAccount, v \in Vault :
          settle_duel(r, keeper, c, o, k, p, v)
    BY <1>5, AccountsTyped DEF SettleDuel
  <2>2. q = r
    BY <1>1, <2>1, SettleVerdict
  <2> QED
    BY <2>1, <2>2
<1>6. CASE CancelDuel
  <2>1. PICK r \in Room, p \in Player, a \in TokenAccount, v \in Vault :
          cancel_duel(r, p, a, v)
    BY <1>6 DEF CancelDuel
  <2>2. q # r /\ room' = [room EXCEPT ![r].status = "Refunded"]
    BY <2>1 DEF cancel_duel, CanCancel, Cancellable
  <2> QED
    BY <1>1, <2>2 DEF TypeOK
<1>7. CASE CommitDuelSolution \/ RevealDuelSolution
  BY <1>1, <1>7 DEF CommitDuelSolution, RevealDuelSolution, commit_duel_solution,
                    reveal_duel_solution
<1>8. CASE (PlatformNext /\ UNCHANGED <<now, duelVars>>) \/ Tick
          \/ OpenAnyVault \/ UNCHANGED vars
  BY <1>1, <1>8, OpenEffect DEF Tick, duelVars, vars
<1> QED
  BY <1>2, <1>3, <1>4, <1>5, <1>6, <1>7, <1>8 DEF Next

LEMMA WinnerMoves ==
  ASSUME RaceInv, [Next]_vars, NEW q \in Room, room'[q].winner # room[q].winner
  PROVE  /\ room[q].status = "Active" /\ Joined(q) /\ entry' = entry
         /\ \/ CreatorWins(q) /\ room'[q].winner = room[q].creator
            \/ OpponentWins(q) /\ room'[q].winner = room[q].opponent
<1> IInv /\ TypeOK /\ OpenUndecided
  BY DEF RaceInv, IInv
<1>1. CASE room'[q] = room[q]
  BY <1>1
<1>2. CASE CreateDuel
  <2>1. PICK r \in Room, d \in DayIndex, stake \in StakeInput,
             offset \in OffsetInput, a \in TokenAccount :
          create_duel(r, d, stake, offset, a)
    BY <1>2 DEF CreateDuel
  <2>2. CASE q = r
    <3>1. ~Exists(r)
      BY <2>1 DEF create_duel
    <3>2. room[r] = ZeroRoom
      BY <3>1 DEF IInv, BlankRooms
    <3>3. room[r].winner = DefaultPubkey
      BY <3>2 DEF ZeroRoom
    <3>4. room'[r].winner = DefaultPubkey
      BY <2>1 DEF create_duel, TypeOK, ZeroRoom
    <3> QED
      BY <2>2, <3>3, <3>4
  <2>3. CASE q # r
    BY <1>1, <2>1, <2>3, CreateEffect
  <2> QED
    BY <2>2, <2>3
<1>3. CASE JoinDuel
  BY <1>3 DEF JoinDuel, join_duel, TypeOK, RoomRecord
<1>4. CASE SetDuelWord
  BY <1>4 DEF SetDuelWord, set_duel_word, TypeOK, RoomRecord
<1>5. ASSUME NEW r \in Room, SettleDuel(r)
      PROVE  /\ room[q].status = "Active" /\ Joined(q) /\ entry' = entry
             /\ \/ CreatorWins(q) /\ room'[q].winner = room[q].creator
                \/ OpponentWins(q) /\ room'[q].winner = room[q].opponent
  <2>1. PICK keeper \in Wallet, c, o, k, p \in TokenAccount, v \in Vault :
          settle_duel(r, keeper, c, o, k, p, v)
    BY <1>5, AccountsTyped DEF SettleDuel
  <2>2. q = r
    BY <1>1, <2>1, SettleVerdict
  <2>3. Active(r) /\ Joined(r) /\ entry' = entry
    BY <2>1 DEF settle_duel
  <2>4. room[r].winner = DefaultPubkey /\ room[r].status = "Active"
    BY <2>3 DEF Active, OpenUndecided
  <2> QED
    BY <2>1, <2>2, <2>3, <2>4, SettleVerdict
<1>6. CASE CancelDuel
  BY <1>6 DEF CancelDuel, cancel_duel, CanCancel, TypeOK, RoomRecord
<1>7. CASE CommitDuelSolution \/ RevealDuelSolution
  BY <1>1, <1>7 DEF CommitDuelSolution, RevealDuelSolution, commit_duel_solution,
                    reveal_duel_solution
<1>8. CASE (PlatformNext /\ UNCHANGED <<now, duelVars>>) \/ Tick
          \/ OpenAnyVault \/ UNCHANGED vars
  BY <1>1, <1>8, OpenEffect DEF Tick, duelVars, vars
<1> QED
  BY <1>2, <1>3, <1>4, <1>5, <1>6, <1>7, <1>8 DEF Next

-----------------------------------------------------------------------------
(* Copiers.                                                                *)

\* A copier's commitment is not older than that of a rival who has revealed.
CopiersBehind ==
  \A r \in Room, p \in Player : <<r, p>> \in copiers =>
    \E q \in Player \ {p} :
      /\ entry[r][q].revealed
      /\ entry[r][q].commit_timestamp <= entry[r][p].commit_timestamp

LInv ==
  /\ RaceInv
  /\ CommitsPast
  /\ CopiersBehind
  /\ CopierNeverWins

LEMMA LedgerSteps == [LedgerNext]_ledgerVars => [Next]_vars
BY DEF LedgerNext, ledgerVars

LEMMA RaceInvStep == RaceInv /\ [Next]_vars => RaceInv'
BY IInvStep, UndecidedStep DEF RaceInv, IInv

\* Only who commits with the rival's reveal in the open becomes a copier.
LEMMA NewCopier ==
  ASSUME RaceInv, [LedgerNext]_ledgerVars, NEW r \in Room, NEW p \in Player,
         <<r, p>> \in copiers', <<r, p>> \notin copiers
  PROVE  /\ entry'[r][p].commit_timestamp = now
         /\ Committing(r, p)
         /\ room[r].status = "Active" /\ room' = room
         /\ \E q \in Player \ {p} : entry[r][q].revealed
<1> IInv
  BY DEF RaceInv
<1>1. Committing(r, p) /\ Revealers(r) \ {p} # {}
  BY DEF LedgerNext, ledgerVars
<1>2. PICK q \in Revealers(r) \ {p} : TRUE
  BY <1>1
<1>3. q \in Player /\ entry[r][q].revealed /\ entry[r][q].commit_hash # ZERO
  BY <1>2, RevealersMarked DEF Revealers
<1>4. Joined(r)
  BY <1>3 DEF IInv, CommitTimeline
<1>5. \/ /\ entry'[r][p].commit_timestamp = entry[r][p].commit_timestamp
         /\ entry'[r][p].commit_hash = entry[r][p].commit_hash
      \/ /\ entry'[r][p].commit_timestamp = now
         /\ room[r].status = "Active"
         /\ room' = room
  BY <1>4, MarkMoves, LedgerSteps
<1> QED
  BY <1>1, <1>2, <1>3, <1>5 DEF Committing

LEMMA CopiersBehindStep == LInv /\ [LedgerNext]_ledgerVars => CopiersBehind'
<1> SUFFICES ASSUME LInv, [LedgerNext]_ledgerVars,
                    NEW r \in Room, NEW p \in Player, <<r, p>> \in copiers'
             PROVE  \E q \in Player \ {p} :
                      /\ entry'[r][q].revealed
                      /\ entry'[r][q].commit_timestamp
                           <= entry'[r][p].commit_timestamp
  BY DEF CopiersBehind
<1> /\ IInv
    /\ [Next]_vars
    /\ RaceInv
  BY LedgerSteps DEF LInv, RaceInv
<1>1. now \in Nat /\ \A q \in Player : entry[r][q].commit_timestamp \in Nat
  BY DuelAssumption DEF IInv, TypeOK, EntryRecord
<1>2. ASSUME NEW q \in Player, entry[r][q].revealed
      PROVE  /\ Joined(r)
             /\ entry'[r][q].revealed
             /\ entry'[r][q].commit_timestamp = entry[r][q].commit_timestamp
             /\ entry[r][q].commit_timestamp <= now
  <2>1. entry[r][q].commit_hash # ZERO
    BY <1>2, RevealersMarked DEF Revealers
  <2>2. Joined(r)
    BY <2>1 DEF IInv, CommitTimeline
  <2> QED
    BY <1>2, <2>1, <2>2, FrozenStep DEF CommitFrozenStep, LInv, CommitsPast
<1>3. CASE <<r, p>> \in copiers
  <2>1. PICK q \in Player \ {p} :
          /\ entry[r][q].revealed
          /\ entry[r][q].commit_timestamp <= entry[r][p].commit_timestamp
    BY <1>3 DEF LInv, CopiersBehind
  <2>2. entry'[r][p].commit_timestamp \in {entry[r][p].commit_timestamp, now}
    BY <1>2, <2>1, MarkMoves
  <2> QED
    BY <1>1, <1>2, <2>1, <2>2
<1>4. CASE <<r, p>> \notin copiers
  <2>1. /\ entry'[r][p].commit_timestamp = now
        /\ \E q \in Player \ {p} : entry[r][q].revealed
    BY <1>4, NewCopier
  <2> QED
    BY <1>2, <2>1
<1> QED
  BY <1>3, <1>4

LEMMA CopierStep == LInv /\ [LedgerNext]_ledgerVars => CopierNeverWins'
<1> SUFFICES ASSUME LInv, [LedgerNext]_ledgerVars,
                    NEW r \in Room, NEW p \in Player, <<r, p>> \in copiers'
             PROVE  room'[r].winner # p
  BY DEF CopierNeverWins
<1> /\ IInv
    /\ [Next]_vars
    /\ RaceInv
  BY LedgerSteps DEF LInv, RaceInv
<1>1. CASE <<r, p>> \notin copiers
  <2>1. room[r].status = "Active" /\ room' = room
    BY <1>1, NewCopier
  <2> QED
    BY <2>1, PlayersAreSomebody DEF RaceInv, OpenUndecided
<1>2. CASE <<r, p>> \in copiers /\ room'[r].winner = room[r].winner
  BY <1>2 DEF LInv, CopierNeverWins
<1>3. CASE <<r, p>> \in copiers /\ room'[r].winner # room[r].winner
  <2>1. /\ Joined(r)
        /\ \/ CreatorWins(r) /\ room'[r].winner = room[r].creator
           \/ OpponentWins(r) /\ room'[r].winner = room[r].opponent
    BY <1>3, WinnerMoves
  <2>2. PICK q \in Player \ {p} :
          /\ entry[r][q].revealed
          /\ entry[r][q].commit_timestamp <= entry[r][p].commit_timestamp
    BY <1>3 DEF LInv, CopiersBehind
  <2>3. q \in {room[r].creator, room[r].opponent}
    BY <2>1, <2>2, SeatsOf, RevealersMarked DEF Revealers
  <2>4. /\ entry[r][p].commit_timestamp \in Nat
        /\ entry[r][q].commit_timestamp \in Nat
    BY DEF IInv, TypeOK, EntryRecord
  <2> QED
    BY <2>1, <2>2, <2>3, <2>4, SeatsOf
    DEF CreatorWins, OpponentWins, CreatorEntry, OpponentEntry
<1> QED
  BY <1>1, <1>2, <1>3

(***************************************************************************)
(* In every room, however many players, copiers and keepers there are, a   *)
(* commitment made with the rival's reveal already in the open never wins. *)
(***************************************************************************)
THEOREM CopiersNeverWin == LedgerSpec => []CopierNeverWins
<1>1. LedgerInit => LInv
  <2> SUFFICES ASSUME LedgerInit PROVE LInv
    OBVIOUS
  <2>1. IInv
    BY IInvInit DEF LedgerInit
  <2>2. OpenUndecided
    BY DEF LedgerInit, Init, OpenUndecided, ZeroRoom
  <2>3. CommitsPast
    BY DEF LedgerInit, Init, CommitsPast, ZeroEntry
  <2> QED
    BY <2>1, <2>2, <2>3 DEF LedgerInit, LInv, RaceInv, CopiersBehind, CopierNeverWins
<1>2. LInv /\ [LedgerNext]_ledgerVars => LInv'
  <2> SUFFICES ASSUME LInv, [LedgerNext]_ledgerVars PROVE LInv'
    OBVIOUS
  <2>1. RaceInv' /\ CommitsPast'
    BY LedgerSteps, RaceInvStep, CommitsPastStep DEF LInv, RaceInv, IInv
  <2> QED
    BY <2>1, CopiersBehindStep, CopierStep DEF LInv
<1>3. LInv => CopierNeverWins
  BY DEF LInv
<1> QED
  BY <1>1, <1>2, <1>3, PTL DEF LedgerSpec

-----------------------------------------------------------------------------
(* Verdicts.                                                               *)

\* What is on record stands: the room is closed, its revealers committed.
VerdictsStand ==
  \A r \in Room : Settled(r) =>
    /\ room[r].status # "Active"
    /\ \A p \in verdict[r].revealers :
         p \in Player /\ entry[r][p].commit_hash # ZERO

VInv == RaceInv /\ VerdictsStand /\ ResolutionMatrix

Matrix(r) ==
  /\ verdict[r].revealers = Seated(r) \/ verdict[r].time >= room[r].deadline
  /\ room[r].status = "Refunded" <=> verdict[r].revealers = {}
  /\ room[r].winner # DefaultPubkey <=> Cardinality(Fastest(r)) = 1
  /\ room[r].winner # DefaultPubkey => room[r].winner \in Fastest(r)

LEMMA SmallSets ==
  ASSUME NEW a, NEW b, a # b
  PROVE  Cardinality({}) = 0 /\ Cardinality({a}) = 1 /\ Cardinality({a, b}) = 2
<1>1. Cardinality({}) = 0 /\ IsFiniteSet({a}) /\ Cardinality({a}) = 1
  BY FS_EmptySet, FS_Singleton
<1>2. Cardinality({a} \cup {b}) = Cardinality({a}) + 1
  BY <1>1, FS_AddElement
<1>3. {a} \cup {b} = {a, b}
  OBVIOUS
<1> QED
  BY <1>1, <1>2, <1>3

\* The verdict of a settlement, read off the accounts it closes.
LEMMA SettledRoom ==
  ASSUME RaceInv, NEW r \in Room, NEW keeper \in Wallet,
         NEW c \in TokenAccount, NEW o \in TokenAccount,
         NEW k \in TokenAccount, NEW p \in TokenAccount,
         NEW v \in Vault, settle_duel(r, keeper, c, o, k, p, v)
  PROVE  /\ Seats(r) \subseteq Revealers(r) \/ now >= room[r].deadline
         /\ \/ /\ Revealers(r) = {}
               /\ room'[r].status = "Refunded" /\ room'[r].winner = DefaultPubkey
            \/ \E w \in Player :
                 /\ Verdict!Earliest(r) = {w}
                 /\ room'[r].status # "Refunded" /\ room'[r].winner = w
            \/ /\ Verdict!Earliest(r) = Seats(r)
               /\ room'[r].status # "Refunded" /\ room'[r].winner = DefaultPubkey
<1>1. Verdict!Judge(r)
  BY SettleJudges
<1>2. ASSUME NEW s, NEW w, Verdict!Declare(r, s, w)
      PROVE  Result(r)' = s /\ room'[r].winner = w
  <2>1. /\ ResultMap' = [ResultMap EXCEPT ![r] = s]
        /\ ChampionMap' = [ChampionMap EXCEPT ![r] = w]
    BY <1>2 DEF Verdict!Declare, ResultMap, ChampionMap
  <2>2. ResultMap'[r] = Result(r)' /\ ChampionMap'[r] = room'[r].winner
    BY DEF ResultMap, ChampionMap
  <2> QED
    BY <2>1, <2>2 DEF ResultMap, ChampionMap
<1>3. /\ Result(r)' = "refunded" => room'[r].status = "Refunded"
      /\ Result(r)' \in {"won", "tied"} => room'[r].status # "Refunded"
  <2>1. room'[r].status \in {"Settled", "Refunded"}
    BY SettleVerdict DEF RaceInv, IInv
  <2> QED
    BY <2>1 DEF Result
<1>4. /\ Seats(r) \subseteq Revealers(r) \/ now >= room[r].deadline
      /\ \/ Revealers(r) = {} /\ Verdict!Declare(r, "refunded", DefaultPubkey)
         \/ \E w \in Player :
              Verdict!Earliest(r) = {w} /\ Verdict!Declare(r, "won", w)
         \/ /\ Verdict!Earliest(r) = Seats(r)
            /\ Verdict!Declare(r, "tied", DefaultPubkey)
  BY <1>1 DEF Verdict!Judge
<1> QED
  BY <1>2, <1>3, <1>4

\* A settlement writes a verdict the matrix agrees with.
LEMMA SettlingRecords ==
  ASSUME RaceInv, LedgerNext, NEW r \in Room, Settling(r)
  PROVE  /\ room'[r].status # "Active"
         /\ \A p \in verdict'[r].revealers :
              p \in Player /\ entry'[r][p].commit_hash # ZERO
         /\ Matrix(r)'
<1> IInv /\ TypeOK /\ [Next]_vars
  BY DEF RaceInv, IInv, LedgerNext
<1>1. PICK keeper \in Wallet, c, o, k, p \in TokenAccount, v \in Vault :
        settle_duel(r, keeper, c, o, k, p, v)
  BY ClosedBySettlement DEF Settling, Active
<1>2. /\ Joined(r) /\ now' = now /\ entry' = entry
      /\ room'[r].creator = room[r].creator
      /\ room'[r].opponent = room[r].opponent
      /\ room'[r].deadline = room[r].deadline
  BY <1>1, SettleEffect DEF settle_duel, IInv
<1>3. /\ verdict'[r].revealers = Revealers(r)
      /\ verdict'[r].time = now
  BY DEF LedgerNext
<1>4. /\ room[r].creator \in Player /\ room[r].opponent \in Player
      /\ room[r].creator # room[r].opponent
      /\ Seats(r) = {room[r].creator, room[r].opponent}
      /\ Seated(r)' = Seats(r)
  BY <1>2, SeatsOf DEF Seated
<1>5. Fastest(r)' = Verdict!Earliest(r)
  BY <1>2, <1>3, EarliestReads DEF Fastest, CommitTime
<1>6. /\ Revealers(r) \subseteq Seats(r)
      /\ \A s \in Revealers(r) : s \in Player /\ entry[r][s].commit_hash # ZERO
  BY RevealersMarked
<1>7. Verdict!Earliest(r) \subseteq Revealers(r)
  BY EarliestReads
<1>8. /\ Seats(r) \subseteq Revealers(r) \/ now >= room[r].deadline
      /\ \/ /\ Revealers(r) = {}
            /\ room'[r].status = "Refunded" /\ room'[r].winner = DefaultPubkey
         \/ \E w \in Player :
              /\ Verdict!Earliest(r) = {w}
              /\ room'[r].status # "Refunded" /\ room'[r].winner = w
         \/ /\ Verdict!Earliest(r) = Seats(r)
            /\ room'[r].status # "Refunded" /\ room'[r].winner = DefaultPubkey
  BY <1>1, SettledRoom
<1>9. verdict'[r].revealers = Seated(r)' \/ verdict'[r].time >= room'[r].deadline
  BY <1>2, <1>3, <1>4, <1>6, <1>8
<1> DEFINE first == Fastest(r)'
<1>10. /\ Cardinality({}) = 0
       /\ \A w : Cardinality({w}) = 1
       /\ Cardinality(Seats(r)) = 2
  <2>1. \A w : Cardinality({w}) = 1
    BY FS_Singleton
  <2>2. Cardinality({room[r].creator, room[r].opponent}) = 2
    BY <1>4, SmallSets
  <2> QED
    BY <1>4, <2>1, <2>2, FS_EmptySet
<1>11. /\ room'[r].status = "Refunded" <=> verdict'[r].revealers = {}
       /\ room'[r].winner # DefaultPubkey <=> Cardinality(first) = 1
       /\ room'[r].winner # DefaultPubkey => room'[r].winner \in first
  <2> HIDE DEF first
  <2>0. first = Verdict!Earliest(r)
    BY <1>5 DEF first
  <2>1. CASE Revealers(r) = {} /\ room'[r].status = "Refunded"
             /\ room'[r].winner = DefaultPubkey
    <3>1. first = {}
      BY <1>7, <2>0, <2>1
    <3> QED
      BY <1>3, <1>10, <2>1, <3>1
  <2>2. ASSUME NEW w \in Player, first = {w},
               room'[r].status # "Refunded", room'[r].winner = w
        PROVE  /\ room'[r].status = "Refunded" <=> verdict'[r].revealers = {}
               /\ room'[r].winner # DefaultPubkey <=> Cardinality(first) = 1
               /\ room'[r].winner # DefaultPubkey => room'[r].winner \in first
    <3>1. Cardinality(first) = 1 /\ Revealers(r) # {}
      BY <1>7, <1>10, <2>0, <2>2
    <3> QED
      BY <1>3, <2>2, <3>1, PlayersAreSomebody
  <2>3. CASE first = Seats(r) /\ room'[r].status # "Refunded"
             /\ room'[r].winner = DefaultPubkey
    <3>1. Cardinality(first) = 2 /\ Revealers(r) # {}
      BY <1>4, <1>7, <1>10, <2>0, <2>3
    <3> QED
      BY <1>3, <2>3, <3>1
  <2> QED
    BY <1>8, <2>0, <2>1, <2>2, <2>3
<1>12. Matrix(r)'
  BY <1>9, <1>11 DEF Matrix
<1> QED
  BY <1>2, <1>3, <1>6, <1>12 DEF Settling

\* Nothing that comes after the settlement changes what it was decided on.
LEMMA VerdictKept ==
  ASSUME VInv, [Next]_vars, NEW r \in Room, Settled(r), verdict'[r] = verdict[r]
  PROVE  /\ room'[r].status # "Active"
         /\ \A p \in verdict'[r].revealers :
              p \in Player /\ entry'[r][p].commit_hash # ZERO
         /\ Matrix(r)'
<1> IInv
  BY DEF VInv, RaceInv
<1>1. room[r].status # "Active" /\ room'[r] = room[r]
  BY FinalStep DEF VInv, VerdictsStand, ClosedIsFinalStep
<1>2. \A p \in verdict[r].revealers :
        /\ p \in Player /\ entry[r][p].commit_hash # ZERO
        /\ entry'[r][p].commit_hash = entry[r][p].commit_hash
        /\ entry'[r][p].commit_timestamp = entry[r][p].commit_timestamp
  BY FrozenStep DEF VInv, VerdictsStand, CommitFrozenStep
<1>3. Fastest(r)' = Fastest(r)
  BY <1>2 DEF Fastest, CommitTime
<1>4. Matrix(r)
  BY DEF VInv, ResolutionMatrix, Matrix
<1>5. Matrix(r)'
  BY <1>1, <1>3, <1>4 DEF Matrix, Seated
<1> QED
  BY <1>1, <1>2, <1>5

LEMMA VInvStep == VInv /\ [LedgerNext]_ledgerVars => VInv'
<1> SUFFICES ASSUME VInv, [LedgerNext]_ledgerVars PROVE VInv'
  OBVIOUS
<1>1. RaceInv'
  BY LedgerSteps, RaceInvStep DEF VInv
<1>2. ASSUME NEW r \in Room, Settled(r)'
      PROVE  /\ room'[r].status # "Active"
             /\ \A p \in verdict'[r].revealers :
                  p \in Player /\ entry'[r][p].commit_hash # ZERO
             /\ Matrix(r)'
  <2>1. CASE LedgerNext /\ Settling(r)
    BY <2>1, SettlingRecords DEF VInv
  <2>2. CASE verdict'[r] = verdict[r]
    BY <1>2, <2>2, LedgerSteps, VerdictKept DEF Settled
  <2> QED
    BY <2>1, <2>2 DEF LedgerNext, ledgerVars
<1>3. VerdictsStand'
  BY <1>2 DEF VerdictsStand
<1>4. ResolutionMatrix'
  BY <1>2 DEF ResolutionMatrix, Matrix
<1> QED
  BY <1>1, <1>3, <1>4 DEF VInv

LEMMA VInvInit == LedgerInit => VInv
<1> SUFFICES ASSUME LedgerInit PROVE VInv
  OBVIOUS
<1>1. IInv
  BY IInvInit DEF LedgerInit
<1>2. OpenUndecided
  BY DEF LedgerInit, Init, OpenUndecided, ZeroRoom
<1>3. \A r \in Room : ~Settled(r)
  BY DEF LedgerInit, Settled, NoVerdict
<1> QED
  BY <1>1, <1>2, <1>3 DEF VInv, RaceInv, VerdictsStand, ResolutionMatrix

(***************************************************************************)
(* Every settlement, in every room, is decided by the resolution matrix on *)
(* the reveals of its moment, and the accounts say so for ever after.      *)
(***************************************************************************)
THEOREM VerdictsFollowTheMatrix == LedgerSpec => []ResolutionMatrix
<1>1. VInv => ResolutionMatrix
  BY DEF VInv
<1> QED
  BY <1>1, VInvInit, VInvStep, PTL DEF LedgerSpec
==============================================================================
