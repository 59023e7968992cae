---------------------------- MODULE KeeperProofs ----------------------------
(***************************************************************************)
(* Theorems about the keeper next to the program, for any number of rooms, *)
(* words, wallets and failures.                                            *)
(***************************************************************************)
EXTENDS Keeper, DuelProofs

-----------------------------------------------------------------------------
(* What the instructions leave alone in a room that exists.                *)

\* An existing room has a hash a word can be derived from.
HashedRooms ==
  \A r \in Room : Exists(r) => room[r].room_solution_hash \in RoomSolutionHashes

LEMMA SettleCloses ==
  ASSUME NEW r \in Room, SettleDuel(r)
  PROVE  \E s, w : room' = [room EXCEPT ![r].status = s, ![r].winner = w]
<1>1. PICK keeper, c, o, k, p, v : settle_duel(r, keeper, c, o, k, p, v)
  BY DEF SettleDuel
<1>2. \/ settle_tie(r, c, o, k, p, v)
      \/ settle_win(r, c, o, k, p, v, room[r].creator)
      \/ settle_win(r, c, o, k, p, v, room[r].opponent)
      \/ settle_refund(r, c, o, k, p, v)
  BY <1>1 DEF settle_duel
<1>3. \E s, w : Close(r, s, w)
  BY <1>2 DEF settle_tie, settle_win, settle_refund
<1> QED
  BY <1>3 DEF Close

LEMMA RoomsKeep ==
  ASSUME TypeOK, HashedRooms, [Next]_vars, NEW q \in Room, Exists(q)
  PROVE  /\ Exists(q)'
         /\ room'[q].creator = room[q].creator
         /\ room'[q].deadline = room[q].deadline
         /\ room'[q].room_solution_hash = room[q].room_solution_hash
         /\ Joined(q) => room'[q].opponent = room[q].opponent
         /\ now' >= now
<1> DEFINE Goal == /\ room'[q].creator = room[q].creator
                   /\ room'[q].deadline = room[q].deadline
                   /\ room'[q].room_solution_hash = room[q].room_solution_hash
                   /\ Joined(q) => room'[q].opponent = room[q].opponent
                   /\ now' >= now
<1> SUFFICES Goal
  BY DEF Exists
<1> now \in Nat
  BY DuelAssumption DEF TypeOK
<1>1. CASE room' = room /\ now' = now
  BY <1>1
<1>2. ASSUME NEW r \in Room, NEW d \in DayIndex, NEW stake \in StakeInput,
             NEW offset \in OffsetInput, NEW a \in TokenAccount,
             create_duel(r, d, stake, offset, a)
      PROVE  Goal
  <2>1. now' = now /\ q # r
    BY <1>2 DEF create_duel
  <2>2. room'[q] = room[q]
    BY <1>2, <2>1, CreateEffect
  <2> QED
    BY <2>1, <2>2
<1>3. ASSUME NEW r \in Room, NEW p \in Player, NEW a \in TokenAccount,
             NEW v \in Vault, join_duel(r, p, a, v)
      PROVE  Goal
  BY <1>3, JoinEffect DEF join_duel, SeatFree
<1>4. ASSUME NEW r \in Room, NEW w \in Wallet,
             NEW h \in DuelSolutionHashes \cup {ZERO}, set_duel_word(r, w, h)
      PROVE  Goal
  <2>1. now' = now
    BY <1>4 DEF set_duel_word
  <2>2. CASE q = r
    BY <1>4, <2>1, <2>2, SetWordEffect
  <2>3. CASE q # r
    <3>1. room'[q] = room[q]
      BY <1>4, <2>3, SetWordEffect
    <3> QED
      BY <2>1, <3>1
  <2> QED
    BY <2>2, <2>3
<1>5. ASSUME NEW r \in Room, NEW keeper \in Wallet,
             NEW c \in TokenAccount, NEW o \in TokenAccount,
             NEW k \in TokenAccount, NEW p \in TokenAccount,
             NEW v \in Vault, settle_duel(r, keeper, c, o, k, p, v)
      PROVE  Goal
  <2>1. PICK s, w : room' = [room EXCEPT ![r].status = s, ![r].winner = w]
    BY <1>5 DEF settle_duel, settle_tie, settle_win, settle_refund, Close
  <2>2. now' = now
    BY <1>5 DEF settle_duel
  <2> QED
    BY <2>1, <2>2 DEF TypeOK, RoomRecord
<1>6. ASSUME NEW r \in Room, NEW p \in Player, NEW a \in TokenAccount,
             NEW v \in Vault, cancel_duel(r, p, a, v)
      PROVE  Goal
  BY <1>6 DEF cancel_duel, CanCancel, TypeOK, RoomRecord
<1>7. CASE CommitDuelSolution \/ RevealDuelSolution \/ OpenAnyVault
  BY <1>1, <1>7, OpenEffect
  DEF CommitDuelSolution, RevealDuelSolution, commit_duel_solution,
      reveal_duel_solution
<1>8. CASE Tick
  BY <1>8 DEF Tick, duelVars
<1>9. CASE (PlatformNext /\ UNCHANGED <<now, duelVars>>) \/ UNCHANGED vars
  BY <1>1, <1>9 DEF duelVars, vars
<1> QED
  BY <1>2, <1>3, <1>4, <1>5, <1>6, <1>7, <1>8, <1>9, AccountsTyped
  DEF Next, CreateDuel, JoinDuel, SetDuelWord, SettleDuel, CancelDuel

LEMMA HashedStep == TypeOK /\ HashedRooms /\ [Next]_vars => HashedRooms'
<1> SUFFICES ASSUME TypeOK, HashedRooms, [Next]_vars, NEW q \in Room, Exists(q)'
             PROVE  room'[q].room_solution_hash \in RoomSolutionHashes
  BY DEF HashedRooms, RoomSolutionHashes
<1>1. CASE Exists(q)
  BY <1>1, RoomsKeep DEF HashedRooms
<1>2. CASE ~Exists(q)
  <2>1. CASE room' = room
    BY <1>2, <2>1 DEF Exists
  <2>2. ASSUME NEW r \in Room, NEW d \in DayIndex, NEW stake \in StakeInput,
               NEW offset \in OffsetInput, NEW a \in TokenAccount,
               create_duel(r, d, stake, offset, a)
        PROVE  room'[q].room_solution_hash \in RoomSolutionHashes
    <3>1. CASE q = r
      <4>1. daily[d].slot_hash_seed \in Seed
        BY <2>2 DEF create_duel, DayOpen, TypeOK, PlatformTypeOK
      <4>2. room'[r].room_solution_hash = RoomSolutionHash(daily[d].slot_hash_seed, r)
        BY <2>2 DEF create_duel, TypeOK, ZeroRoom
      <4> QED
        BY <3>1, <4>1, <4>2 DEF RoomSolutionHashes
    <3>2. CASE q # r
      BY <1>2, <2>2, <3>2, CreateEffect DEF Exists
    <3> QED
      BY <3>1, <3>2
  <2>3. CASE JoinDuel
    BY <1>2, <2>3, JoinEffect DEF JoinDuel, Exists, join_duel, Active
  <2>4. CASE SetDuelWord
    BY <1>2, <2>4, SetWordEffect DEF SetDuelWord, Exists, set_duel_word, Active
  <2>5. ASSUME NEW r \in Room, SettleDuel(r)
        PROVE  room'[q].room_solution_hash \in RoomSolutionHashes
    <3>1. PICK s, w : room' = [room EXCEPT ![r].status = s, ![r].winner = w]
      BY <2>5, SettleCloses
    <3> QED
      BY <1>2, <3>1 DEF TypeOK, RoomRecord, Exists
  <2>6. CASE CancelDuel
    BY <1>2, <2>6 DEF CancelDuel, cancel_duel, CanCancel, TypeOK, RoomRecord, Exists
  <2>7. CASE CommitDuelSolution \/ RevealDuelSolution \/ OpenAnyVault
    BY <2>1, <2>7, OpenEffect
    DEF CommitDuelSolution, RevealDuelSolution, commit_duel_solution,
        reveal_duel_solution
  <2>8. CASE (PlatformNext /\ UNCHANGED <<now, duelVars>>) \/ Tick \/ UNCHANGED vars
    BY <2>1, <2>8 DEF duelVars, vars, Tick
  <2> QED
    BY <2>2, <2>3, <2>4, <2>5, <2>6, <2>7, <2>8 DEF Next, CreateDuel
<1> QED
  BY <1>1, <1>2

\* The instructions of the other wallets set no word.
Foreign ==
  \/ PlatformNext /\ UNCHANGED <<now, duelVars>>
  \/ CreateDuel \/ OpenAnyVault \/ JoinDuel
  \/ CommitDuelSolution \/ RevealDuelSolution
  \/ \E r \in Room : SettleDuel(r)
  \/ CancelDuel \/ Tick \/ UNCHANGED vars

LEMMA WordsKeep ==
  ASSUME TypeOK, BlankRooms, Foreign, NEW q \in Room, room'[q].word_set
  PROVE  /\ Exists(q) /\ room[q].word_set
         /\ room'[q].duel_solution_hash = room[q].duel_solution_hash
<1> DEFINE Goal == /\ room[q].word_set
                   /\ room'[q].duel_solution_hash = room[q].duel_solution_hash
<1> SUFFICES Goal
  <2>1. ~Exists(q) => ~room[q].word_set
    BY DEF BlankRooms, ZeroRoom
  <2> QED
    BY <2>1
<1>1. CASE room' = room
  BY <1>1
<1>2. ASSUME NEW r \in Room, NEW d \in DayIndex, NEW stake \in StakeInput,
             NEW offset \in OffsetInput, NEW a \in TokenAccount,
             create_duel(r, d, stake, offset, a)
      PROVE  Goal
  <2>1. CASE q = r
    <3>1. ~room'[r].word_set
      BY <1>2 DEF create_duel, TypeOK, ZeroRoom
    <3> QED
      BY <2>1, <3>1
  <2>2. CASE q # r
    BY <1>2, <2>2, CreateEffect
  <2> QED
    BY <2>1, <2>2
<1>3. CASE JoinDuel
  BY <1>3, JoinEffect DEF JoinDuel
<1>4. ASSUME NEW r \in Room, SettleDuel(r)
      PROVE  Goal
  <2>1. PICK s, w : room' = [room EXCEPT ![r].status = s, ![r].winner = w]
    BY <1>4, SettleCloses
  <2> QED
    BY <2>1 DEF TypeOK, RoomRecord
<1>5. CASE CancelDuel
  BY <1>5 DEF CancelDuel, cancel_duel, CanCancel, TypeOK, RoomRecord
<1>6. CASE CommitDuelSolution \/ RevealDuelSolution \/ OpenAnyVault
  BY <1>1, <1>6, OpenEffect
  DEF CommitDuelSolution, RevealDuelSolution, commit_duel_solution,
      reveal_duel_solution
<1>7. CASE (PlatformNext /\ UNCHANGED <<now, duelVars>>) \/ Tick \/ UNCHANGED vars
  BY <1>1, <1>7 DEF duelVars, vars, Tick
<1> QED
  BY <1>2, <1>3, <1>4, <1>5, <1>6, <1>7 DEF Foreign, CreateDuel

-----------------------------------------------------------------------------
(* The invariant of the script.                                            *)

(***************************************************************************)
(* A snapshot is what the room was: what may have changed since is its     *)
(* status, its word and a seat that was free.                              *)
(***************************************************************************)
SnapshotIsPast ==
  \A r \in DOMAIN rooms :
    /\ Exists(r)
    /\ rooms[r].creator = room[r].creator
    /\ rooms[r].deadline = room[r].deadline
    /\ rooms[r].room_solution_hash = room[r].room_solution_hash
    /\ rooms[r].opponent # DefaultPubkey => rooms[r].opponent = room[r].opponent

\* A word on its way is the one derived for its room.
WordCallsDerived ==
  \A c \in {call} \cup sent : c.instruction = "set_duel_word" =>
    /\ Exists(c.room)
    /\ LET h == room[c.room].room_solution_hash
       IN  c.word_hash = DuelSolutionHash(h, WordOf[h])

KeeperInv ==
  /\ IInv
  /\ HashedRooms
  /\ KeeperTypeOK
  /\ SnapshotIsPast
  /\ WordCallsDerived
  /\ SettleCallIsDue
  /\ KeeperWordIsDerived

LEMMA KeeperInvInit == KeeperInit => KeeperInv
<1> SUFFICES ASSUME KeeperInit PROVE KeeperInv
  OBVIOUS
<1>1. IInv
  BY IInvInit DEF KeeperInit
<1>2. HashedRooms
  BY DEF KeeperInit, Init, HashedRooms, ZeroRoom, Exists
<1>3. KeeperTypeOK
  BY KeeperAssumption DEF KeeperInit, KeeperTypeOK, NoRooms, LoadWordList
<1>4. SnapshotIsPast /\ WordCallsDerived /\ SettleCallIsDue
  BY DEF KeeperInit, NoRooms, NoCall, SnapshotIsPast, WordCallsDerived, SettleCallIsDue
<1>5. KeeperWordIsDerived
  BY DEF KeeperInit, Init, ZeroRoom, KeeperWordIsDerived
<1> QED
  BY <1>1, <1>2, <1>3, <1>4, <1>5 DEF KeeperInv

(***************************************************************************)
(* Every step of the script and the network is a step of the program or    *)
(* leaves its accounts alone.                                              *)
(***************************************************************************)
LEMMA LandIsNext ==
  ASSUME KeeperTypeOK, NEW t \in sent, Land(t)
  PROVE  Next
<1>1. t \in Calls
  BY DEF KeeperTypeOK
<1>2. CASE t.instruction = "set_duel_word"
  <2>1. t.room \in Room /\ t.word_hash \in DuelSolutionHashes
    BY <1>1, <1>2 DEF Calls
  <2>2. set_duel_word(t.room, AUTHORITY_KEYPAIR, t.word_hash)
    BY <1>2 DEF Land
  <2> QED
    BY <2>1, <2>2, KeeperAssumption DEF Next, SetDuelWord
<1>3. CASE t.instruction # "set_duel_word"
  <2>1. t.room \in Room
    BY <1>1, <1>3 DEF Calls
  <2>2. SettleFor(t)
    BY <1>3 DEF Land
  <2>3. RoomAta[USDC_MINT] \in Vault
    BY KeeperAssumption, DuelAssumption
  <2>4. SettleDuel(t.room)
    BY <2>2, <2>3, KeeperAssumption DEF SettleFor, SettleDuel, settle_duel
  <2> QED
    BY <2>1, <2>4 DEF Next
<1> QED
  BY <1>2, <1>3

LEMMA ScriptIsQuiet ==
  ASSUME Loop \/ LoopFault \/ (\E t \in sent : Drop(t)) \/ UNCHANGED keeperVars
  PROVE  UNCHANGED vars
<1>1. CASE Loop
  BY <1>1 DEF Loop, Poll, EndPoll, Confirmed, CallFails, Restart, PassOver,
              processSetDuelWord, processSettleDuel, TooEarly
<1>2. CASE LoopFault
  BY <1>2 DEF LoopFault, Killed, NoBlockTime, BlockTimeFails
<1> QED
  BY <1>1, <1>2 DEF Drop, keeperVars

LEMMA OthersAreForeign ==
  OthersNext => Foreign /\ UNCHANGED <<loopVars, sent, faults>>
BY DEF OthersNext, Others, Foreign

LEMMA ForeignIsNext == Foreign => [Next]_vars
BY DEF Foreign, Next

LEMMA KeeperStepIsDuelStep == KeeperTypeOK /\ [KeeperNext]_keeperVars => [Next]_vars
<1> SUFFICES ASSUME KeeperTypeOK, [KeeperNext]_keeperVars PROVE [Next]_vars
  OBVIOUS
<1>1. CASE Loop \/ LoopFault \/ (\E t \in sent : Drop(t)) \/ UNCHANGED keeperVars
  BY <1>1, ScriptIsQuiet
<1>2. CASE \E t \in sent : Land(t)
  BY <1>2, LandIsNext
<1>3. CASE OthersNext
  BY <1>3, OthersAreForeign, ForeignIsNext
<1> QED
  BY <1>1, <1>2, <1>3 DEF KeeperNext, Network

-----------------------------------------------------------------------------
(***************************************************************************)
(* What is kept of a snapshot and of the calls stays true whatever the     *)
(* program does meanwhile.                                                 *)
(***************************************************************************)
LEMMA PastIsStable ==
  ASSUME KeeperInv, [Next]_vars,
         DOMAIN rooms' \subseteq DOMAIN rooms,
         \A r \in DOMAIN rooms' : rooms'[r] = rooms[r],
         call' \in {call, NoCall}, sent' \subseteq sent
  PROVE  SnapshotIsPast' /\ WordCallsDerived' /\ SettleCallIsDue'
<1> TypeOK /\ HashedRooms /\ KeeperTypeOK
  BY DEF KeeperInv, IInv
<1>1. SnapshotIsPast'
  <2> SUFFICES ASSUME NEW r \in DOMAIN rooms'
               PROVE  /\ Exists(r)'
                      /\ rooms'[r].creator = room'[r].creator
                      /\ rooms'[r].deadline = room'[r].deadline
                      /\ rooms'[r].room_solution_hash = room'[r].room_solution_hash
                      /\ rooms'[r].opponent # DefaultPubkey =>
                           rooms'[r].opponent = room'[r].opponent
    BY DEF SnapshotIsPast
  <2>1. r \in DOMAIN rooms /\ r \in Room /\ rooms'[r] = rooms[r]
    BY DEF KeeperTypeOK
  <2>2. /\ Exists(r)
        /\ rooms[r].creator = room[r].creator
        /\ rooms[r].deadline = room[r].deadline
        /\ rooms[r].room_solution_hash = room[r].room_solution_hash
        /\ rooms[r].opponent # DefaultPubkey => rooms[r].opponent = room[r].opponent
    BY <2>1 DEF KeeperInv, SnapshotIsPast
  <2> QED
    BY <2>1, <2>2, RoomsKeep DEF Joined
<1>2. \A c \in {call'} \cup sent' : c.instruction # "none" =>
        c \in {call} \cup sent /\ c \in Calls
  BY DEF NoCall, KeeperTypeOK
<1>3. WordCallsDerived'
  <2> SUFFICES ASSUME NEW c \in {call'} \cup sent', c.instruction = "set_duel_word"
               PROVE  /\ Exists(c.room)'
                      /\ c.word_hash =
                           DuelSolutionHash(room'[c.room].room_solution_hash,
                                            WordOf[room'[c.room].room_solution_hash])
    BY DEF WordCallsDerived
  <2>1. c \in {call} \cup sent /\ c.room \in Room
    BY <1>2 DEF Calls
  <2>2. /\ Exists(c.room)
        /\ c.word_hash = DuelSolutionHash(room[c.room].room_solution_hash,
                                          WordOf[room[c.room].room_solution_hash])
    BY <2>1 DEF KeeperInv, WordCallsDerived
  <2> QED
    BY <2>1, <2>2, RoomsKeep
<1>4. SettleCallIsDue'
  <2> SUFFICES ASSUME NEW c \in {call'} \cup sent', c.instruction = "settle_duel"
               PROVE  /\ Exists(c.room)'
                      /\ now' >= room'[c.room].deadline
                      /\ c.creator = room'[c.room].creator
                      /\ c.opponent = room'[c.room].opponent
    BY DEF SettleCallIsDue
  <2>1. c \in {call} \cup sent /\ c.room \in Room /\ c.opponent \in Player
    BY <1>2 DEF Calls
  <2>2. /\ Exists(c.room)
        /\ now >= room[c.room].deadline
        /\ c.creator = room[c.room].creator
        /\ c.opponent = room[c.room].opponent
    BY <2>1 DEF KeeperInv, SettleCallIsDue
  <2>3. Joined(c.room)
    BY <2>1, <2>2, PlayersAreSomebody DEF Joined
  <2>4. now \in Nat /\ now' \in Int /\ room[c.room].deadline \in Nat
    <3>1. TypeOK'
      BY TypeOKStep
    <3> QED
      BY <2>1, <3>1, DuelAssumption DEF TypeOK, RoomRecord
  <2> QED
    BY <2>1, <2>2, <2>3, <2>4, RoomsKeep
<1> QED
  BY <1>1, <1>3, <1>4

LEMMA DerivedWordTyped ==
  ASSUME KeeperInv, NEW r \in DOMAIN rooms, NeedsWord(r)
  PROVE  /\ r \in Room
         /\ DerivedWordHash(r) \in DuelSolutionHashes
         /\ DerivedWordHash(r) =
              DuelSolutionHash(room[r].room_solution_hash,
                               WordOf[room[r].room_solution_hash])
<1>1. r \in Room
  BY DEF KeeperInv, KeeperTypeOK
<1>2. Exists(r) /\ rooms[r].room_solution_hash = room[r].room_solution_hash
  BY DEF KeeperInv, SnapshotIsPast
<1>3. room[r].room_solution_hash \in RoomSolutionHashes
  BY <1>1, <1>2 DEF KeeperInv, HashedRooms
<1>4. WordOf[room[r].room_solution_hash] \in Word
  BY <1>3, KeeperAssumption
<1> QED
  BY <1>1, <1>2, <1>3, <1>4 DEF DerivedWordHash, DuelSolutionHashes

LEMMA SettleCallTyped ==
  ASSUME KeeperInv, NEW r \in DOMAIN rooms, MaySettle(r)
  PROVE  /\ r \in Room
         /\ rooms[r].creator \in Player /\ rooms[r].opponent \in Player
         /\ Exists(r)
         /\ rooms[r].creator = room[r].creator
         /\ rooms[r].opponent = room[r].opponent
         /\ rooms[r].deadline = room[r].deadline
<1>1. r \in Room
  BY DEF KeeperInv, KeeperTypeOK
<1>2. /\ Exists(r)
      /\ rooms[r].creator = room[r].creator
      /\ rooms[r].deadline = room[r].deadline
      /\ rooms[r].opponent # DefaultPubkey
      /\ rooms[r].opponent = room[r].opponent
  BY DEF KeeperInv, SnapshotIsPast, MaySettle
<1>3. room[r] \in RoomRecord
  BY <1>1 DEF KeeperInv, IInv, TypeOK
<1> QED
  BY <1>1, <1>2, <1>3 DEF Exists, RoomRecord

LEMMA KeeperTypeStep == KeeperInv /\ [KeeperNext]_keeperVars => KeeperTypeOK'
<1> SUFFICES ASSUME KeeperInv, [KeeperNext]_keeperVars PROVE KeeperTypeOK'
  OBVIOUS
<1> KeeperTypeOK
  BY DEF KeeperInv
<1> USE DEF KeeperTypeOK
<1>1. CASE Poll
  BY <1>1 DEF Poll, KeeperInv, IInv, TypeOK
<1>2. CASE EndPoll \/ Confirmed \/ Restart
  BY <1>2 DEF EndPoll, Confirmed, Restart, LoadWordList
<1>3. CASE CallFails
  BY <1>3 DEF CallFails, LeftAfterError
<1>4. ASSUME NEW r \in Room, PassOver(r) \/ TooEarly(r)
      PROVE  KeeperTypeOK'
  BY <1>4 DEF PassOver, TooEarly, MoveOn
<1>5. ASSUME NEW r \in Room, NEW c \in Calls, Visit(r), Await(c), MoveOn(r),
             wordList' = wordList, faults' = faults
      PROVE  KeeperTypeOK'
  BY <1>5 DEF Visit, Await, MoveOn
<1>6. ASSUME NEW r \in Room, processSetDuelWord(r)
      PROVE  KeeperTypeOK'
  <2>1. r \in DOMAIN rooms /\ NeedsWord(r)
    BY <1>6 DEF processSetDuelWord, Visit
  <2>2. WordCall(r, DerivedWordHash(r)) \in Calls
    BY <2>1, DerivedWordTyped DEF WordCall, Calls
  <2> QED
    BY <1>5, <1>6, <2>2 DEF processSetDuelWord
<1>7. ASSUME NEW r \in Room, processSettleDuel(r)
      PROVE  KeeperTypeOK'
  <2>1. r \in DOMAIN rooms /\ MaySettle(r)
    BY <1>7 DEF processSettleDuel, Visit
  <2>2. SettleCall(r, rooms[r].creator, rooms[r].opponent) \in Calls
    BY <2>1, SettleCallTyped DEF SettleCall, Calls
  <2> QED
    BY <1>5, <1>7, <2>2 DEF processSettleDuel
<1>8. Fault => faults' \in 0..MaxFaults
  BY KeeperAssumption DEF Fault
<1>9. CASE LoopFault
  BY <1>8, <1>9 DEF LoopFault, Killed, NoBlockTime, BlockTimeFails, MoveOn, NoRooms
<1>10. ASSUME NEW t \in sent, Land(t)
       PROVE  KeeperTypeOK'
  BY <1>10 DEF Land, loopVars
<1>11. ASSUME NEW t \in sent, Drop(t)
       PROVE  KeeperTypeOK'
  BY <1>8, <1>11 DEF Drop, loopVars
<1>12. CASE OthersNext
  BY <1>12, OthersAreForeign DEF loopVars
<1>13. CASE UNCHANGED keeperVars
  BY <1>13 DEF keeperVars, loopVars
<1> QED
  BY <1>1, <1>2, <1>3, <1>4, <1>6, <1>7, <1>9, <1>10, <1>11, <1>12, <1>13
  DEF KeeperNext, Loop, Network

LEMMA PastStep ==
  KeeperInv /\ [KeeperNext]_keeperVars =>
    SnapshotIsPast' /\ WordCallsDerived' /\ SettleCallIsDue'
<1> DEFINE Goal == SnapshotIsPast' /\ WordCallsDerived' /\ SettleCallIsDue'
<1> SUFFICES ASSUME KeeperInv, [KeeperNext]_keeperVars PROVE Goal
  OBVIOUS
<1> KeeperTypeOK /\ SnapshotIsPast /\ WordCallsDerived /\ SettleCallIsDue
  BY DEF KeeperInv
<1>a. [Next]_vars
  BY KeeperStepIsDuelStep
<1>b. ASSUME DOMAIN rooms' \subseteq DOMAIN rooms,
             \A r \in DOMAIN rooms' : rooms'[r] = rooms[r],
             call' \in {call, NoCall}, sent' \subseteq sent
      PROVE  Goal
  BY <1>a, <1>b, PastIsStable
<1>c. ASSUME NEW r \in Room, MoveOn(r)
      PROVE  /\ DOMAIN rooms' \subseteq DOMAIN rooms
             /\ \A q \in DOMAIN rooms' : rooms'[q] = rooms[q]
  BY <1>c DEF MoveOn
<1>1. CASE Poll
  <2>1. /\ rooms' = [r \in {q \in Room : Exists(q)} |-> room[r]]
        /\ room' = room /\ now' = now /\ call' = call /\ sent' = sent
    BY <1>1 DEF Poll, vars
  <2>2. SnapshotIsPast'
    BY <2>1 DEF SnapshotIsPast, Exists
  <2>3. WordCallsDerived' /\ SettleCallIsDue'
    BY <2>1 DEF WordCallsDerived, SettleCallIsDue, Exists
  <2> QED
    BY <2>2, <2>3
<1>2. CASE EndPoll \/ Confirmed \/ Restart \/ CallFails
  BY <1>b, <1>2 DEF EndPoll, Confirmed, Restart, CallFails, LeftAfterError
<1>3. ASSUME NEW r \in Room, PassOver(r) \/ TooEarly(r) \/ NoBlockTime(r)
      PROVE  Goal
  BY <1>b, <1>c, <1>3 DEF PassOver, TooEarly, NoBlockTime
<1>4. CASE Killed \/ \E r \in Room : BlockTimeFails(r)
  BY <1>b, <1>4 DEF Killed, BlockTimeFails, NoRooms
<1>5. ASSUME NEW r \in Room, NEW c \in Calls, Await(c), MoveOn(r), UNCHANGED vars,
             c.instruction = "set_duel_word" =>
               /\ Exists(c.room)
               /\ c.word_hash = DuelSolutionHash(room[c.room].room_solution_hash,
                                  WordOf[room[c.room].room_solution_hash]),
             c.instruction = "settle_duel" =>
               /\ Exists(c.room)
               /\ now >= room[c.room].deadline
               /\ c.creator = room[c.room].creator
               /\ c.opponent = room[c.room].opponent
      PROVE  Goal
  <2>1. /\ room' = room /\ now' = now
        /\ call' = c
        /\ sent' \subseteq sent \cup {c}
    BY <1>5 DEF Await, vars
  <2>2. SnapshotIsPast'
    BY <1>c, <1>5, <2>1 DEF SnapshotIsPast, Exists
  <2>3. WordCallsDerived'
    BY <1>5, <2>1 DEF WordCallsDerived, Exists
  <2>4. SettleCallIsDue'
    BY <1>5, <2>1 DEF SettleCallIsDue, Exists
  <2> QED
    BY <2>2, <2>3, <2>4
<1>6. ASSUME NEW r \in Room, processSetDuelWord(r)
      PROVE  Goal
  <2> DEFINE c == WordCall(r, DerivedWordHash(r))
  <2>1. r \in DOMAIN rooms /\ NeedsWord(r)
    BY <1>6 DEF processSetDuelWord, Visit
  <2>2. /\ c \in Calls /\ c.instruction = "set_duel_word" /\ c.room = r
        /\ c.word_hash = DuelSolutionHash(room[r].room_solution_hash,
                                          WordOf[room[r].room_solution_hash])
    BY <2>1, DerivedWordTyped DEF WordCall, Calls
  <2>3. Exists(r)
    BY <2>1 DEF SnapshotIsPast
  <2>4. Await(c) /\ MoveOn(r) /\ UNCHANGED vars
    BY <1>6 DEF processSetDuelWord
  <2> HIDE DEF c
  <2> QED
    BY <1>5, <2>2, <2>3, <2>4
<1>7. ASSUME NEW r \in Room, processSettleDuel(r)
      PROVE  Goal
  <2> DEFINE c == SettleCall(r, rooms[r].creator, rooms[r].opponent)
  <2>1. r \in DOMAIN rooms /\ MaySettle(r) /\ now >= rooms[r].deadline
    BY <1>7 DEF processSettleDuel, Visit, PastDeadline
  <2>2. /\ c \in Calls /\ c.instruction = "settle_duel" /\ c.room = r
        /\ c.creator = room[r].creator /\ c.opponent = room[r].opponent
    BY <2>1, SettleCallTyped DEF SettleCall, Calls
  <2>3. Exists(r) /\ now >= room[r].deadline
    BY <2>1, SettleCallTyped
  <2>4. Await(c) /\ MoveOn(r) /\ UNCHANGED vars
    BY <1>7 DEF processSettleDuel
  <2> HIDE DEF c
  <2> QED
    BY <1>5, <2>2, <2>3, <2>4
<1>8. CASE Network
  BY <1>b, <1>8 DEF Network, Land, Drop, loopVars
<1>9. CASE OthersNext
  BY <1>b, <1>9, OthersAreForeign DEF loopVars
<1>10. CASE UNCHANGED keeperVars
  BY <1>b, <1>10 DEF keeperVars, loopVars
<1> QED
  BY <1>1, <1>2, <1>3, <1>4, <1>6, <1>7, <1>8, <1>9, <1>10
  DEF KeeperNext, Loop, LoopFault

LEMMA DerivedStep == KeeperInv /\ [KeeperNext]_keeperVars => KeeperWordIsDerived'
<1> SUFFICES ASSUME KeeperInv, [KeeperNext]_keeperVars, NEW q \in Room,
                    room'[q].word_set
             PROVE  room'[q].duel_solution_hash =
                      DuelSolutionHash(room'[q].room_solution_hash,
                                       WordOf[room'[q].room_solution_hash])
  BY DEF KeeperWordIsDerived
<1> /\ KeeperTypeOK /\ TypeOK /\ BlankRooms /\ HashedRooms
    /\ KeeperWordIsDerived /\ WordCallsDerived
  BY DEF KeeperInv, IInv
<1>1. CASE Foreign
  <2>1. /\ Exists(q) /\ room[q].word_set
        /\ room'[q].duel_solution_hash = room[q].duel_solution_hash
    BY <1>1, WordsKeep
  <2>2. room'[q].room_solution_hash = room[q].room_solution_hash
    BY <1>1, <2>1, RoomsKeep, ForeignIsNext
  <2> QED
    BY <2>1, <2>2 DEF KeeperWordIsDerived
<1>2. ASSUME NEW t \in sent, Land(t), t.instruction = "set_duel_word"
      PROVE  room'[q].duel_solution_hash =
               DuelSolutionHash(room'[q].room_solution_hash,
                                WordOf[room'[q].room_solution_hash])
  <2>1. t.room \in Room /\ t.word_hash \in DuelSolutionHashes
    BY <1>2 DEF KeeperTypeOK, Calls
  <2>2. t.word_hash = DuelSolutionHash(room[t.room].room_solution_hash,
                                       WordOf[room[t.room].room_solution_hash])
    BY <1>2 DEF WordCallsDerived
  <2>3. room' = [room EXCEPT ![t.room].duel_solution_hash = t.word_hash,
                             ![t.room].word_set = TRUE]
    BY <1>2 DEF Land, set_duel_word
  <2>4. CASE q = t.room
    BY <2>1, <2>2, <2>3, <2>4 DEF TypeOK, RoomRecord
  <2>5. CASE q # t.room
    <3>1. room'[q] = room[q]
      BY <2>1, <2>3, <2>5 DEF TypeOK
    <3> QED
      BY <3>1 DEF KeeperWordIsDerived
  <2> QED
    BY <2>4, <2>5
<1>3. ASSUME NEW t \in sent, Land(t), t.instruction # "set_duel_word"
      PROVE  Foreign
  <2>1. t.room \in Room
    BY <1>3 DEF KeeperTypeOK, Calls
  <2>2. RoomAta[USDC_MINT] \in Vault
    BY KeeperAssumption, DuelAssumption
  <2>3. SettleDuel(t.room)
    BY <1>3, <2>2, KeeperAssumption DEF Land, SettleFor, SettleDuel, settle_duel
  <2> QED
    BY <2>1, <2>3 DEF Foreign
<1>4. CASE Loop \/ LoopFault \/ (\E t \in sent : Drop(t)) \/ UNCHANGED keeperVars
  BY <1>1, <1>4, ScriptIsQuiet DEF Foreign
<1> QED
  BY <1>1, <1>2, <1>3, <1>4, OthersAreForeign DEF KeeperNext, Network

LEMMA KeeperInvStep == KeeperInv /\ [KeeperNext]_keeperVars => KeeperInv'
<1> SUFFICES ASSUME KeeperInv, [KeeperNext]_keeperVars PROVE KeeperInv'
  OBVIOUS
<1>1. [Next]_vars
  BY KeeperStepIsDuelStep DEF KeeperInv
<1>2. IInv'
  BY <1>1, IInvStep DEF KeeperInv
<1>3. HashedRooms'
  BY <1>1, HashedStep DEF KeeperInv, IInv
<1> QED
  BY <1>2, <1>3, KeeperTypeStep, PastStep, DerivedStep DEF KeeperInv

LEMMA KeeperInvHolds == KeeperSpec => []KeeperInv
BY KeeperInvInit, KeeperInvStep, PTL DEF KeeperSpec

(***************************************************************************)
(* The program next to the script and the network is the program: every    *)
(* theorem about Duel holds of it.                                         *)
(***************************************************************************)
THEOREM KeeperImplementsDuel == KeeperSpec => Spec
<1>1. KeeperInit => Init
  BY DEF KeeperInit
<1>2. KeeperInv /\ [KeeperNext]_keeperVars => [Next]_vars
  BY KeeperStepIsDuelStep DEF KeeperInv
<1> QED
  BY <1>1, <1>2, KeeperInvHolds, PTL DEF KeeperSpec, Spec

(***************************************************************************)
(* The script's variables and its transactions always have their types.    *)
(***************************************************************************)
THEOREM KeeperTypeCorrect == KeeperSpec => []KeeperTypeOK
<1>1. KeeperInv => KeeperTypeOK
  BY DEF KeeperInv
<1> QED
  BY <1>1, KeeperInvHolds, PTL

(***************************************************************************)
(* Through snapshots, retries, restarts and late transactions a room gets  *)
(* no other word than the one its own hash selects.                        *)
(***************************************************************************)
THEOREM WordsAreDerived == KeeperSpec => []KeeperWordIsDerived
<1>1. KeeperInv => KeeperWordIsDerived
  BY DEF KeeperInv
<1> QED
  BY <1>1, KeeperInvHolds, PTL

(***************************************************************************)
(* No settlement the script asks for is premature or names a wallet that   *)
(* does not sit in the room, however stale its snapshot is.                *)
(***************************************************************************)
THEOREM SettleCallsAreDue == KeeperSpec => []SettleCallIsDue
<1>1. KeeperInv => SettleCallIsDue
  BY DEF KeeperInv
<1> QED
  BY <1>1, KeeperInvHolds, PTL

(***************************************************************************)
(* No word but the list's own for the room opens a commitment in it: what  *)
(* players reveal and what the script derived are the same word.           *)
(***************************************************************************)
THEOREM RevealersHaveTheWord == KeeperSpec => []RevealersKnewTheWord
<1>1. KeeperInv => RevealersKnewTheWord
  <2> SUFFICES ASSUME KeeperInv, NEW r \in Room, NEW p \in Player, entry[r][p].revealed
               PROVE  \E salt \in Salt : entry[r][p].commit_hash =
                        <<WordOf[room[r].room_solution_hash], salt, p>>
    BY DEF RevealersKnewTheWord
  <2> DEFINE h == room[r].room_solution_hash
  <2>1. PICK word \in Word, salt \in Salt :
          /\ entry[r][p].commit_hash = <<word, salt, p>>
          /\ room[r].duel_solution_hash = <<h, word>>
    BY DEF KeeperInv, IInv, RevealedProvesWord
  <2>2. room[r].word_set
    <3>1. entry[r][p].commit_hash # ZERO
      BY <2>1, ZeroIsNoDigest DEF CommitHashes, CommitHash
    <3> QED
      BY <3>1 DEF KeeperInv, IInv, CommitTimeline
  <2>3. room[r].duel_solution_hash = <<h, WordOf[h]>>
    BY <2>2 DEF KeeperInv, KeeperWordIsDerived, DuelSolutionHash
  <2>4. word = WordOf[h]
    BY <2>1, <2>3
  <2> QED
    BY <2>1, <2>4
<1> QED
  BY <1>1, KeeperInvHolds, PTL
=============================================================================
