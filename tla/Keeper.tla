------------------------------- MODULE Keeper -------------------------------
(***************************************************************************)
(* scripts/keeper.ts next to the program.  The keeper polls all rooms into *)
(* a snapshot and then visits them one by one, awaiting at most one call   *)
(* at a time, while every other wallet goes on using the program and the   *)
(* clock runs.  So a room is visited as it WAS, a transaction may land     *)
(* long after its call was given up, and a keeper that was killed starts   *)
(* over with its transactions still on the way.                            *)
(*                                                                         *)
(* Only this script signs set_duel_word, with AUTHORITY_KEYPAIR.  Every    *)
(* other instruction of Duel is somebody else's, a settlement by another   *)
(* wallet included.                                                        *)
(***************************************************************************)
EXTENDS Duel

CONSTANTS
  AUTHORITY_KEYPAIR,
  KEEPER_KEYPAIR,       \* the authority's own when the variable is not set
  WORD_LIST,            \* the words of the file, unless it is empty
  WordOf,               \* WORD_LIST[readUInt32LE(room_solution_hash) % length]
  USDC_MINT,
  Ata,                  \* the associated USDC account of each wallet
  MaxFaults             \* bound: how many RPC failures and kills there are

ASSUME KeeperAssumption ==
  /\ AUTHORITY_KEYPAIR \in Wallet
  /\ KEEPER_KEYPAIR \in Wallet
  /\ WORD_LIST \subseteq Word
  /\ WordOf \in [RoomSolutionHashes -> WORD_LIST]
  /\ USDC_MINT \in Mint
  /\ \A w \in Wallet : Ata[w] \in AccountsOf(w)
  /\ MaxFaults \in Nat

VARIABLES
  pc,           \* "sleeping", "visiting", "awaiting" or "down"
  rooms,        \* what the poll fetched of the rooms not yet visited
  call,         \* the client call being awaited, or NoCall
  wordList,     \* what the process has read of the file when it was started
  sent,         \* the transactions that have neither landed nor expired
  faults        \* failures so far

loopVars == <<pc, rooms, call, wordList>>
keeperVars == <<vars, loopVars, sent, faults>>

NoRooms == [r \in {} |-> ZeroRoom]

NoCall == [instruction |-> "none"]

WordCall(r, word_hash) ==
  [instruction |-> "set_duel_word", room |-> r, word_hash |-> word_hash]

SettleCall(r, creator, opponent) ==
  [instruction |-> "settle_duel", room |-> r, creator |-> creator,
   opponent |-> opponent]

Calls ==
  [instruction : {"set_duel_word"}, room : Room, word_hash : DuelSolutionHashes]
    \cup [instruction : {"settle_duel"}, room : Room, creator : Player,
          opponent : Player]

\* The script holds what its code can put there.
KeeperTypeOK ==
  /\ pc \in {"sleeping", "visiting", "awaiting", "down"}
  /\ DOMAIN rooms \subseteq Room
  /\ rooms \in [DOMAIN rooms -> RoomRecord]
  /\ call \in Calls \cup {NoCall}
  /\ wordList \in {WORD_LIST, {}}
  /\ sent \subseteq Calls
  /\ faults \in 0..MaxFaults

\* loadWordList: the file may hold no word of five letters.
LoadWordList(list) == list \in {WORD_LIST, {}}

KeeperInit ==
  /\ Init
  /\ pc = "sleeping"
  /\ rooms = NoRooms
  /\ call = NoCall
  /\ LoadWordList(wordList)
  /\ sent = {}
  /\ faults = 0

Fault == faults < MaxFaults /\ faults' = faults + 1

-----------------------------------------------------------------------------
(* What the script makes of a room in its snapshot.                        *)

NeedsWord(r) ==
  rooms[r].status = "Active" /\ ~rooms[r].word_set /\ wordList # {}

\* Broken: a room nobody has joined is a candidate.
MaySettleAlone(r) == rooms[r].status = "Active" /\ ~NeedsWord(r)

\* Broken: a room is a candidate only once it has its word.
MaySettleWorded(r) ==
  /\ rooms[r].status = "Active"
  /\ rooms[r].word_set
  /\ rooms[r].opponent # DefaultPubkey

\* With an empty word list a room without a word is a candidate too.
MaySettle(r) ==
  /\ rooms[r].status = "Active"
  /\ ~NeedsWord(r)
  /\ rooms[r].opponent # DefaultPubkey

\* Broken: the room is settled as soon as there is an opponent.
PastDeadlineIgnored(r) == TRUE

PastDeadline(r) == now >= rooms[r].deadline

\* Broken: every room gets the first word of the list.
FirstWordHash(r) ==
  DuelSolutionHash(rooms[r].room_solution_hash, CHOOSE w \in WORD_LIST : TRUE)

DerivedWordHash(r) ==
  LET h == rooms[r].room_solution_hash IN DuelSolutionHash(h, WordOf[h])

\* Broken: an error of one room's call ends the poll.
NothingLeft == NoRooms

\* The rooms left to visit after a call that failed: the error is caught.
LeftAfterError == rooms

-----------------------------------------------------------------------------
(* The loop.                                                               *)

\* A failing fetch is caught, and the loop sleeps again: nothing changes.
Poll ==
  /\ pc = "sleeping"
  /\ pc' = "visiting"
  /\ rooms' = [r \in {q \in Room : Exists(q)} |-> room[r]]
  /\ UNCHANGED <<call, wordList, sent, faults, vars>>

EndPoll ==
  /\ pc = "visiting"
  /\ DOMAIN rooms = {}
  /\ pc' = "sleeping"
  /\ UNCHANGED <<rooms, call, wordList, sent, faults, vars>>

\* The rooms come in the order the node lists them, which is none in particular.
Visit(r) ==
  /\ pc = "visiting"
  /\ r \in DOMAIN rooms

MoveOn(r) == rooms' = [q \in DOMAIN rooms \ {r} |-> rooms[q]]

PassOver(r) ==
  /\ Visit(r)
  /\ ~NeedsWord(r) /\ ~MaySettle(r)
  /\ MoveOn(r)
  /\ UNCHANGED <<pc, call, wordList, sent, faults, vars>>

\* The key a call's transaction asks the signature of.
Signer(c) ==
  IF c.instruction = "set_duel_word" THEN AUTHORITY_KEYPAIR ELSE KEEPER_KEYPAIR

\* The provider's wallet is the authority's, and .rpc() is given no other key.
Signed(c) == Signer(c) = AUTHORITY_KEYPAIR

\* A transaction that lacks a signature is not sent: the call fails.
Await(c) ==
  /\ pc' = "awaiting"
  /\ call' = c
  /\ sent' = IF Signed(c) THEN sent \cup {c} ELSE sent

processSetDuelWord(r) ==
  /\ Visit(r)
  /\ NeedsWord(r)
  /\ Await(WordCall(r, DerivedWordHash(r)))
  /\ MoveOn(r)
  /\ UNCHANGED <<wordList, faults, vars>>

processSettleDuel(r) ==
  /\ Visit(r)
  /\ MaySettle(r)
  /\ PastDeadline(r)
  /\ Await(SettleCall(r, rooms[r].creator, rooms[r].opponent))
  /\ MoveOn(r)
  /\ UNCHANGED <<wordList, faults, vars>>

TooEarly(r) ==
  /\ Visit(r)
  /\ MaySettle(r)
  /\ ~PastDeadline(r)
  /\ MoveOn(r)
  /\ UNCHANGED <<pc, call, wordList, sent, faults, vars>>

\* The node knows no block time: the room is left for the next poll.
NoBlockTime(r) ==
  /\ Visit(r)
  /\ MaySettle(r)
  /\ Fault
  /\ MoveOn(r)
  /\ UNCHANGED <<pc, call, wordList, sent, vars>>

\* getSlot or getBlockTime throws, outside the room's own try: the poll is over.
BlockTimeFails(r) ==
  /\ Visit(r)
  /\ MaySettle(r)
  /\ Fault
  /\ pc' = "sleeping"
  /\ rooms' = NoRooms
  /\ UNCHANGED <<call, wordList, sent, vars>>

\* The client hears of the transaction; if it was rejected, as in CallFails.
Confirmed ==
  /\ pc = "awaiting"
  /\ Signed(call)
  /\ call \notin sent
  /\ pc' = "visiting"
  /\ call' = NoCall
  /\ UNCHANGED <<rooms, wordList, sent, faults, vars>>

\* The call throws: not signed, rejected, or no answer in time.
CallFails ==
  /\ pc = "awaiting"
  /\ pc' = "visiting"
  /\ call' = NoCall
  /\ rooms' = LeftAfterError
  /\ UNCHANGED <<wordList, sent, faults, vars>>

Killed ==
  /\ pc # "down"
  /\ Fault
  /\ pc' = "down"
  /\ rooms' = NoRooms
  /\ call' = NoCall
  /\ UNCHANGED <<wordList, sent, vars>>

Restart ==
  /\ pc = "down"
  /\ pc' = "sleeping"
  /\ LoadWordList(wordList')
  /\ UNCHANGED <<rooms, call, sent, faults, vars>>

Loop ==
  \/ Poll \/ EndPoll \/ Confirmed \/ CallFails \/ Restart
  \/ \E r \in Room : \/ PassOver(r) \/ processSetDuelWord(r)
                     \/ TooEarly(r) \/ processSettleDuel(r)

LoopFault == Killed \/ \E r \in Room : NoBlockTime(r) \/ BlockTimeFails(r)

-----------------------------------------------------------------------------
(* The network and the program.                                            *)

\* settle_duel with the accounts the client derives.
SettleFor(t) ==
  settle_duel(t.room, KEEPER_KEYPAIR, Ata[t.creator], Ata[t.opponent],
              Ata[KEEPER_KEYPAIR], Ata[AUTHORITY_KEYPAIR], RoomAta[USDC_MINT])

\* Would the program take the transaction now?
Accepts(t) ==
  /\ Active(t.room)
  /\ config.authority = AUTHORITY_KEYPAIR
  /\ IF t.instruction = "set_duel_word"
     THEN WordUnset(t.room)
     ELSE /\ Due(t.room)
          /\ PoolsPot(t.room, RoomAta[USDC_MINT])
          /\ PayoutAccountsDistinct(Ata[t.creator], Ata[t.opponent],
                                    Ata[KEEPER_KEYPAIR], Ata[AUTHORITY_KEYPAIR])

Land(t) ==
  /\ t \in sent
  /\ sent' = sent \ {t}
  /\ IF t.instruction = "set_duel_word"
     THEN set_duel_word(t.room, AUTHORITY_KEYPAIR, t.word_hash)
     ELSE SettleFor(t)
  /\ UNCHANGED <<loopVars, faults>>

\* The program rejects the transaction, or its blockhash expires unseen.
Drop(t) ==
  /\ t \in sent
  /\ sent' = sent \ {t}
  /\ IF Accepts(t) THEN Fault ELSE UNCHANGED faults
  /\ UNCHANGED <<loopVars, vars>>

Network == \E t \in sent : Land(t) \/ Drop(t)

\* What the other wallets do, and the clock.
Others(A) == A /\ UNCHANGED <<loopVars, sent, faults>>

OthersNext ==
  \/ Others(PlatformNext /\ UNCHANGED <<now, duelVars>>)
  \/ Others(CreateDuel)
  \/ Others(OpenAnyVault)
  \/ Others(JoinDuel)
  \/ Others(CommitDuelSolution)
  \/ Others(RevealDuelSolution)
  \/ \E r \in Room : Others(SettleDuel(r))
  \/ Others(CancelDuel)
  \/ Others(Tick)

KeeperNext == Loop \/ LoopFault \/ Network \/ OthersNext

KeeperSpec == KeeperInit /\ [][KeeperNext]_keeperVars

LandWord(r) ==
  \E t \in sent : t.instruction = "set_duel_word" /\ t.room = r /\ Land(t)

(***************************************************************************)
(* The process runs, is started again when it was killed, and a word the   *)
(* program would take lands unless it is lost.  Time passes.  Failures are *)
(* finitely many; nothing is assumed of any other wallet.                  *)
(***************************************************************************)
FairKeeperSpec ==
  /\ KeeperSpec
  /\ WF_keeperVars(Loop)
  /\ \A r \in Room : WF_keeperVars(LandWord(r))
  /\ WF_keeperVars(Others(Tick))

-----------------------------------------------------------------------------
(***************************************************************************)
(* While only the script sets words, every room's word is the one its      *)
(* room_solution_hash selects, although it is computed from a snapshot and *)
(* the same transaction may be sent again, by a restarted script too, and  *)
(* land at any later time.                                                 *)
(***************************************************************************)
KeeperWordIsDerived ==
  \A r \in Room : room[r].word_set =>
    LET h == room[r].room_solution_hash
    IN  room[r].duel_solution_hash = DuelSolutionHash(h, WordOf[h])

(***************************************************************************)
(* Whoever has revealed committed the very word the list gives the room,   *)
(* whenever the script's transaction came in: before the opponent's join   *)
(* or after it, late, or sent twice.                                       *)
(***************************************************************************)
RevealersKnewTheWord ==
  \A r \in Room, p \in Player : entry[r][p].revealed =>
    \E salt \in Salt :
      entry[r][p].commit_hash = <<WordOf[room[r].room_solution_hash], salt, p>>

(***************************************************************************)
(* The script never asks for a settlement the program would refuse as      *)
(* premature or misaddressed: when it makes the call the room's deadline   *)
(* has passed and the two wallets it names sit in the room, however old    *)
(* the snapshot is, and this stays so for a transaction on its way.        *)
(***************************************************************************)
SettleCallIsDue ==
  \A c \in {call} \cup sent : c.instruction = "settle_duel" =>
    /\ Exists(c.room)
    /\ now >= room[c.room].deadline
    /\ c.creator = room[c.room].creator
    /\ c.opponent = room[c.room].opponent

(***************************************************************************)
(* Every room gets its word, or is closed by somebody first, unless the    *)
(* script comes to run with an empty list: no room is starved by the       *)
(* failing calls of others, by losses or by restarts.                      *)
(***************************************************************************)
EveryRoomGetsItsWord ==
  \A r \in Room :
    Active(r) ~> (room[r].word_set \/ ~Active(r) \/ wordList = {})

(***************************************************************************)
(* Every joined room past its deadline is closed by somebody or comes to   *)
(* the script's settlement call, whether or not it had a word before: with *)
(* an empty list no room ever gets one.                                    *)
(***************************************************************************)
Tried(r) == call.instruction = "settle_duel" /\ call.room = r

EveryDueRoomIsTried ==
  \A r \in Room :
    (Active(r) /\ Joined(r) /\ now >= room[r].deadline)
      ~> (~Active(r) \/ Tried(r))
=============================================================================
