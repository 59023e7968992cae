------------------------------- MODULE Escrow -------------------------------
(***************************************************************************)
(* What the duel promises about money, and nothing else: each room has one *)
(* pot.  A first stake opens it, one equal stake may match it, and it is   *)
(* emptied exactly once: back to one account when it was never matched,    *)
(* else shared out among four different accounts.  No other step moves a   *)
(* token.                                                                  *)
(***************************************************************************)
EXTENDS Integers

CONSTANTS
  PotId, Account,
  OpeningBalance,     \* what each account holds at first
  Amount              \* the possible first stakes

VARIABLES
  funds,      \* the balance of each account
  pot,        \* what each pot holds
  phase       \* "none", "open", "matched" or "closed"

escrowVars == <<funds, pot, phase>>

EscrowInit ==
  /\ funds = OpeningBalance
  /\ pot = [i \in PotId |-> 0]
  /\ phase = [i \in PotId |-> "none"]

\* An account pays a stake it can afford into a pot.
Stake(i, a, stake) ==
  /\ funds[a] >= stake
  /\ funds' = [funds EXCEPT ![a] = @ - stake]
  /\ pot' = [pot EXCEPT ![i] = @ + stake]

OpenPot(i) ==
  /\ phase[i] = "none"
  /\ phase' = [phase EXCEPT ![i] = "open"]
  /\ \E a \in Account : \E stake \in Amount : Stake(i, a, stake)

MatchPot(i) ==
  /\ phase[i] = "open"
  /\ phase' = [phase EXCEPT ![i] = "matched"]
  /\ \E a \in Account : Stake(i, a, pot[i])

Empty(i) ==
  /\ phase' = [phase EXCEPT ![i] = "closed"]
  /\ pot' = [pot EXCEPT ![i] = 0]

CancelPot(i) ==
  /\ phase[i] = "open"
  /\ Empty(i)
  /\ \E a \in Account : funds' = [funds EXCEPT ![a] = @ + pot[i]]

Gain(a) == funds'[a] - funds[a]

SharePot(i) ==
  /\ phase[i] = "matched"
  /\ Empty(i)
  /\ \E c, o, k, p \in Account :
       /\ c \notin {o, k, p} /\ o \notin {k, p} /\ k # p
       /\ Gain(c) + Gain(o) + Gain(k) + Gain(p) = pot[i]
       /\ \A a \in {c, o, k, p} : Gain(a) >= 0
       /\ \A a \in Account \ {c, o, k, p} : Gain(a) = 0

EscrowNext == \E i \in PotId : OpenPot(i) \/ MatchPot(i) \/ CancelPot(i) \/ SharePot(i)

EscrowSpec == EscrowInit /\ [][EscrowNext]_escrowVars
=============================================================================
