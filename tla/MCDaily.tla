------------------------------ MODULE MCDaily -------------------------------
(***************************************************************************)
(* Three days and three players, so that a u32 of two overflows.  The      *)
(* third day's digest may be made with a stale seed.                       *)
(***************************************************************************)
EXTENDS Daily

CONSTANTS alice, bob, carol, op, seed1, seed2, night, torch

MCDayInput ==
  {<<d, seed1, <<seed1, night>>>> : d \in 1..2}
    \cup {<<d, seed2, <<seed2, torch>>>> : d \in 2..3}
    \cup {<<3, seed2, <<seed1, night>>>>}
=============================================================================
