----------------------------- MODULE MCDayCron ------------------------------
(***************************************************************************)
(* Two days with different words, and runs that may be for either.         *)
(***************************************************************************)
EXTENDS DayCron, TLC

CONSTANTS night, torch

MCWordOfDay == (1 :> night) @@ (2 :> torch)
=============================================================================
