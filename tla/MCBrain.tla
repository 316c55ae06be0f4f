------------------------------- MODULE MCBrain -------------------------------
(***************************************************************************)
(* Brain for TLC: one or two sources, a cooldown of a few seconds.         *)
(***************************************************************************)
EXTENDS Brain

CONSTANTS a, x
=============================================================================
