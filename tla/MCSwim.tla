------------------------------- MODULE MCSwim -------------------------------
(* A small membership service for TLC.                                     *)
EXTENDS Swim
=============================================================================
