------------------------------ MODULE MCAgent ------------------------------
(***************************************************************************)
(* A small instance of Agent.                                               *)
(***************************************************************************)
EXTENDS Agent, TLC

MCSymmetry == Permutations(Requests) \cup Permutations(Tokens)
=============================================================================
