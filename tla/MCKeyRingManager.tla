-------------------------- MODULE MCKeyRingManager --------------------------
(***************************************************************************)
(* Small instances of KeyRingManager.  k1 has a subkey of its own; k2 and   *)
(* k3 have none.                                                            *)
(***************************************************************************)
EXTENDS KeyRingManager, TLC

CONSTANTS k1, k2, k3, s1

MCSubkeysOf == [k \in Keys |-> IF k = k1 THEN <<s1>> ELSE <<>>]
MCSymmetry  == Permutations(Callers)
=============================================================================
