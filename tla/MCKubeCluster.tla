---------------------------- MODULE MCKubeCluster ----------------------------
(***************************************************************************)
(* Values for the constants of KubeCluster: a key that comes in two files,  *)
(* and a pod without a master key.                                          *)
(***************************************************************************)
EXTENDS KubeCluster, TLC

CONSTANTS p1, p2, m, old, new, wrong

MCPods == {p1, p2}
MCPasswords == {old, new, wrong}
MCLocks == [f \in Fps |-> {old, new}]
MCDeployed == [f \in Fps |-> old]
MCMasterKey == [p \in Pods |-> IF p = p1 THEN m ELSE None]
=============================================================================
