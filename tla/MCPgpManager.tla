---------------------------- MODULE MCPgpManager ----------------------------
(***************************************************************************)
(* Small instances of PgpManager.                                           *)
(***************************************************************************)
EXTENDS PgpManager, TLC

CONSTANTS k, s, pA, pB

PrivateKey(f, subs, lock, sublock) ==
    [fp |-> f, subs |-> subs, private |-> TRUE, lock |-> lock, sublock |-> sublock]
Published(f, subs) ==
    [fp |-> f, subs |-> subs, private |-> FALSE, lock |-> Plain, sublock |-> Plain]

(* A key with a subkey, and the same key with another password on its        *)
(* subkey: loading the second after the first is how stored halves differ.   *)
OneKey     == {PrivateKey(k, {s}, pA, pA)}
TwoLocks   == OneKey \cup {PrivateKey(k, {s}, pA, pB)}
WithPublic == OneKey \cup {Published(k, {s})}

MCSymmetry == Permutations(Threads)
=============================================================================
