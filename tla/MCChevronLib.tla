---------------------------- MODULE MCChevronLib ----------------------------
(* Two pending calls over a key k with the subkey s, its public half, and   *)
(* another key.                                                             *)
EXTENDS ChevronLib

CONSTANTS k, s, g, pA, pB

MCFps == {k, s, g}
K == [fp |-> k, subs |-> {s}, private |-> TRUE, lock |-> pA, sublock |-> pA]
G == [fp |-> g, subs |-> {}, private |-> TRUE, lock |-> pA, sublock |-> Plain]
Half == [K EXCEPT !.private = FALSE, !.lock = Plain, !.sublock = Plain]
MCFiles == {K, G, Half}

MCRequests ==
    {loadKey(G), loadNoKey, generateKey,
     unlockKey(k, pA), unlockKey(g, pA), signData(k), verifySignature(s),
     changeKeyPassword(K, pA, pB), changeKeyPassword(K, pB, pA),
     changeKeyPassword(Half, pA, pB)}

=============================================================================
