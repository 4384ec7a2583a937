---------------------------- MODULE PublicKeySet ----------------------------
(***************************************************************************)
(* What the public key store promises to those who add keys to it, however  *)
(* many servers share it: it is a set of keys that only grows, and a key    *)
(* whose addition was answered "OK" is in it.                               *)
(***************************************************************************)
CONSTANT Keys

VARIABLES
    stored,     \* the keys that can be found
    answered    \* the keys whose addition was answered "OK"

Init == stored = {} /\ answered = {}

Store(k) == stored' = stored \cup {k} /\ UNCHANGED answered

Answer(k) == k \in stored' /\ answered' = answered \cup {k} /\ stored \subseteq stored'
                           /\ stored' \subseteq stored \cup {k}

Next == \E k \in Keys : Store(k) \/ Answer(k)

Spec == Init /\ [][Next]_<<stored, answered>>
=============================================================================
