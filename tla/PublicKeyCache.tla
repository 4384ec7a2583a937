--------------------------- MODULE PublicKeyCache ---------------------------
(***************************************************************************)
(* What the ring of public keys promises to the rest of the server, without *)
(* queues, locks or fetches: keys come and go one at a time, room for a new *)
(* key costs at most one other key, a key added to stay costs none, and the *)
(* keys that were not asked to stay never outnumber Capacity.               *)
(***************************************************************************)
EXTENDS Naturals, FiniteSets

CONSTANTS Fps, Capacity

VARIABLES
    cached,   \* the keys in memory
    sticky    \* the keys asked to stay and not deleted since

Init == cached = {} /\ sticky = {}

Bounded == Cardinality(cached \ sticky) <= Capacity

Store(f) == \E out \in {{}} \cup {{g} : g \in Fps} :
    /\ cached' = (cached \ out) \cup {f}
    /\ UNCHANGED sticky

StoreToStay(f) ==
    /\ cached' = cached \cup {f}
    /\ sticky' = sticky \cup {f}

(* The key is known already: nothing is stored. *)
AskToStay(f) ==
    /\ sticky' = sticky \cup {f}
    /\ UNCHANGED cached

Delete(f) ==
    /\ f \in cached
    /\ cached' = cached \ {f}
    /\ sticky' = sticky \ {f}

Step(f) == Store(f) \/ StoreToStay(f) \/ AskToStay(f) \/ Delete(f)
Next == \E f \in Fps : Step(f) /\ Bounded'

Spec == Init /\ [][Next]_<<cached, sticky>>
=============================================================================
