--------------------------- MODULE KeyRingManager ---------------------------
(***************************************************************************)
(* The in-memory ring of public keys of internal/keymagic/keyRingManager.go *)
(* shared by every request of the server.  A bounded number of the keys     *)
(* fetched from the key server are cached and evicted oldest first; the     *)
(* keys of the private-key folder are added "non erasable" and stay.        *)
(*                                                                         *)
(* The ring is used by Callers (goroutines).  An operation is cut where the *)
(* code releases krm.Mutex: an AddKey of a key with subkeys is one locked   *)
(* section per key, and a GetKey that misses leaves the lock, asks the key  *)
(* server and only then adds what it got.                                   *)
(***************************************************************************)
EXTENDS Naturals, Sequences, FiniteSets

CONSTANTS
    Callers,          \* goroutines that use the ring
    Keys,             \* fingerprints of the primary keys that exist
    Fps,              \* fingerprints of all keys: primary keys and subkeys
    SubkeysOf,        \* the subkeys a primary key carries, in their order
    MaxKeyRingCache,  \* config.MaxKeyRingCache
    None

ASSUME KeysAssumption    == Keys \subseteq Fps /\ SubkeysOf \in [Keys -> Seq(Fps)]
ASSUME MaxAssumption     == MaxKeyRingCache \in Nat
ASSUME NoneAssumption    == None \notin Callers /\ None \notin Fps

(* An openpgp.Entity, reduced to the fingerprint of its primary key and     *)
(* whether it is the key as published or the stand-in CreateEntityForSubKey *)
(* builds, which has no subkeys.                                            *)
Entities == [fp : Fps, whole : BOOLEAN]
Whole(k) == [fp |-> k, whole |-> TRUE]
CreateEntityForSubKey(f) == [fp |-> f, whole |-> FALSE]

(* The arguments of an AddKey call, and the calls for the subkeys of k.     *)
Calls == [key : Entities, nonErasable : BOOLEAN]
Call(e, flag) == [key |-> e, nonErasable |-> flag]
SubkeyCalls(k, flag) ==
    [i \in 1 .. Len(SubkeysOf[k]) |-> Call(CreateEntityForSubKey(SubkeysOf[k][i]), flag)]

ASSUME NoneNotEntity == None \notin Entities

VARIABLES
    fingerPrints,   \* the erasable keys, oldest first
    entities,       \* fingerprint -> cached entity or None
    keyInfo,        \* fingerprints that have a KeyInfo record
    mutex,          \* the caller that holds krm.Mutex for ever, or None
    want,           \* caller -> fingerprint it is asking the key server for
    todo,           \* caller -> the AddKey calls it still has to make
    sticky          \* history: keys added with the flag and not deleted since

ring    == <<fingerPrints, entities, keyInfo, sticky>>
callers == <<want, todo>>
vars    == <<fingerPrints, entities, keyInfo, sticky, mutex, want, todo>>

Queued == {fingerPrints[i] : i \in DOMAIN fingerPrints}
Cached == {f \in Fps : entities[f] # None}

TypeOK ==
    /\ fingerPrints \in Seq(Fps)
    /\ entities \in [Fps -> Entities \cup {None}]
    /\ \A f \in Cached : entities[f].fp = f
    /\ keyInfo \in SUBSET Fps
    /\ sticky \in SUBSET Fps
    /\ mutex \in Callers \cup {None}
    /\ want \in [Callers -> Fps \cup {None}]
    /\ todo \in [Callers -> Seq(Calls)]
    /\ \A c \in Callers : \A i \in DOMAIN todo[c] :
           todo[c][i].key.whole => todo[c][i].key.fp \in Keys

Init ==
    /\ fingerPrints = <<>>
    /\ entities = [f \in Fps |-> None]
    /\ keyInfo = {}
    /\ sticky = {}
    /\ mutex = None
    /\ want = [c \in Callers |-> None]
    /\ todo = [c \in Callers |-> <<>>]

Idle(c) == want[c] = None /\ todo[c] = <<>>

-----------------------------------------------------------------------------
(* AddKey: the caller asks, then takes the lock once per key.  The server   *)
(* calls it itself only for the keys it loads (pgpManager.LoadKey), with    *)
(* nonErasable set; fetched keys are added from GetKey below.               *)

CallAddKey(c, k) ==
    /\ Idle(c)
    /\ todo' = [todo EXCEPT ![c] = <<Call(Whole(k), TRUE)>>]
    /\ UNCHANGED <<want, mutex, ring>>

(* One recursive call is over; a whole key that was stored continues with   *)
(* its subkeys, one that was already known returns before that loop.        *)
Continue(c, stored) ==
    LET e == Head(todo[c]).key
        flag == Head(todo[c]).nonErasable
    IN  todo' = [todo EXCEPT ![c] =
                    IF stored /\ e.whole THEN SubkeyCalls(e.fp, flag) \o Tail(@) ELSE Tail(@)]

Remember(f, flag) ==
    sticky' = IF flag THEN sticky \cup {f} ELSE sticky

(* Mutant: the early return forgets the Unlock.                              *)
AddKnownKeyKeepsMutex(c) ==
    LET e == Head(todo[c]).key
    IN  /\ mutex = None
        /\ todo[c] # <<>>
        /\ e.fp \in Queued
        /\ mutex' = c
        /\ Continue(c, FALSE)
        /\ Remember(e.fp, Head(todo[c]).nonErasable)
        /\ UNCHANGED <<fingerPrints, entities, keyInfo, want>>

AddKnownKey(c) ==
    LET e == Head(todo[c]).key
    IN  /\ mutex = None
        /\ todo[c] # <<>>
        /\ e.fp \in Queued
        /\ Continue(c, FALSE)
        /\ Remember(e.fp, Head(todo[c]).nonErasable)
        /\ UNCHANGED <<fingerPrints, entities, keyInfo, mutex, want>>

(* The keys that leave the ring to make room: removeFp of the oldest one.   *)
(* Mutant: room for one key more.                                           *)
FullTooLate == Len(fingerPrints) > MaxKeyRingCache
(* Mutants: the oldest key stays in memory; the newest key leaves the queue. *)
NothingRemoved == {}
addFpForNewest(f) ==
    Append(IF Len(fingerPrints) + 1 > MaxKeyRingCache
           THEN SubSeq(fingerPrints, 1, Len(fingerPrints) - 1) ELSE fingerPrints, f)
CacheFull == Len(fingerPrints) + 1 > MaxKeyRingCache
removeFp  == IF CacheFull THEN {Head(fingerPrints)} ELSE {}
addFp(f)  == Append(IF CacheFull THEN Tail(fingerPrints) ELSE fingerPrints, f)

(* Mutant: without the look at the queue.                                   *)
AddAnyKey(c) ==
    LET e == Head(todo[c]).key
        flag == Head(todo[c]).nonErasable
        out == IF flag THEN {} ELSE removeFp
    IN  /\ mutex = None
        /\ todo[c] # <<>>
        /\ flag \/ ~CacheFull \/ fingerPrints # <<>>
        /\ fingerPrints' = IF flag THEN fingerPrints ELSE addFp(e.fp)
        /\ entities' = [f \in Fps |-> IF f = e.fp THEN e
                                      ELSE IF f \in out THEN None ELSE entities[f]]
        /\ keyInfo' = (keyInfo \ out) \cup {e.fp}
        /\ Remember(e.fp, flag)
        /\ Continue(c, TRUE)
        /\ UNCHANGED <<mutex, want>>

AddNewKey(c) ==
    LET e == Head(todo[c]).key
        flag == Head(todo[c]).nonErasable
        out == IF flag THEN {} ELSE removeFp
    IN  /\ mutex = None
        /\ todo[c] # <<>>
        /\ e.fp \notin Queued
        /\ flag \/ ~CacheFull \/ fingerPrints # <<>>
        /\ fingerPrints' = IF flag THEN fingerPrints ELSE addFp(e.fp)
        /\ entities' = [f \in Fps |-> IF f = e.fp THEN e
                                      ELSE IF f \in out THEN None ELSE entities[f]]
        /\ keyInfo' = (keyInfo \ out) \cup {e.fp}
        /\ Remember(e.fp, flag)
        /\ Continue(c, TRUE)
        /\ UNCHANGED <<mutex, want>>

(* With no room at all there is no oldest key: fingerPrints[0] panics while *)
(* the lock is held, and no deferred Unlock releases it.                    *)
AddKeyPanics(c) ==
    /\ mutex = None
    /\ todo[c] # <<>>
    /\ Head(todo[c]).key.fp \notin Queued
    /\ ~Head(todo[c]).nonErasable /\ CacheFull /\ fingerPrints = <<>>
    /\ mutex' = c
    /\ todo' = [todo EXCEPT ![c] = <<>>]
    /\ UNCHANGED <<want, ring>>

-----------------------------------------------------------------------------
(* DeleteKey drops the entity; the eviction queue and the KeyInfo stay.     *)

(* Mutant: the KeyInfo goes with the entity, the queue entry stays.         *)
DeleteKeyAndInfo(c, f) ==
    /\ mutex = None
    /\ Idle(c)
    /\ entities[f] # None
    /\ entities' = [entities EXCEPT ![f] = None]
    /\ sticky' = sticky \ {f}
    /\ keyInfo' = keyInfo \ {f}
    /\ UNCHANGED <<fingerPrints, mutex, callers>>

DeleteKey(c, f) ==
    /\ mutex = None
    /\ Idle(c)
    /\ entities[f] # None
    /\ entities' = [entities EXCEPT ![f] = None]
    /\ sticky' = sticky \ {f}
    /\ UNCHANGED <<fingerPrints, keyInfo, mutex, callers>>

-----------------------------------------------------------------------------
(* GetKey: a hit changes nothing; a miss goes to the key server.            *)

GetKeyMiss(c, f) ==
    /\ mutex = None
    /\ Idle(c)
    /\ entities[f] = None
    /\ want' = [want EXCEPT ![c] = f]
    /\ UNCHANGED <<mutex, todo, ring>>

(* PKSGetKey: no key, an error or an unreadable key.                        *)
FetchFails(c) ==
    /\ want[c] # None
    /\ want' = [want EXCEPT ![c] = None]
    /\ UNCHANGED <<mutex, todo, ring>>

(* The key server finds a key by its primary key or by one of its subkeys   *)
(* and answers with the whole key in both cases.                            *)
PKSAnswers(f) ==
    {k \in Keys : f = k \/ \E i \in DOMAIN SubkeysOf[k] : SubkeysOf[k][i] = f}

FetchAnswers(c) ==
    /\ want[c] # None
    /\ \E k \in PKSAnswers(want[c]) : 
           todo' = [todo EXCEPT ![c] = <<Call(Whole(k), FALSE)>>]
    /\ want' = [want EXCEPT ![c] = None]
    /\ UNCHANGED <<mutex, ring>>

-----------------------------------------------------------------------------
(* What the reading operations return. *)
ContainsKey(f)  == entities[f] # None
GetCachedKeys   == keyInfo
GetFingerPrints == fingerPrints

Section(c) == AddKnownKey(c) \/ AddNewKey(c) \/ AddKeyPanics(c)
Answer(c)  == FetchAnswers(c) \/ FetchFails(c)

Next == \E c \in Callers :
    \/ \E k \in Keys : CallAddKey(c, k)
    \/ Section(c)
    \/ \E f \in Fps : DeleteKey(c, f) \/ GetKeyMiss(c, f)
    \/ Answer(c)

Spec == Init /\ [][Next]_vars

(* A goroutine that waits for the lock or runs is eventually scheduled (Go  *)
(* mutexes do not starve a waiter), and a request to the key server ends,   *)
(* if only with an error.                                                   *)
Fairness == \A c \in Callers : WF_vars(Section(c)) /\ WF_vars(Answer(c))
FairSpec == Spec /\ Fairness

-----------------------------------------------------------------------------
(* Properties *)

(* The keys that may be evicted never outnumber MaxKeyRingCache, however     *)
(* the sections of concurrent AddKey calls interleave.                       *)
CacheBounded == Len(fingerPrints) <= MaxKeyRingCache

(* A fingerprint is queued for eviction once: a second entry would make      *)
(* removeFp evict a key that has just been added again.                      *)
QueuedOnce ==
    \A i, j \in DOMAIN fingerPrints : i # j => fingerPrints[i] # fingerPrints[j]

(* Every key in memory is either due for eviction or one that was asked to   *)
(* stay: no erasable key escapes the queue and stays for ever.               *)
NothingLeaks == Cached \subseteq Queued \cup sticky

(* The listing that GetCachedKeys serves misses no key: whatever is cached   *)
(* or due for eviction has a KeyInfo.                                        *)
ListingComplete == Cached \cup Queued \subseteq GetCachedKeys

(* Bounded memory: apart from the keys asked to stay, at most                *)
(* MaxKeyRingCache keys are in memory.                                       *)
MemoryBounded == Cardinality(Cached \ sticky) <= MaxKeyRingCache

(* Eviction is first in, first out: as long as two keys are both queued they *)
(* keep their order, and only the oldest leaves.                             *)
OldestFirst == [][
    \/ fingerPrints' = fingerPrints
    \/ \E f \in Fps \ Queued :
          \/ Len(fingerPrints) < MaxKeyRingCache /\ fingerPrints' = Append(fingerPrints, f)
          \/ /\ Len(fingerPrints) = MaxKeyRingCache /\ fingerPrints # <<>>
             /\ fingerPrints' = Append(Tail(fingerPrints), f)
    ]_vars

(* The lock is never lost in a panic. *)
LockIsReleased == mutex = None

(* The ring does what PublicKeyCache promises: see there.                    *)
Promise == INSTANCE PublicKeyCache
               WITH cached <- Cached, sticky <- sticky, Capacity <- MaxKeyRingCache
KeepsPromise == Promise!Spec

(* Every operation of a caller ends. *)
CallersReturn == \A c \in Callers : ~Idle(c) ~> Idle(c)
=============================================================================
