------------------------ MODULE KeyRingManagerProofs ------------------------
(***************************************************************************)
(* Proofs, for any number of callers, keys and subkeys and any cache size,  *)
(* of the safety properties of KeyRingManager.                              *)
(***************************************************************************)
EXTENDS KeyRingManager, SequenceTheorems, FiniteSetTheorems, TLAPS

USE DEF Queued, Cached

(* The inductive invariant: what TLC checks one by one, taken together.     *)
(* NothingLeaks needs QueuedOnce, since evicting a key that is queued twice *)
(* would leave a queue entry for a key that is gone.                        *)
IInv == TypeOK /\ CacheBounded /\ QueuedOnce /\ NothingLeaks /\ ListingComplete

-----------------------------------------------------------------------------
(* The calls an AddKey makes for the subkeys of a key are well formed.      *)
LEMMA SubkeyCallsType ==
    ASSUME NEW k \in Keys, NEW flag \in BOOLEAN
    PROVE  /\ SubkeyCalls(k, flag) \in Seq(Calls)
           /\ \A i \in DOMAIN SubkeyCalls(k, flag) : ~SubkeyCalls(k, flag)[i].key.whole
<1>1. SubkeysOf[k] \in Seq(Fps)
  BY KeysAssumption
<1>2. Len(SubkeysOf[k]) \in Nat /\ \A i \in 1 .. Len(SubkeysOf[k]) : SubkeysOf[k][i] \in Fps
  BY <1>1, LenProperties, ElementOfSeq
<1>3. \A i \in 1 .. Len(SubkeysOf[k]) :
          Call(CreateEntityForSubKey(SubkeysOf[k][i]), flag) \in Calls
  BY <1>2 DEF Call, Calls, Entities, CreateEntityForSubKey
<1>. QED
  BY <1>2, <1>3 DEF SubkeyCalls, Call, CreateEntityForSubKey

(* Continue keeps the list of pending AddKey calls well formed.             *)
LEMMA ContinueType ==
    ASSUME TypeOK, NEW c \in Callers, NEW stored \in BOOLEAN,
           todo[c] # <<>>, Continue(c, stored)
    PROVE  /\ todo' \in [Callers -> Seq(Calls)]
           /\ \A d \in Callers : \A i \in DOMAIN todo'[d] :
                  todo'[d][i].key.whole => todo'[d][i].key.fp \in Keys
<1>. DEFINE s == todo[c]
            Good(q) == \A i \in DOMAIN q : q[i].key.whole => q[i].key.fp \in Keys
<1>1. s \in Seq(Calls) /\ Good(s)
  BY DEF TypeOK
<1>2. Head(s) = s[1] /\ 1 \in DOMAIN s /\ Head(s) \in Calls
  BY <1>1
<1>3. Tail(s) \in Seq(Calls) /\ Good(Tail(s))
  BY <1>1, HeadTailProperties
<1>4. ASSUME Head(s).key.whole
      PROVE  /\ SubkeyCalls(Head(s).key.fp, Head(s).nonErasable) \o Tail(s) \in Seq(Calls)
             /\ Good(SubkeyCalls(Head(s).key.fp, Head(s).nonErasable) \o Tail(s))
  <2>. DEFINE q == SubkeyCalls(Head(s).key.fp, Head(s).nonErasable)
  <2>1. Head(s).key.fp \in Keys /\ Head(s).nonErasable \in BOOLEAN
    BY <1>1, <1>2, <1>4 DEF Calls
  <2>2. q \in Seq(Calls) /\ Good(q)
    BY <2>1, SubkeyCallsType
  <2>. HIDE DEF q
  <2>3. q \o Tail(s) \in Seq(Calls)
    BY <2>2, <1>3, ConcatProperties
  <2>4. Good(q \o Tail(s))
    BY <2>2, <1>3, <2>3, ConcatProperties
  <2>. QED
    BY <2>3, <2>4 DEF q
<1>5. todo' = [todo EXCEPT ![c] = todo'[c]] /\ todo'[c] \in Seq(Calls) /\ Good(todo'[c])
  BY <1>3, <1>4 DEF Continue, TypeOK
<1>. QED
  BY <1>5 DEF TypeOK

-----------------------------------------------------------------------------
(* The eviction queue as AddNewKey leaves it for an erasable key f.         *)
LEMMA AddFpProperties ==
    ASSUME TypeOK, CacheBounded, QueuedOnce,
           NEW f \in Fps, f \notin Queued, ~CacheFull \/ fingerPrints # <<>>
    PROVE  /\ addFp(f) \in Seq(Fps)
           /\ Len(addFp(f)) <= MaxKeyRingCache
           /\ \A i, j \in DOMAIN addFp(f) : i # j => addFp(f)[i] # addFp(f)[j]
           /\ {addFp(f)[i] : i \in DOMAIN addFp(f)} = (Queued \ removeFp) \cup {f}
           /\ removeFp \subseteq Queued
<1>. DEFINE q == IF CacheFull THEN Tail(fingerPrints) ELSE fingerPrints
            n == IF CacheFull THEN 1 ELSE 0
<1>1. fingerPrints \in Seq(Fps) /\ Len(fingerPrints) \in Nat
  BY DEF TypeOK
<1>2. /\ q \in Seq(Fps) /\ Len(q) = Len(fingerPrints) - n
      /\ \A i \in 1 .. Len(q) : q[i] = fingerPrints[i + n]
  BY <1>1, HeadTailProperties
<1>3. CacheFull => 1 \in DOMAIN fingerPrints /\ Head(fingerPrints) = fingerPrints[1]
  BY <1>1
<1>4. Len(q) + 1 <= MaxKeyRingCache
  BY <1>1, <1>2, MaxAssumption DEF CacheFull, CacheBounded
<1>. HIDE DEF q
<1>5. /\ addFp(f) = Append(q, f) /\ addFp(f) \in Seq(Fps)
      /\ Len(addFp(f)) = Len(q) + 1
      /\ \A i \in 1 .. Len(q) : addFp(f)[i] = q[i]
      /\ addFp(f)[Len(q) + 1] = f
  BY <1>2 DEF addFp, q
<1>6. \A i \in 1 .. Len(q) : i + n \in DOMAIN fingerPrints /\ addFp(f)[i] = fingerPrints[i + n]
  BY <1>1, <1>2, <1>5
<1>7. \A i, j \in DOMAIN addFp(f) : i # j => addFp(f)[i] # addFp(f)[j]
  <2>. SUFFICES ASSUME NEW i \in 1 .. Len(q) + 1, NEW j \in 1 .. Len(q) + 1, i # j
                PROVE  addFp(f)[i] # addFp(f)[j]
    BY <1>5, <1>2
  <2>1. CASE i = Len(q) + 1
    BY <2>1, <1>1, <1>2, <1>5, <1>6
  <2>2. CASE j = Len(q) + 1
    BY <2>2, <1>1, <1>2, <1>5, <1>6
  <2>3. CASE i # Len(q) + 1 /\ j # Len(q) + 1
    <3>1. i \in 1 .. Len(q) /\ j \in 1 .. Len(q) /\ i + n # j + n
      BY <2>3, <1>2
    <3>. QED
      BY <3>1, <1>6 DEF QueuedOnce
  <2>. QED
    BY <2>1, <2>2, <2>3
<1>8. {addFp(f)[i] : i \in DOMAIN addFp(f)} = {q[i] : i \in 1 .. Len(q)} \cup {f}
  BY <1>2, <1>5
<1>9. {q[i] : i \in 1 .. Len(q)} = Queued \ removeFp
  <2>1. CASE CacheFull
    <3>1. ASSUME NEW i \in 2 .. Len(fingerPrints)
          PROVE  i - 1 \in 1 .. Len(q) /\ fingerPrints[i] = q[i - 1]
      BY <2>1, <1>1, <1>2
    <3>2. ASSUME NEW i \in 1 .. Len(q)
          PROVE  /\ i + 1 \in DOMAIN fingerPrints /\ q[i] = fingerPrints[i + 1]
                 /\ fingerPrints[i + 1] # fingerPrints[1]
      BY <2>1, <1>1, <1>2, <1>3 DEF QueuedOnce
    <3>. QED
      BY <2>1, <1>1, <1>3, <3>1, <3>2 DEF removeFp
  <2>2. CASE ~CacheFull
    BY <2>2, <1>1, <1>2 DEF removeFp
  <2>. QED
    BY <2>1, <2>2
<1>10. removeFp \subseteq Queued
  BY <1>3 DEF removeFp
<1>. QED
  BY <1>4, <1>5, <1>7, <1>8, <1>9, <1>10

(* So does starting on a single whole key.                                  *)
LEMMA OneCallType ==
    ASSUME TypeOK, NEW c \in Callers, NEW k \in Keys, NEW flag \in BOOLEAN,
           todo' = [todo EXCEPT ![c] = <<Call(Whole(k), flag)>>]
    PROVE  /\ todo' \in [Callers -> Seq(Calls)]
           /\ \A d \in Callers : \A i \in DOMAIN todo'[d] :
                  todo'[d][i].key.whole => todo'[d][i].key.fp \in Keys
<1>. DEFINE call == Call(Whole(k), flag)
<1>1. call \in Calls /\ call.key.fp \in Keys
  BY KeysAssumption DEF Call, Calls, Whole, Entities
<1>. HIDE DEF call
<1>2. <<call>> \in Seq(Calls) /\ \A i \in DOMAIN <<call>> : <<call>>[i] = call
  BY <1>1
<1>. QED
  BY <1>1, <1>2 DEF TypeOK, call

-----------------------------------------------------------------------------
(* AddNewKey is the step that touches everything the invariant relates.     *)
LEMMA AddNewKeyPreserves ==
    ASSUME IInv, NEW c \in Callers, AddNewKey(c)
    PROVE  IInv'
<1>. DEFINE call == Head(todo[c])
            e == call.key
            flag == call.nonErasable
            out == IF flag THEN {} ELSE removeFp
<1>. USE DEF IInv
<1>1. todo[c] \in Seq(Calls) /\ todo[c] # <<>> /\ call = todo[c][1] /\ 1 \in DOMAIN todo[c]
  BY DEF AddNewKey, TypeOK
<1>2. /\ call \in Calls /\ e \in Entities /\ e.fp \in Fps /\ flag \in BOOLEAN
      /\ e.whole => e.fp \in Keys
  <2>1. call \in Calls
    BY <1>1, ElementOfSeq, LenProperties
  <2>2. e \in Entities /\ flag \in BOOLEAN
    BY <2>1 DEF Calls
  <2>3. e.fp \in Fps
    BY <2>2 DEF Entities
  <2>4. e.whole => e.fp \in Keys
    BY <1>1 DEF TypeOK
  <2>. QED
    BY <2>1, <2>2, <2>3, <2>4
<1>3. /\ e.fp \notin Queued
      /\ flag \/ ~CacheFull \/ fingerPrints # <<>>
      /\ fingerPrints' = IF flag THEN fingerPrints ELSE addFp(e.fp)
      /\ entities' = [f \in Fps |-> IF f = e.fp THEN e
                                    ELSE IF f \in out THEN None ELSE entities[f]]
      /\ keyInfo' = (keyInfo \ out) \cup {e.fp}
      /\ sticky' = IF flag THEN sticky \cup {e.fp} ELSE sticky
      /\ mutex' = mutex /\ want' = want
      /\ Continue(c, TRUE)
  BY DEF AddNewKey, Remember
<1>4. out \subseteq Queued /\ e.fp \notin out
  BY <1>3, <1>2, AddFpProperties
<1>. HIDE DEF call
<1>5. /\ fingerPrints' \in Seq(Fps)
      /\ CacheBounded' /\ QueuedOnce'
      /\ Queued' = IF flag THEN Queued ELSE (Queued \ out) \cup {e.fp}
  <2>1. CASE flag
    BY <2>1, <1>3 DEF TypeOK, CacheBounded, QueuedOnce
  <2>2. CASE ~flag
    <3>1. /\ fingerPrints' = addFp(e.fp) /\ out = removeFp
          /\ e.fp \in Fps /\ e.fp \notin Queued /\ (~CacheFull \/ fingerPrints # <<>>)
      BY <2>2, <1>2, <1>3
    <3>. HIDE DEF e, out
    <3>2. /\ addFp(e.fp) \in Seq(Fps)
          /\ Len(addFp(e.fp)) <= MaxKeyRingCache
          /\ \A i, j \in DOMAIN addFp(e.fp) : i # j => addFp(e.fp)[i] # addFp(e.fp)[j]
          /\ {addFp(e.fp)[i] : i \in DOMAIN addFp(e.fp)} = (Queued \ removeFp) \cup {e.fp}
      BY <3>1, AddFpProperties
    <3>3. CacheBounded' /\ QueuedOnce'
      BY <3>1, <3>2 DEF CacheBounded, QueuedOnce
    <3>4. Queued' = (Queued \ out) \cup {e.fp}
      BY <3>1, <3>2
    <3>. QED
      BY <2>2, <3>1, <3>2, <3>3, <3>4
  <2>. QED
    BY <2>1, <2>2
<1>6. Cached' = (Cached \ out) \cup {e.fp}
  BY <1>2, <1>3, <1>4, NoneNotEntity DEF TypeOK
<1>7. /\ entities' \in [Fps -> Entities \cup {None}]
      /\ \A f \in Cached' : entities'[f].fp = f
  BY <1>2, <1>3, <1>6 DEF TypeOK
<1>8. keyInfo' \in SUBSET Fps /\ sticky' \in SUBSET Fps
  BY <1>2, <1>3 DEF TypeOK
<1>9. TypeOK'
  BY <1>1, <1>3, <1>5, <1>7, <1>8, ContinueType DEF TypeOK
<1>10. NothingLeaks'
  BY <1>3, <1>5, <1>6 DEF NothingLeaks
<1>11. ListingComplete'
  BY <1>3, <1>4, <1>5, <1>6 DEF ListingComplete, GetCachedKeys
<1>. QED
  BY <1>5, <1>9, <1>10, <1>11

(* A step that leaves the ring alone preserves what relates its parts.      *)
LEMMA RingUnchanged ==
    ASSUME IInv, UNCHANGED ring, TypeOK'
    PROVE  IInv'
BY DEF IInv, ring, CacheBounded, QueuedOnce, NothingLeaks, ListingComplete, GetCachedKeys

LEMMA InitIInv == Init => IInv
<1>. SUFFICES ASSUME Init PROVE IInv
  OBVIOUS
<1>1. TypeOK
  BY EmptySeq DEF Init, TypeOK
<1>. QED
  BY <1>1, MaxAssumption DEF IInv, Init, CacheBounded, QueuedOnce, NothingLeaks,
                            ListingComplete, GetCachedKeys

(* Every step of every caller preserves the invariant.                      *)
LEMMA NextIInv == IInv /\ [Next]_vars => IInv'
<1>. SUFFICES ASSUME IInv, [Next]_vars PROVE IInv'
  OBVIOUS
<1>. USE DEF IInv
<1>1. ASSUME NEW c \in Callers, NEW k \in Keys, CallAddKey(c, k)
      PROVE  IInv'
  <2>1. todo' = [todo EXCEPT ![c] = <<Call(Whole(k), TRUE)>>] /\ UNCHANGED <<want, mutex, ring>>
    BY <1>1 DEF CallAddKey
  <2>2. TypeOK'
    BY <2>1, OneCallType DEF TypeOK, ring
  <2>. QED
    BY <1>1, <2>2, RingUnchanged DEF CallAddKey
<1>2. ASSUME NEW c \in Callers, AddKnownKey(c)
      PROVE  IInv'
  <2>1. Head(todo[c]).key.fp \in Fps /\ sticky' \in SUBSET Fps /\ sticky \subseteq sticky'
    BY <1>2 DEF AddKnownKey, Remember, TypeOK
  <2>2. TypeOK'
    BY <1>2, <2>1, ContinueType DEF AddKnownKey, TypeOK
  <2>. QED
    BY <1>2, <2>1, <2>2 DEF AddKnownKey, CacheBounded, QueuedOnce, NothingLeaks,
                            ListingComplete, GetCachedKeys
<1>3. ASSUME NEW c \in Callers, AddNewKey(c)
      PROVE  IInv'
  BY <1>3, AddNewKeyPreserves
<1>4. ASSUME NEW c \in Callers, AddKeyPanics(c)
      PROVE  IInv'
  <2>1. TypeOK'
    BY <1>4, EmptySeq DEF AddKeyPanics, TypeOK, ring
  <2>. QED
    BY <1>4, <2>1, RingUnchanged DEF AddKeyPanics
<1>5. ASSUME NEW c \in Callers, NEW f \in Fps, DeleteKey(c, f)
      PROVE  IInv'
  <2>1. Cached' = Cached \ {f}
    BY <1>5 DEF DeleteKey, TypeOK
  <2>2. TypeOK'
    BY <1>5, <2>1 DEF DeleteKey, TypeOK, callers
  <2>. QED
    BY <1>5, <2>1, <2>2 DEF DeleteKey, CacheBounded, QueuedOnce, NothingLeaks,
                            ListingComplete, GetCachedKeys
<1>6. ASSUME NEW c \in Callers, NEW f \in Fps, GetKeyMiss(c, f)
      PROVE  IInv'
  <2>1. TypeOK'
    BY <1>6 DEF GetKeyMiss, TypeOK, ring
  <2>. QED
    BY <1>6, <2>1, RingUnchanged DEF GetKeyMiss
<1>7. ASSUME NEW c \in Callers, FetchFails(c)
      PROVE  IInv'
  <2>1. TypeOK'
    BY <1>7 DEF FetchFails, TypeOK, ring
  <2>. QED
    BY <1>7, <2>1, RingUnchanged DEF FetchFails
<1>8. ASSUME NEW c \in Callers, FetchAnswers(c)
      PROVE  IInv'
  <2>1. PICK k \in Keys : todo' = [todo EXCEPT ![c] = <<Call(Whole(k), FALSE)>>]
    BY <1>8 DEF FetchAnswers, PKSAnswers
  <2>2. want' = [want EXCEPT ![c] = None] /\ UNCHANGED <<mutex, ring>>
    BY <1>8 DEF FetchAnswers
  <2>3. TypeOK'
    BY <2>1, <2>2, OneCallType DEF TypeOK, ring
  <2>. QED
    BY <1>8, <2>3, RingUnchanged DEF FetchAnswers
<1>9. CASE UNCHANGED vars
  BY <1>9 DEF vars, TypeOK, CacheBounded, QueuedOnce, NothingLeaks, ListingComplete,
              GetCachedKeys
<1>. QED
  BY <1>1, <1>2, <1>3, <1>4, <1>5, <1>6, <1>7, <1>8, <1>9 DEF Next, Section, Answer

(* The inductive invariant holds of every behaviour of the ring.            *)
THEOREM Invariance == Spec => []IInv
BY InitIInv, NextIInv, PTL DEF Spec

-----------------------------------------------------------------------------
(* The queue holds at most as many keys as it is long, so the keys that are *)
(* in memory without having been asked to stay are at most MaxKeyRingCache. *)
LEMMA InvBoundsMemory ==
    ASSUME IInv
    PROVE  MemoryBounded
<1>. USE DEF IInv
<1>1. fingerPrints \in Seq(Fps) /\ Len(fingerPrints) \in Nat
  BY DEF TypeOK
<1>2. IsFiniteSet(1 .. Len(fingerPrints)) /\ Cardinality(1 .. Len(fingerPrints)) = Len(fingerPrints)
  BY <1>1, FS_Interval
<1>3. fingerPrints \in Surjection(1 .. Len(fingerPrints), Queued)
  BY <1>1 DEF Surjection
<1>4. IsFiniteSet(Queued) /\ Cardinality(Queued) <= Len(fingerPrints)
  BY <1>2, <1>3, FS_Surjection
<1>5. Cached \ sticky \in SUBSET Queued
  BY DEF NothingLeaks
<1>6. Cardinality(Cached \ sticky) <= Cardinality(Queued)
  BY <1>4, <1>5, FS_Subset
<1>7. Cardinality(Queued) \in Nat /\ Cardinality(Cached \ sticky) \in Nat
  BY <1>4, <1>5, FS_Subset, FS_CardinalityType
<1>. QED
  BY <1>1, <1>4, <1>6, <1>7, MaxAssumption DEF CacheBounded, MemoryBounded

(* AddNewKey moves the queue as OldestFirst allows.                          *)
LEMMA NextOldestFirst ==
    ASSUME IInv, [Next]_vars
    PROVE  \/ fingerPrints' = fingerPrints
           \/ \E f \in Fps \ Queued :
                 \/ Len(fingerPrints) < MaxKeyRingCache /\ fingerPrints' = Append(fingerPrints, f)
                 \/ /\ Len(fingerPrints) = MaxKeyRingCache /\ fingerPrints # <<>>
                    /\ fingerPrints' = Append(Tail(fingerPrints), f)
<1>1. CASE \E c \in Callers : AddNewKey(c)
  <2>1. PICK c \in Callers : AddNewKey(c)
    BY <1>1
  <2>. DEFINE call == Head(todo[c])
  <2>2. call.key.fp \in Fps
    <3>1. call \in Calls
      BY <2>1, ElementOfSeq, LenProperties DEF AddNewKey, IInv, TypeOK
    <3>. QED
      BY <3>1 DEF Calls, Entities
  <2>3. /\ call.key.fp \notin Queued
        /\ call.nonErasable \/ ~CacheFull \/ fingerPrints # <<>>
        /\ fingerPrints' = IF call.nonErasable THEN fingerPrints ELSE addFp(call.key.fp)
    BY <2>1 DEF AddNewKey
  <2>. HIDE DEF call
  <2>4. Len(fingerPrints) \in Nat /\ Len(fingerPrints) <= MaxKeyRingCache
    BY DEF IInv, TypeOK, CacheBounded
  <2>. QED
    BY <2>2, <2>3, <2>4, MaxAssumption DEF addFp, CacheFull
<1>2. CASE ~ \E c \in Callers : AddNewKey(c)
  BY <1>2 DEF Next, vars, ring, callers, Section, Answer, CallAddKey, AddKnownKey, AddKeyPanics,
              DeleteKey, GetKeyMiss, FetchFails, FetchAnswers
<1>. QED
  BY <1>1, <1>2

(* Each step of the ring is a step, or no step, of PublicKeyCache.           *)
LEMMA NextKeepsPromise ==
    ASSUME IInv, MemoryBounded', [Next]_vars
    PROVE  [Promise!Next]_<<Cached, sticky>>
<1>. USE DEF IInv
<1>1. Promise!Bounded'
  BY DEF Promise!Bounded, MemoryBounded, Cardinality, Promise!Cardinality
<1>2. ASSUME NEW c \in Callers, AddNewKey(c)
      PROVE  \E f \in Fps : Promise!Step(f)
  <2>. DEFINE call == Head(todo[c])
              f == call.key.fp
              out == IF call.nonErasable THEN {} ELSE removeFp
  <2>1. call.key \in Entities /\ f \in Fps
    <3>1. call \in Calls
      BY <1>2, ElementOfSeq, LenProperties DEF AddNewKey, TypeOK
    <3>. QED
      BY <3>1 DEF Calls, Entities
  <2>2. /\ f \notin Queued
        /\ call.nonErasable \/ ~CacheFull \/ fingerPrints # <<>>
        /\ entities' = [g \in Fps |-> IF g = f THEN call.key
                                      ELSE IF g \in out THEN None ELSE entities[g]]
        /\ sticky' = IF call.nonErasable THEN sticky \cup {f} ELSE sticky
    BY <1>2 DEF AddNewKey, Remember
  <2>. HIDE DEF call
  <2>3. removeFp \in {{}} \cup {{g} : g \in Fps} \/ call.nonErasable
    <3>1. fingerPrints # <<>> => Head(fingerPrints) \in Fps
      BY HeadTailProperties DEF TypeOK
    <3>. QED
      BY <2>2, <3>1 DEF removeFp
  <2>4. f \notin out
    BY <2>1, <2>2, AddFpProperties
  <2>5. Cached' = (Cached \ out) \cup {f}
    BY <2>1, <2>2, <2>4, NoneNotEntity DEF TypeOK
  <2>6. CASE call.nonErasable
    BY <2>1, <2>2, <2>5, <2>6 DEF Promise!Step, Promise!StoreToStay
  <2>7. CASE ~call.nonErasable
    BY <2>1, <2>2, <2>3, <2>5, <2>7 DEF Promise!Step, Promise!Store
  <2>. QED
    BY <2>6, <2>7
<1>3. ASSUME NEW c \in Callers, AddKnownKey(c)
      PROVE  (\E f \in Fps : Promise!Step(f)) \/ UNCHANGED <<Cached, sticky>>
  <2>. DEFINE f == Head(todo[c]).key.fp
  <2>1. f \in Fps /\ UNCHANGED Cached
    BY <1>3 DEF AddKnownKey, TypeOK
  <2>2. sticky' = sticky \cup {f} \/ sticky' = sticky
    BY <1>3 DEF AddKnownKey, Remember
  <2>. QED
    BY <2>1, <2>2 DEF Promise!Step, Promise!AskToStay
<1>4. ASSUME NEW c \in Callers, NEW f \in Fps, DeleteKey(c, f)
      PROVE  \E g \in Fps : Promise!Step(g)
  <2>1. f \in Cached /\ Cached' = Cached \ {f} /\ sticky' = sticky \ {f}
    BY <1>4 DEF DeleteKey, TypeOK
  <2>. QED
    BY <2>1 DEF Promise!Step, Promise!Delete
<1>5. CASE \/ UNCHANGED vars
           \/ \E c \in Callers : \/ \E k \in Keys : CallAddKey(c, k)
                                 \/ AddKeyPanics(c) \/ Answer(c)
                                 \/ \E f \in Fps : GetKeyMiss(c, f)
  BY <1>5 DEF vars, ring, CallAddKey, AddKeyPanics, Answer, FetchFails, FetchAnswers, GetKeyMiss
<1>. QED
  BY <1>1, <1>2, <1>3, <1>4, <1>5 DEF Next, Section, Promise!Next

-----------------------------------------------------------------------------
(* The theorems. *)

(* The state keeps its types, and the invariants the runs check hold.       *)
THEOREM TypeCorrect == Spec => []TypeOK
BY Invariance, PTL DEF IInv

(* However AddKey and GetKey calls interleave, at most MaxKeyRingCache keys *)
(* are queued for eviction.                                                 *)
THEOREM QueueIsBounded == Spec => []CacheBounded
BY Invariance, PTL DEF IInv

(* Each of them is queued once, so that evicting a key ends its stay.       *)
THEOREM QueuedKeysDiffer == Spec => []QueuedOnce
BY Invariance, PTL DEF IInv

(* No erasable key stays in memory without being due for eviction.          *)
THEOREM NothingIsLost == Spec => []NothingLeaks
BY Invariance, PTL DEF IInv

(* The listing of cached keys misses none.                                  *)
THEOREM ListingMissesNone == Spec => []ListingComplete
BY Invariance, PTL DEF IInv

(* The memory the ring uses for keys nobody asked to stay is bounded.       *)
THEOREM MemoryIsBounded == Spec => []MemoryBounded
<1>1. IInv => MemoryBounded
  BY InvBoundsMemory
<1>. QED
  BY <1>1, Invariance, PTL

(* Eviction is first in, first out.                                         *)
THEOREM EvictionOrder == Spec => OldestFirst
<1>. DEFINE Step ==
       \/ fingerPrints' = fingerPrints
       \/ \E f \in Fps \ Queued :
             \/ Len(fingerPrints) < MaxKeyRingCache /\ fingerPrints' = Append(fingerPrints, f)
             \/ /\ Len(fingerPrints) = MaxKeyRingCache /\ fingerPrints # <<>>
                /\ fingerPrints' = Append(Tail(fingerPrints), f)
<1>1. IInv /\ [Next]_vars => [Step]_vars
  BY NextOldestFirst
<1>. QED
  BY <1>1, Invariance, PTL DEF Spec, OldestFirst

(* The ring implements the bounded cache it promises to be.                 *)
THEOREM ImplementsPublicKeyCache == Spec => KeepsPromise
<1>1. Init => Promise!Init
  BY DEF Init, Promise!Init
<1>2. IInv /\ MemoryBounded' /\ [Next]_vars => [Promise!Next]_<<Cached, sticky>>
  BY NextKeepsPromise
<1>. QED
  BY <1>1, <1>2, Invariance, MemoryIsBounded, PTL DEF Spec, KeepsPromise, Promise!Spec

(* As soon as there is room for one key, no AddKey panics with the lock     *)
(* held: the ring cannot be lost.                                           *)
THEOREM LockNeverLost ==
    ASSUME MaxKeyRingCache > 0
    PROVE  Spec => []LockIsReleased
<1>1. Init => LockIsReleased
  BY DEF Init, LockIsReleased
<1>2. LockIsReleased /\ [Next]_vars => LockIsReleased'
  <2>. SUFFICES ASSUME LockIsReleased, [Next]_vars PROVE mutex' = mutex
    BY DEF LockIsReleased
  <2>1. ASSUME NEW c \in Callers, AddKeyPanics(c) PROVE FALSE
    BY <2>1, MaxAssumption DEF AddKeyPanics, CacheFull
  <2>. QED
    BY <2>1 DEF Next, vars, Section, Answer, CallAddKey, AddKnownKey, AddNewKey, DeleteKey,
                GetKeyMiss, FetchFails, FetchAnswers
<1>. QED
  BY <1>1, <1>2, PTL DEF Spec
=============================================================================
