--------------------------- MODULE KubeRoutineProofs ---------------------------
(***************************************************************************)
(* Proofs about the Kubernetes routine: what the routines of any number of  *)
(* pods share (KubeCluster), for any keys and passwords, and how the one of *)
(* a server stops with it (Shutdown), for any number of signals.            *)
(***************************************************************************)
EXTENDS KubeCluster, Shutdown, TLAPS

(* One store, and the requests of one pod: for a key that tells passwords   *)
(* apart only passwords of its files.                                       *)
RightIn(store) == \A f \in Fps \ Lax : store[f] # None => store[f].password \in Locks[f]
RightPending(requests) ==
    \A f \in Fps \ Lax, pw \in Passwords : <<f, pw>> \in requests => pw \in Locks[f]
SharedOK == \A p \in Pods : RightIn(passwords[p]) /\ RightIn(batch[p]) /\ RightPending(unlocking[p])

LEMMA SharedMeans == OnlyPasswordsShared <=> SharedOK
BY DEF OnlyPasswordsShared, SharedOK, RightIn, RightPending

IInv == TypeOK /\ SharedOK

LEMMA EmptyIsAStore == Empty \in Stores /\ RightIn(Empty)
BY DEF Empty, Stores, RightIn

LEMMA InitOK == Init => IInv
<1>. SUFFICES ASSUME Init PROVE IInv
  OBVIOUS
<1>1. TypeOK
  BY EmptyIsAStore, FaultAssumption, DeploymentAssumption DEF Init, TypeOK
<1>2. SharedOK
  BY EmptyIsAStore DEF Init, SharedOK, RightPending
<1>. QED
  BY <1>1, <1>2 DEF IInv

(* A backend or the memory stays one when a key comes in a file of its own  *)
(* or goes.                                                                 *)
LEMMA OneFile ==
    ASSUME NEW s, s \in [Pods -> Files], NEW p \in Pods, NEW f \in Fps,
           NEW lock \in Locks[f] \cup {None}
    PROVE  [s EXCEPT ![p][f] = lock] \in [Pods -> Files]
<1>1. s[p] \in Files /\ lock \in Passwords \cup {None}
  BY KeyAssumption
<1>2. [s[p] EXCEPT ![f] = lock] \in Files
  BY <1>1 DEF Files
<1>3. [s EXCEPT ![p][f] = lock] = [s EXCEPT ![p] = [s[p] EXCEPT ![f] = lock]]
  OBVIOUS
<1>. QED
  BY <1>2, <1>3

LEMMA OneEntry ==
    ASSUME NEW s, s \in [Pods -> Stores], NEW p \in Pods, NEW f \in Fps,
           NEW e \in Sealed \cup {None}
    PROVE  [s EXCEPT ![p][f] = e] \in [Pods -> Stores]
BY DEF Stores

LEMMA OpenedType ==
    ASSUME TypeOK, NEW p \in Pods, NEW f \in Fps, Opened(p, f)
    PROVE  opened' \in [Pods -> SUBSET Lax] /\ unlocked' \in [Pods -> SUBSET Fps]
BY DEF Opened, TypeOK

LEMMA RequestType ==
    ASSUME TypeOK, NEW p \in Pods, Request(p) PROVE TypeOK'
<1>1. ASSUME NEW f \in Fps, NEW pw \in Passwords, UnlockKey(p, f, pw) PROVE TypeOK'
  <2>1. opened' \in [Pods -> SUBSET Lax] /\ unlocked' \in [Pods -> SUBSET Fps]
    BY <1>1, OpenedType DEF UnlockKey
  <2>2. unlocking' \in [Pods -> SUBSET (Fps \X Passwords)]
    BY <1>1 DEF UnlockKey, TypeOK
  <2>3. UNCHANGED <<running, master, files, loaded, passwords, at, visit, received, batch, faults>>
    BY <1>1 DEF UnlockKey, routine
  <2>. QED
    BY <2>1, <2>2, <2>3 DEF TypeOK
<1>2. ASSUME NEW f \in Fps, NEW pw \in Passwords, PutKeyPassword(p, f, pw) PROVE TypeOK'
  <2>1. passwords' \in [Pods -> Stores]
    <3>1. CASE /\ master[p] # None
               /\ passwords' = [passwords EXCEPT ![p][f] = [password |-> pw, master |-> master[p]]]
      <4>1. [password |-> pw, master |-> master[p]] \in Sealed
        BY <3>1 DEF Sealed, TypeOK
      <4>. QED
        BY <3>1, <4>1, OneEntry DEF TypeOK
    <3>. QED
      BY <1>2, <3>1 DEF PutKeyPassword, TypeOK
  <2>2. unlocking' \in [Pods -> SUBSET (Fps \X Passwords)]
    BY <1>2 DEF PutKeyPassword, TypeOK
  <2>3. UNCHANGED <<running, master, keys, routine, faults>>
    BY <1>2 DEF PutKeyPassword
  <2>. QED
    BY <2>1, <2>2, <2>3 DEF keys, routine, TypeOK
<1>3. ASSUME NEW f \in Fps, NEW lock \in Passwords, AddPrivateKey(p, f, lock) PROVE TypeOK'
  <2>1. files' \in [Pods -> Files] /\ loaded' \in [Pods -> Files]
    <3>1. files \in [Pods -> Files] /\ loaded \in [Pods -> Files] /\ lock \in Locks[f] \cup {None}
      BY <1>3 DEF AddPrivateKey, TypeOK
    <3>2. /\ [files EXCEPT ![p][f] = lock] \in [Pods -> Files]
          /\ [loaded EXCEPT ![p][f] = lock] \in [Pods -> Files]
      BY <3>1, OneFile
    <3>. QED
      BY <1>3, <3>1, <3>2 DEF AddPrivateKey
  <2>2. opened' \in [Pods -> SUBSET Lax] /\ unlocked' \in [Pods -> SUBSET Fps]
    <3>1. CASE Opened(p, f)
      BY <3>1, OpenedType
    <3>2. CASE opened' = [opened EXCEPT ![p] = @ \ {f}] /\ UNCHANGED unlocked
      BY <3>2 DEF TypeOK
    <3>. QED
      BY <1>3, <3>1, <3>2 DEF AddPrivateKey
  <2>3. faults' \in 0 .. MaxFaults
    BY <1>3, FaultAssumption DEF AddPrivateKey, TypeOK
  <2>4. UNCHANGED <<running, master, passwords, unlocking, at, visit, received, batch>>
    BY <1>3 DEF AddPrivateKey, routine
  <2>. QED
    BY <2>1, <2>2, <2>3, <2>4 DEF TypeOK
<1>4. ASSUME NEW f \in Fps, DeleteKey(p, f) PROVE TypeOK'
  <2>1. files' \in [Pods -> Files]
    <3>1. files \in [Pods -> Files] /\ None \in Locks[f] \cup {None}
      BY DEF TypeOK
    <3>2. [files EXCEPT ![p][f] = None] \in [Pods -> Files]
      BY <3>1, OneFile
    <3>. QED
      BY <1>4, <3>1, <3>2 DEF DeleteKey
  <2>2. faults' \in 0 .. MaxFaults
    BY <1>4, FaultAssumption DEF DeleteKey, TypeOK
  <2>3. unlocked' \in [Pods -> SUBSET Fps]
    BY <1>4 DEF DeleteKey, TypeOK
  <2>4. UNCHANGED <<running, master, loaded, opened, passwords, unlocking, at, visit, received, batch>>
    BY <1>4 DEF DeleteKey, routine
  <2>. QED
    BY <2>1, <2>2, <2>3, <2>4 DEF TypeOK
<1>. QED
  BY <1>1, <1>2, <1>3, <1>4 DEF Request

LEMMA RoutineType ==
    ASSUME TypeOK, NEW p \in Pods, Routine(p) PROVE TypeOK'
<1>1. CASE ListPods(p) \/ NothingReceived(p) \/ TriggerFails(p)
  <2>1. /\ at' \in [Pods -> {"asleep", "visiting", "posting", "unlocking"}]
        /\ received' \in [Pods -> BOOLEAN]
    BY <1>1 DEF ListPods, NothingReceived, TriggerFails, Goto, TypeOK
  <2>2. visit' \in [Pods -> SUBSET Pods]
    BY <1>1 DEF ListPods, NothingReceived, TriggerFails, TypeOK
  <2>3. UNCHANGED <<running, master, files, loaded, opened, unlocked, passwords, unlocking, batch, faults>>
    BY <1>1 DEF ListPods, NothingReceived, TriggerFails, keys
  <2>. QED
    BY <2>1, <2>2, <2>3 DEF TypeOK
<1>2. ASSUME NEW q \in Pods, Fetch(p, q) \/ FetchFails(p, q) PROVE TypeOK'
  <2>1. /\ at' \in [Pods -> {"asleep", "visiting", "posting", "unlocking"}]
        /\ received' \in [Pods -> BOOLEAN]
    <3>1. CASE Fetch(p, q) /\ Known(passwords[q]) # {}
      BY <3>1 DEF Fetch, Goto, TypeOK
    <3>2. CASE ~(Fetch(p, q) /\ Known(passwords[q]) # {})
      BY <1>2, <3>2 DEF Fetch, FetchFails, TypeOK
    <3>. QED
      BY <3>1, <3>2
  <2>2. visit' \in [Pods -> SUBSET Pods] /\ batch' \in [Pods -> Stores]
    BY <1>2 DEF Fetch, FetchFails, TypeOK
  <2>3. UNCHANGED <<running, master, files, loaded, opened, unlocked, passwords, unlocking, faults>>
    BY <1>2 DEF Fetch, FetchFails, keys
  <2>. QED
    BY <2>1, <2>2, <2>3 DEF TypeOK
<1>3. CASE TriggerUnlock(p)
  BY <1>3 DEF TriggerUnlock, Goto, keys, TypeOK
<1>4. ASSUME NEW f \in Fps, NEW where \in {"visiting", "asleep"}, EntryDone(p, f, where)
      PROVE  /\ batch' \in [Pods -> Stores]
             /\ at' \in [Pods -> {"asleep", "visiting", "posting", "unlocking"}]
             /\ UNCHANGED <<visit, received>>
  BY <1>4 DEF EntryDone, Goto, Stores, TypeOK
<1>5. ASSUME NEW f \in Fps, PutEncryptedPassword(p, f) PROVE TypeOK'
  <2>1. passwords' \in [Pods -> Stores]
    <3>1. batch[p][f] \in Sealed \cup {None}
      BY DEF Stores, TypeOK
    <3>. QED
      BY <1>5, <3>1, OneEntry DEF PutEncryptedPassword, TypeOK
  <2>. QED
    BY <1>4, <1>5, <2>1 DEF PutEncryptedPassword, keys, TypeOK
<1>6. ASSUME NEW f \in Fps, UnlockLocalKey(p, f) PROVE TypeOK'
  <2>1. opened' \in [Pods -> SUBSET Lax] /\ unlocked' \in [Pods -> SUBSET Fps]
    BY <1>6, OpenedType DEF UnlockLocalKey, TypeOK
  <2>. QED
    BY <1>4, <1>6, <2>1 DEF UnlockLocalKey, TypeOK
<1>7. ASSUME NEW f \in Fps, UnlockPanics(p, f) PROVE TypeOK'
  BY <1>7, EmptyIsAStore DEF UnlockPanics, Goto, keys, TypeOK
<1>8. CASE PostFails(p)
  BY <1>8, EmptyIsAStore DEF PostFails, Goto, keys, TypeOK
<1>. QED
  BY <1>1, <1>2, <1>3, <1>5, <1>6, <1>7, <1>8 DEF Routine

LEMMA TypeStep == TypeOK /\ [Next]_vars => TypeOK'
<1>. SUFFICES ASSUME TypeOK, [Next]_vars PROVE TypeOK'
  OBVIOUS
<1>1. ASSUME NEW p \in Pods, Stop(p) PROVE TypeOK'
  <2>1. faults' \in 0 .. MaxFaults
    BY <1>1, FaultAssumption DEF Stop, TypeOK
  <2>. QED
    BY <1>1, <2>1, EmptyIsAStore DEF Stop, Goto, TypeOK
<1>2. ASSUME NEW p \in Pods, Start(p) PROVE TypeOK'
  <2>1. opened' \in [Pods -> SUBSET Lax] /\ unlocked' \in [Pods -> SUBSET Fps]
    BY <1>2 DEF Start, Known, TypeOK
  <2>2. master' \in [Pods -> MasterKeys \cup {None}] /\ loaded' \in [Pods -> Files]
    BY <1>2 DEF Start, TypeOK
  <2>3. running' \subseteq Pods
    BY <1>2 DEF Start, TypeOK
  <2>4. UNCHANGED <<files, passwords, unlocking, routine, faults>>
    BY <1>2 DEF Start
  <2>. QED
    BY <2>1, <2>2, <2>3, <2>4 DEF routine, TypeOK
<1>3. CASE UNCHANGED vars
  BY <1>3 DEF vars, keys, routine, TypeOK
<1>. QED
  BY <1>1, <1>2, <1>3, RequestType, RoutineType DEF Next

-----------------------------------------------------------------------------
LEMMA SharedStep == IInv /\ [Next]_vars => SharedOK'
<1>. SUFFICES ASSUME IInv, [Next]_vars PROVE SharedOK'
  OBVIOUS
<1>0. TypeOK /\ SharedOK
  BY DEF IInv
<1>1. ASSUME NEW p \in Pods, NEW f \in Fps, NEW pw \in Passwords, UnlockKey(p, f, pw)
      PROVE  \A q \in Pods : RightPending(unlocking'[q])
  <2>1. f \notin Lax => pw \in Locks[f]
    <3>1. Opens(p, f, pw) /\ loaded[p] \in Files /\ opened[p] \subseteq Lax
      BY <1>0, <1>1 DEF UnlockKey, TypeOK
    <3>. QED
      BY <3>1 DEF Opens, Files
  <2>2. unlocking' = [unlocking EXCEPT ![p] = @ \cup {<<f, pw>>}]
    BY <1>1 DEF UnlockKey
  <2>. QED
    BY <1>0, <2>1, <2>2 DEF SharedOK, RightPending, TypeOK
<1>2. ASSUME NEW p \in Pods, NEW f \in Fps, NEW pw \in Passwords, PutKeyPassword(p, f, pw)
      PROVE  \A q \in Pods : RightIn(passwords'[q]) /\ RightPending(unlocking'[q])
  <2>1. \A q \in Pods : RightPending(unlocking'[q])
    BY <1>0, <1>2 DEF PutKeyPassword, SharedOK, RightPending, TypeOK
  <2>2. f \notin Lax => pw \in Locks[f]
    BY <1>0, <1>2 DEF PutKeyPassword, SharedOK, RightPending
  <2>3. CASE passwords' = [passwords EXCEPT ![p][f] = [password |-> pw, master |-> master[p]]]
    BY <1>0, <2>1, <2>2, <2>3 DEF SharedOK, RightIn, TypeOK, Stores
  <2>. QED
    BY <1>0, <1>2, <2>1, <2>3 DEF PutKeyPassword, SharedOK
<1>3. ASSUME NEW p \in Pods, NEW q \in Pods, Fetch(p, q)
      PROVE  \A r \in Pods : RightIn(batch'[r])
  BY <1>0, <1>3 DEF Fetch, SharedOK, TypeOK
<1>4. ASSUME NEW p \in Pods, NEW f \in Fps, NEW where, EntryDone(p, f, where)
      PROVE  \A q \in Pods : RightIn(batch'[q])
  BY <1>0, <1>4 DEF EntryDone, SharedOK, RightIn, TypeOK, Stores
<1>5. ASSUME NEW p \in Pods, NEW f \in Fps, PutEncryptedPassword(p, f)
      PROVE  \A q \in Pods : RightIn(passwords'[q])
  BY <1>0, <1>5 DEF PutEncryptedPassword, SharedOK, RightIn, TypeOK, Stores
<1>6. ASSUME NEW p \in Pods, TriggerUnlock(p)
      PROVE  \A q \in Pods : RightIn(batch'[q])
  BY <1>0, <1>6 DEF TriggerUnlock, SharedOK, TypeOK
<1>7. ASSUME NEW p \in Pods, NEW f \in Fps, UnlockPanics(p, f) \/ PostFails(p)
      PROVE  \A q \in Pods : RightIn(batch'[q])
  BY <1>0, <1>7, EmptyIsAStore DEF UnlockPanics, PostFails, SharedOK, TypeOK
<1>8. ASSUME NEW p \in Pods, Stop(p) PROVE SharedOK'
  BY <1>0, <1>8, EmptyIsAStore DEF Stop, TypeOK, SharedOK, RightPending
<1>9. ASSUME NEW p \in Pods, Request(p) PROVE SharedOK'
  BY <1>0, <1>1, <1>2, <1>9 DEF Request, UnlockKey, PutKeyPassword, AddPrivateKey, DeleteKey, routine, SharedOK
<1>10. ASSUME NEW p \in Pods, Routine(p) PROVE SharedOK'
  <2>1. ASSUME NEW f \in Fps, PutEncryptedPassword(p, f) \/ UnlockLocalKey(p, f) \/ UnlockPanics(p, f)
        PROVE  SharedOK'
    BY <1>0, <1>4, <1>5, <1>7, <2>1 DEF PutEncryptedPassword, UnlockLocalKey, UnlockPanics, SharedOK
  <2>2. ASSUME NEW r \in Pods, Fetch(p, r) \/ FetchFails(p, r) PROVE SharedOK'
    BY <1>0, <1>3, <2>2 DEF Fetch, FetchFails, SharedOK
  <2>3. CASE ListPods(p) \/ NothingReceived(p) \/ TriggerUnlock(p) \/ TriggerFails(p)
    BY <1>0, <1>6, <2>3 DEF ListPods, NothingReceived, TriggerUnlock, TriggerFails, SharedOK
  <2>4. CASE PostFails(p)
    BY <1>0, <2>4, EmptyIsAStore DEF PostFails, SharedOK, TypeOK
  <2>. QED
    BY <1>10, <2>1, <2>2, <2>3, <2>4 DEF Routine
<1>11. ASSUME NEW p \in Pods, Start(p) PROVE SharedOK'
  BY <1>0, <1>11 DEF Start, routine, SharedOK
<1>. QED
  BY <1>0, <1>8, <1>9, <1>10, <1>11 DEF Next, vars, routine, SharedOK

LEMMA NextOK == IInv /\ [Next]_vars => IInv'
BY TypeStep, SharedStep DEF IInv

(* Every variable keeps its type: what a pod loads or saves for a key is    *)
(* one of its files.                                                        *)
THEOREM TypeCorrect == Spec => []TypeOK
BY InitOK, NextOK, PTL DEF Spec, IInv

(* However the pods stop, start, take other files of their keys and other   *)
(* master keys and exchange what they store: of a key that tells passwords  *)
(* apart only passwords of its files are stored, posted and tried.          *)
THEOREM OnlyItsPasswords == Spec => []OnlyPasswordsShared
BY InitOK, NextOK, SharedMeans, PTL DEF Spec, IInv

-----------------------------------------------------------------------------
(* How far the goroutines can be apart: each meeting leaves its two on a    *)
(* known side of it.                                                        *)
Steps ==
    /\ inKubernetes /\ routineRuns => stopper \in {"none", "spawned", "signal", "kubeStop"}
    /\ closer \in {"close", "cleaned", "done"} => stopper \in {"cleanup", "localStop", "done"}
    /\ stopper \in {"localStop", "done"} => closer = "done"
    /\ server = "closed" => closer \in {"cleaned", "done"}
    /\ closer \in {"cleaned", "done"} => server \in {"closed", "failed"}
    /\ process = "ended" => stopper = "done"
    /\ main \in {"boot", "serving", "notify", "spawn"} => stopper = "none"
    /\ main = "boot" => closer = "none" /\ server = "none"
ServerIInv == ServerTypeOK /\ Steps

LEMMA ServerInitOK == ServerInit => ServerIInv
<1>. SUFFICES ASSUME ServerInit PROVE ServerIInv
  OBVIOUS
<1>1. 0 \in 0 .. MaxPods /\ 0 \in 0 .. MaxSignals
  BY BoundAssumption
<1>2. ServerTypeOK
  BY <1>1 DEF ServerInit, ServerTypeOK
<1>3. Steps
  BY DEF ServerInit, Steps
<1>. QED
  BY <1>2, <1>3 DEF ServerIInv

LEMMA ServerTypeStep == ServerTypeOK /\ [ServerNext]_serverVars => ServerTypeOK'
<1>. SUFFICES ASSUME ServerTypeOK, [ServerNext]_serverVars PROVE ServerTypeOK'
  OBVIOUS
<1>. USE BoundAssumption DEF ServerTypeOK, kubeVars, passVars
<1>1. CASE Main \/ AwaitSignal
  BY <1>1 DEF Main, RunRemoteSignerServer, StartKubeRoutine, Notify, SpawnStopper, AwaitSignal
<1>2. CASE Http \/ Meet
  BY <1>2 DEF Http, ListenAndServe, Close, Meet, StopHttp, Cleaned, LocalStop
<1>3. CASE FirstWait \/ Select \/ ListOtherPods \/ Sleep
  BY <1>3 DEF FirstWait, Select, ListOtherPods, Sleep
<1>4. CASE FetchPod \/ Post \/ AllFetched \/ TriggerKeyUnlock
  <2>1. rest' \in 0 .. MaxPods
    BY <1>4 DEF FetchPod, Post, AllFetched, TriggerKeyUnlock
  <2>2. process' \in {"up", "panicked"} /\ routineReceived' \in BOOLEAN
    BY <1>4 DEF FetchPod, Post, AllFetched, TriggerKeyUnlock
  <2>3. kube' \in {"fetch", "post", "trigger", "sleep"}
    BY <1>4 DEF FetchPod, Post, AllFetched, TriggerKeyUnlock
  <2>4. UNCHANGED <<inKubernetes, main, stopper, closer, server, routineRuns, signals>>
    BY <1>4 DEF FetchPod, Post, AllFetched, TriggerKeyUnlock
  <2>. QED
    BY <2>1, <2>2, <2>3, <2>4
<1>5. CASE Signal
  BY <1>5 DEF Signal
<1>6. CASE UNCHANGED serverVars
  BY <1>6 DEF serverVars
<1>. QED
  BY <1>1, <1>2, <1>3, <1>4, <1>5, <1>6 DEF ServerNext, KubeRoutine

LEMMA StepsStep == ServerIInv /\ [ServerNext]_serverVars => Steps'
<1>. SUFFICES ASSUME ServerTypeOK, Steps, [ServerNext]_serverVars PROVE Steps'
  BY DEF ServerIInv
<1>. USE DEF ServerTypeOK, Steps, kubeVars, passVars
<1>1. CASE Main \/ AwaitSignal
  BY <1>1 DEF Main, RunRemoteSignerServer, StartKubeRoutine, Notify, SpawnStopper, AwaitSignal
<1>2. CASE Http \/ Meet
  BY <1>2 DEF Http, ListenAndServe, Close, Meet, StopHttp, Cleaned, LocalStop
<1>3. CASE FirstWait \/ Select \/ ListOtherPods \/ Sleep
  BY <1>3 DEF FirstWait, Select, ListOtherPods, Sleep
<1>4. CASE FetchPod \/ Post \/ AllFetched \/ TriggerKeyUnlock
  BY <1>4 DEF FetchPod, Post, AllFetched, TriggerKeyUnlock
<1>5. CASE Signal
  BY <1>5 DEF Signal
<1>6. CASE UNCHANGED serverVars
  BY <1>6 DEF serverVars
<1>. QED
  BY <1>1, <1>2, <1>3, <1>4, <1>5, <1>6 DEF ServerNext, KubeRoutine

LEMMA ServerNextOK == ServerIInv /\ [ServerNext]_serverVars => ServerIInv'
BY ServerTypeStep, StepsStep DEF ServerIInv

(* Every variable keeps its type.                                           *)
THEOREM ServerTypeCorrect == ServerSpec => []ServerTypeOK
BY ServerInitOK, ServerNextOK, PTL DEF ServerSpec, ServerIInv

(* The routine has taken the stop before the HTTP server closes, and main   *)
(* returns only when the server is closed or never came to listen.          *)
THEOREM StopKeepsOrder == ServerSpec => []StopsInOrder
<1>1. ServerIInv => StopsInOrder
  BY DEF ServerIInv, Steps, StopsInOrder, ServerTypeOK
<1>. QED
  BY <1>1, ServerInitOK, ServerNextOK, PTL DEF ServerSpec
=============================================================================
