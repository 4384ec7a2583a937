----------------------------- MODULE KubeCluster -----------------------------
(***************************************************************************)
(* The pods of one deployment and how they share the passwords of their     *)
(* keys: the secrets manager (internal/keymagic/secretsManager.go) keeps    *)
(* them encrypted with the master key, and the Kubernetes routine           *)
(* (internal/kubernetes/kubeRoutine.go) of every pod collects those of the  *)
(* other pods and has its own pod unlock its keys with them.                *)
(*                                                                         *)
(* Of the key manager this module keeps which keys are loaded, with which   *)
(* password, and which are unlocked (PgpManager has the rest).  A key may   *)
(* come in several files, each encrypted with a password of its own.        *)
(***************************************************************************)
EXTENDS FiniteSets, Naturals

CONSTANTS
    Pods,
    Fps,            \* fingerprints of private keys
    Passwords,
    Locks,          \* fingerprint -> the passwords of its files
    Lax,            \* fingerprints of subkeys: once unlocked, any password opens them
    MasterKeys,
    Deployed,       \* fingerprint -> the password of the file in every backend
    MasterKey,      \* pod -> the master key it is deployed with, or None
    MaxFaults,      \* bound: how often pods stop, and keys are deleted or replaced
    None

ASSUME KeyAssumption   == Locks \in [Fps -> SUBSET Passwords] /\ Lax \subseteq Fps

(* What a backend can have: of every key one of its files or none.          *)
Files == {s \in [Fps -> Passwords \cup {None}] : \A f \in Fps : s[f] \in Locks[f] \cup {None}}
ASSUME DeploymentAssumption ==
    Deployed \in Files /\ MasterKey \in [Pods -> MasterKeys \cup {None}]
ASSUME ValueAssumption == None \notin Passwords \cup MasterKeys
ASSUME FaultAssumption == MaxFaults \in Nat

VARIABLES
    running,        \* pods whose process runs
    master,         \* pod -> its master key, or None (amIUseless)
    files,          \* pod -> key -> the password of the file in its backend
    loaded,         \* pod -> key -> the password of the one in memory
    opened,         \* pod -> subkeys unlocked since they were loaded
    unlocked,       \* pod -> keys that are not locked
    passwords,      \* pod -> encryptedPasswords
    unlocking,      \* pod -> unlockKey requests with the key unlocked and
                    \* its password not yet stored
    at,             \* pod -> where its routine is
    visit,          \* pod -> pods its routine has still to ask
    received,       \* pod -> whether passwordCount is positive
    batch,          \* pod -> the passwords being posted or tried
    faults

routine == <<at, visit, received, batch>>
keys    == <<files, loaded, opened, unlocked>>
vars    == <<running, master, keys, passwords, unlocking, routine, faults>>

(* A password as the secrets manager keeps it, encrypted with a master key. *)
Sealed == [password : Passwords, master : MasterKeys]
Stores == [Fps -> Sealed \cup {None}]
Empty  == [f \in Fps |-> None]
Known(store) == {f \in Fps : store[f] # None}

TypeOK ==
    /\ running \subseteq Pods
    /\ master \in [Pods -> MasterKeys \cup {None}]
    /\ files \in [Pods -> Files]
    /\ loaded \in [Pods -> Files]
    /\ opened \in [Pods -> SUBSET Lax]
    /\ unlocked \in [Pods -> SUBSET Fps]
    /\ passwords \in [Pods -> Stores]
    /\ unlocking \in [Pods -> SUBSET (Fps \X Passwords)]
    /\ at \in [Pods -> {"asleep", "visiting", "posting", "unlocking"}]
    /\ visit \in [Pods -> SUBSET Pods]
    /\ received \in [Pods -> BOOLEAN]
    /\ batch \in [Pods -> Stores]
    /\ faults \in 0 .. MaxFaults

(* Every pod is deployed with the same files, and starts with its keys      *)
(* locked.                                                                  *)
Init ==
    /\ running = Pods
    /\ master = MasterKey
    /\ files = [p \in Pods |-> Deployed]
    /\ loaded = files
    /\ opened = [p \in Pods |-> {}]
    /\ unlocked = [p \in Pods |-> {}]
    /\ passwords = [p \in Pods |-> Empty]
    /\ unlocking = [p \in Pods |-> {}]
    /\ at = [p \in Pods |-> "asleep"]
    /\ visit = [p \in Pods |-> {}]
    /\ received = [p \in Pods |-> FALSE]
    /\ batch = [p \in Pods |-> Empty]
    /\ faults = 0

-----------------------------------------------------------------------------
(* What the key manager of a pod does to a key.                             *)
Opens(p, f, pw) ==
    /\ loaded[p][f] # None
    /\ pw = loaded[p][f] \/ f \in opened[p]

Opened(p, f) ==
    /\ unlocked' = [unlocked EXCEPT ![p] = @ \cup {f}]
    /\ opened' = [opened EXCEPT ![p] = @ \cup ({f} \cap Lax)]

(* Mutant: the password is stored whether or not it opens the key.          *)
StoresAnyPassword(p, f, pw) ==
    /\ p \in running
    /\ unlocking' = [unlocking EXCEPT ![p] = @ \cup {<<f, pw>>}]
    /\ IF Opens(p, f, pw) THEN Opened(p, f) ELSE UNCHANGED <<opened, unlocked>>
    /\ UNCHANGED <<running, master, files, loaded, passwords, routine, faults>>

(* POST /gpg/unlockKey: the key is unlocked, then its password stored; two  *)
(* steps, each under a lock of its own.                                     *)
UnlockKey(p, f, pw) ==
    /\ p \in running
    /\ Opens(p, f, pw)
    /\ Opened(p, f)
    /\ unlocking' = [unlocking EXCEPT ![p] = @ \cup {<<f, pw>>}]
    /\ UNCHANGED <<running, master, files, loaded, passwords, routine, faults>>

(* Not stored without a master key, or if Encrypt fails: the answer is OK.  *)
PutKeyPassword(p, f, pw) ==
    /\ <<f, pw>> \in unlocking[p]
    /\ unlocking' = [unlocking EXCEPT ![p] = @ \ {<<f, pw>>}]
    /\ \/ /\ master[p] # None
          /\ passwords' = [passwords EXCEPT ![p][f] = [password |-> pw, master |-> master[p]]]
       \/ UNCHANGED passwords
    /\ UNCHANGED <<running, master, keys, routine, faults>>

(* POST /keyRing/addPrivateKey takes any file of the key: it loads it, may  *)
(* unlock it with its password, and may save it.  A key that is unlocked    *)
(* stays so.  The secrets manager is not told the password.  The three are  *)
(* sections of their own, but what others do in between they can also do    *)
(* after the first, and a request that only loads comes to the same.        *)
AddPrivateKey(p, f, lock) ==
    /\ p \in running
    /\ lock \in Locks[f]
    /\ IF lock = loaded[p][f] THEN UNCHANGED faults
       ELSE faults < MaxFaults /\ faults' = faults + 1
    /\ loaded' = [loaded EXCEPT ![p][f] = lock]
    /\ \/ Opened(p, f)
       \/ opened' = [opened EXCEPT ![p] = @ \ {f}] /\ UNCHANGED unlocked
    /\ files' \in {files, [files EXCEPT ![p][f] = lock]}
    /\ UNCHANGED <<running, master, passwords, unlocking, routine>>

(* POST /keyRing/deletePrivateKey locks the key and deletes its file, which *)
(* may fail; the encrypted key stays in memory, its password in the store.  *)
DeleteKey(p, f) ==
    /\ p \in running
    /\ faults < MaxFaults /\ faults' = faults + 1
    /\ unlocked' = [unlocked EXCEPT ![p] = @ \ {f}]
    /\ files' \in {files, [files EXCEPT ![p][f] = None]}
    /\ UNCHANGED <<running, master, loaded, opened, passwords, unlocking, routine>>

-----------------------------------------------------------------------------
(* The routine: list the pods, ask each of the others that runs for its     *)
(* passwords, post them to the own pod, and have it unlock its keys.        *)

Goto(p, where) == at' = [at EXCEPT ![p] = where]

(* An error of the API server leaves nobody to ask: the routine sleeps on.  *)
(* If the API server did not answer at the start, the pod does not know     *)
(* itself in the list and asks itself too.                                  *)
ListPods(p) ==
    /\ p \in running /\ at[p] = "asleep"
    /\ Goto(p, "visiting")
    /\ \E me \in {{p}, {}} : visit' = [visit EXCEPT ![p] = running \ me]
    /\ received' = [received EXCEPT ![p] = FALSE]
    /\ UNCHANGED <<running, master, keys, passwords, unlocking, batch, faults>>

(* GET __getUnlockPasswords of another pod.                                 *)
Fetch(p, q) ==
    /\ p \in running /\ at[p] = "visiting"
    /\ q \in visit[p] \cap running
    /\ visit' = [visit EXCEPT ![p] = @ \ {q}]
    /\ batch' = [batch EXCEPT ![p] = passwords[q]]
    /\ IF Known(passwords[q]) = {}
       THEN UNCHANGED <<at, received>>
       ELSE Goto(p, "posting") /\ received' = [received EXCEPT ![p] = TRUE]
    /\ UNCHANGED <<running, master, keys, passwords, unlocking, faults>>

FetchFails(p, q) ==
    /\ p \in running /\ at[p] = "visiting"
    /\ q \in visit[p]
    /\ visit' = [visit EXCEPT ![p] = @ \ {q}]
    /\ UNCHANGED <<running, master, keys, passwords, unlocking, at, received, batch, faults>>

(* One entry of a batch is dealt with; after the last the routine goes on.  *)
EntryDone(p, f, where) ==
    /\ batch' = [batch EXCEPT ![p][f] = None]
    /\ IF Known(batch[p]) = {f} THEN Goto(p, where) ELSE UNCHANGED at
    /\ UNCHANGED <<visit, received>>

(* POST __postEncryptedPasswords to the own pod: entry by entry, and the    *)
(* last one wins over what the pod has, even without a master key.          *)
PutEncryptedPassword(p, f) ==
    /\ p \in running /\ at[p] = "posting"
    /\ f \in Known(batch[p])
    /\ passwords' = [passwords EXCEPT ![p][f] = batch[p][f]]
    /\ EntryDone(p, f, "visiting")
    /\ UNCHANGED <<running, master, keys, unlocking, faults>>

(* An answer other than 200, after some of the entries: they are counted    *)
(* all the same.                                                            *)
PostFails(p) ==
    /\ p \in running /\ at[p] = "posting"
    /\ batch' = [batch EXCEPT ![p] = Empty]
    /\ Goto(p, "visiting")
    /\ UNCHANGED <<running, master, keys, passwords, unlocking, visit, received, faults>>

NothingReceived(p) ==
    /\ p \in running /\ at[p] = "visiting" /\ visit[p] = {}
    /\ ~received[p]
    /\ Goto(p, "asleep")
    /\ UNCHANGED <<running, master, keys, passwords, unlocking, visit, received, batch, faults>>

(* GET __triggerKeyUnlock of the own pod: UnlockLocalKeys copies the        *)
(* passwords under its lock.                                                *)
TriggerUnlock(p) ==
    /\ p \in running /\ at[p] = "visiting" /\ visit[p] = {}
    /\ received[p]
    /\ batch' = [batch EXCEPT ![p] = passwords[p]]
    /\ Goto(p, IF Known(passwords[p]) = {} THEN "asleep" ELSE "unlocking")
    /\ UNCHANGED <<running, master, keys, passwords, unlocking, visit, received, faults>>

(* The error of that request is dropped.                                    *)
TriggerFails(p) ==
    /\ p \in running /\ at[p] = "visiting" /\ visit[p] = {}
    /\ received[p]
    /\ Goto(p, "asleep")
    /\ UNCHANGED <<running, master, keys, passwords, unlocking, visit, received, batch, faults>>

(* Mutant: the test of the wasm variant, secretsManager_wasm.go:172.        *)
SkipsLocked(p, f) ==
    /\ p \in running /\ at[p] = "unlocking"
    /\ f \in Known(batch[p])
    /\ IF /\ f \in unlocked[p] /\ batch[p][f].master = master[p]
          /\ Opens(p, f, batch[p][f].password)
       THEN Opened(p, f) ELSE UNCHANGED <<unlocked, opened>>
    /\ EntryDone(p, f, "asleep")
    /\ UNCHANGED <<running, master, files, loaded, passwords, unlocking, faults>>

(* A password that Decrypt cannot read, for it is encrypted with another    *)
(* master key, and one that does not open the key are passed over.          *)
UnlockLocalKey(p, f) ==
    /\ p \in running /\ at[p] = "unlocking"
    /\ f \in Known(batch[p])
    /\ master[p] = None => f \in unlocked[p]
    /\ IF /\ f \notin unlocked[p] /\ batch[p][f].master = master[p]
          /\ Opens(p, f, batch[p][f].password)
       THEN Opened(p, f) ELSE UNCHANGED <<unlocked, opened>>
    /\ EntryDone(p, f, "asleep")
    /\ UNCHANGED <<running, master, files, loaded, passwords, unlocking, faults>>

(* Without a master key there is no sm.gpg to decrypt with: the handler     *)
(* panics, recovers, and answers an error nobody reads.                     *)
UnlockPanics(p, f) ==
    /\ p \in running /\ at[p] = "unlocking"
    /\ f \in Known(batch[p]) \ unlocked[p]
    /\ master[p] = None
    /\ batch' = [batch EXCEPT ![p] = Empty]
    /\ Goto(p, "asleep")
    /\ UNCHANGED <<running, master, keys, passwords, unlocking, visit, received, faults>>

-----------------------------------------------------------------------------
(* A pod stops, or its routine panics because its own server is gone: all   *)
(* that is in memory is lost.  Kubernetes starts it again; it loads the     *)
(* keys of its backend and unlocks those saved with their password; it may  *)
(* find another master key, or none.                                        *)
Stop(p) ==
    /\ p \in running
    /\ faults < MaxFaults /\ faults' = faults + 1
    /\ running' = running \ {p}
    /\ unlocked' = [unlocked EXCEPT ![p] = {}]
    /\ opened' = [opened EXCEPT ![p] = {}]
    /\ passwords' = [passwords EXCEPT ![p] = Empty]
    /\ unlocking' = [unlocking EXCEPT ![p] = {}]
    /\ Goto(p, "asleep")
    /\ visit' = [visit EXCEPT ![p] = {}]
    /\ received' = [received EXCEPT ![p] = FALSE]
    /\ batch' = [batch EXCEPT ![p] = Empty]
    /\ UNCHANGED <<master, files, loaded>>

Start(p) ==
    /\ p \notin running
    /\ running' = running \cup {p}
    /\ loaded' = [loaded EXCEPT ![p] = files[p]]
    /\ \E saved \in SUBSET Known(files[p]) :
           /\ unlocked' = [unlocked EXCEPT ![p] = saved]
           /\ opened' = [opened EXCEPT ![p] = saved \cap Lax]
    /\ \E key \in MasterKeys \cup {None} : master' = [master EXCEPT ![p] = key]
    /\ UNCHANGED <<files, passwords, unlocking, routine, faults>>

Request(p) == \E f \in Fps :
    \/ \E pw \in Passwords : UnlockKey(p, f, pw) \/ PutKeyPassword(p, f, pw) \/ AddPrivateKey(p, f, pw)
    \/ DeleteKey(p, f)
Routine(p) ==
    \/ ListPods(p)
    \/ \E q \in Pods : Fetch(p, q) \/ FetchFails(p, q)
    \/ PostFails(p) \/ NothingReceived(p) \/ TriggerUnlock(p) \/ TriggerFails(p)
    \/ \E f \in Fps : PutEncryptedPassword(p, f) \/ UnlockLocalKey(p, f) \/ UnlockPanics(p, f)
Next == \E p \in Pods : Request(p) \/ Routine(p) \/ Stop(p) \/ Start(p)

Spec == Init /\ [][Next]_vars

(* The routine is a loop with sleeps: what it can do it does.  A request to *)
(* the API server, to another pod or to the own pod may fail any number of  *)
(* times, not for ever.  A handler goes on to its end, and Kubernetes       *)
(* starts a pod again.                                                      *)
Fairness == \A p \in Pods :
    /\ WF_vars(Routine(p)) /\ WF_vars(Start(p))
    /\ \A q \in Pods \ {p} : SF_vars(Fetch(p, q))
    /\ \A f \in Fps : SF_vars(PutEncryptedPassword(p, f))
    /\ SF_vars(TriggerUnlock(p))
    /\ \A f \in Fps, pw \in Passwords : WF_vars(PutKeyPassword(p, f, pw))
FairSpec == Spec /\ Fairness

-----------------------------------------------------------------------------
(* Properties *)

(* Whatever the order of unlocking, adding, asking, posting, stopping and    *)
(* starting: what any pod stores, is about to store, posts or tries for a    *)
(* key that tells passwords apart is the password of one of its files,       *)
(* though not always of the one that is loaded.                              *)
OnlyPasswordsShared ==
    \A p \in Pods : \A f \in Fps \ Lax :
        /\ passwords[p][f] # None => passwords[p][f].password \in Locks[f]
        /\ batch[p][f] # None => batch[p][f].password \in Locks[f]
        /\ \A pw \in Passwords : <<f, pw>> \in unlocking[p] => pw \in Locks[f]

Fits(p, f, e) == e.master = master[p] /\ e.password = loaded[p][f]

(* The aim of the routine: once the passwords that the pods have for a key   *)
(* fit what a running pod has loaded, and there always is one, that pod has  *)
(* the key unlocked in the end, through lost requests, deletions, added      *)
(* files, other master keys and the stop of pods, the one the password was   *)
(* given to included.                                                        *)
Converges ==
    \A p \in Pods, f \in Fps :
        <>[](/\ p \in running
             /\ \E q \in Pods : passwords[q][f] # None
             /\ \A q \in Pods : passwords[q][f] # None => Fits(p, f, passwords[q][f]))
            => <>[](f \in unlocked[p])
=============================================================================
