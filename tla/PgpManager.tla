----------------------------- MODULE PgpManager -----------------------------
(***************************************************************************)
(* The manager of private keys of internal/keymagic/pgpManager.go and the   *)
(* requests that use it: which keys are loaded, which are unlocked, and     *)
(* what the key backend holds.                                              *)
(*                                                                         *)
(* Requests run in Threads.  LoadKeyFromKB, LoadKey and unlockKey run with   *)
(* pm.Mutex held (UnlockKey, LoadKeys, Decrypt) or without it (SignData,     *)
(* GetPrivate, GetKey, addPrivateKey), so they are cut at each write to a    *)
(* map, at each read whose value is used later, and at the backend.  A       *)
(* section of other code that holds the mutex and writes no map is one step. *)
(***************************************************************************)
EXTENDS FiniteSets

CONSTANTS
    Threads,
    Fps,               \* fingerprints of primary keys and of subkeys
    Passwords,
    Files,             \* the armored keys that exist
    OnDemandKeyLoad,   \* config.OnDemandKeyLoad
    AgentKeyFingerPrint, \* its value from the environment, or None
    Plain,             \* the "password" of a key that is not encrypted
    Lost,              \* the "holder" of a mutex that a panic has kept
    None

(* An armored key: its primary key, the subkeys, whether it holds the       *)
(* private halves, and the passwords these are encrypted with.              *)
ASSUME FilesAssumption ==
    Files \subseteq [fp : Fps, subs : SUBSET Fps, private : BOOLEAN,
                     lock : Passwords \cup {Plain}, sublock : Passwords \cup {Plain}]
(* A subkey is bound to one primary key, and no primary key is a subkey of   *)
(* any.  (GeneratePGPKey binds a key to itself, but writes both packets as   *)
(* primary keys: the reader takes the second for another key, which has no   *)
(* user, and drops it.  A generated key is read as one without subkeys.)     *)
ASSUME SubkeyAssumption == \A a, b \in Files :
    (a.subs \cap b.subs # {} => a.fp = b.fp) /\ b.fp \notin a.subs
ASSUME NoneAssumption  == None \notin Threads /\ None \notin Fps /\ None \notin Passwords
                             /\ Plain \notin Passwords /\ Lost \notin Threads /\ Lost # None
ASSUME FlagAssumption  == OnDemandKeyLoad \in BOOLEAN /\ AgentKeyFingerPrint \in Fps \cup {None}

(* An openpgp.Entity in memory; of is the key its key material belongs to.  *)
Entities == [of : Fps, subs : SUBSET Fps, private : BOOLEAN,
             lock : Passwords \cup {Plain}, sublock : Passwords \cup {Plain}]

ReadArmoredKey(file) ==
    [of |-> file.fp, subs |-> file.subs, private |-> file.private,
     lock |-> file.lock, sublock |-> file.sublock]
PublicEntity(f, subs) ==
    [of |-> f, subs |-> subs, private |-> FALSE, lock |-> Plain, sublock |-> Plain]
(* The entity made of an unlocked subkey lists that key as its own subkey.  *)
CreateEntityFromKeys(s) ==
    [of |-> s, subs |-> {s}, private |-> TRUE, lock |-> Plain, sublock |-> Plain]
(* The one the key ring makes of a subkey of a key it is given does not.    *)
CreateEntityForSubKey(file, s) ==
    [of |-> s, subs |-> {}, private |-> file.private,
     lock |-> file.sublock, sublock |-> file.sublock]

(* What a key backend stores: an armored private key and the password of its *)
(* metadata, if it has any.                                                 *)
Stored == [file : Files, password : Passwords \cup {None}]

ASSUME NoneNotData == None \notin Entities /\ None \notin Stored /\ None \notin Files

VARIABLES
    mem,       \* the maps of pgpManager and config.AgentKeyFingerPrint
    shared,    \* files in the key ring; subkeys decrypted in place in some entity
    kb,        \* the key backend: fingerprint -> Stored or None
    mutex,     \* the thread that holds pm.Mutex between two steps, None or Lost
    pc,        \* thread -> what it does next
    req,       \* thread -> the arguments and local variables of its request
    call       \* thread -> those of LoadKeyFromKB, LoadKey and unlockKey

vars == <<mem, shared, kb, mutex, pc, req, call>>

entities    == mem.entities
decrypted   == mem.decrypted     \* fingerprint -> owner of the private key in the map
subKeyToKey == mem.subKeyToKey

(* Steps at which a thread waits for the mutex, and those of the loading     *)
(* and unlocking that every request shares.                                  *)
Waiting   == {"sign", "getAgain", "decrypt", "addUnlock", "publish"}
Loading   == {"look", "read", "entity", "subkeys"}
Unlocking == {"test", "list", "open", "standIn"}
Steps == Waiting \cup Loading \cup Unlocking \cup
         {"idle", "check", "get", "loadKeys", "find", "findMaster",
          "fetch", "store", "deleteKB", "save"}

(* arg, pass and file are what the request is about, todo what LoadKeys has  *)
(* still to read, ent what GetPublicKey has found.                           *)
NoRequest == [arg |-> None, pass |-> None, file |-> None, todo |-> {}, ent |-> None]
Requests  == [arg : Fps \cup {None}, pass : Passwords \cup {None}, file : Files \cup {None},
              todo : SUBSET Fps, ent : Entities \cup {None}]

(* LoadKeyFromKB is asked for the key at and returns to the step back, after *)
(* having loaded read.  unlockKey, called from there (meta) or by the request, *)
(* keeps a copy of a private key (own) and goes through subkeys encrypted     *)
(* with lock: subs are left, sub has just been decrypted.                    *)
NoCall == [at |-> None, back |-> "idle", read |-> None, meta |-> FALSE,
           own |-> None, subs |-> {}, lock |-> Plain, sub |-> None]
Calls  == [at : Fps \cup {None}, back : Steps, read : Stored \cup {None}, meta : BOOLEAN,
           own : Fps \cup {None}, subs : SUBSET Fps, lock : Passwords \cup {Plain},
           sub : Fps \cup {None}]

TypeOK ==
    /\ mem \in [entities : [Fps -> Entities \cup {None}],
                decrypted : [Fps -> Fps \cup {None}],
                subKeyToKey : [Fps -> Fps \cup {None}],
                agent : Fps \cup {None}]
    /\ shared \in [ring : SUBSET Files, opened : SUBSET Fps]
    /\ kb \in [Fps -> Stored \cup {None}]
    /\ \A f \in Fps : kb[f] # None => kb[f].file.fp = f /\ kb[f].file.private
    /\ mutex \in Threads \cup {None, Lost}
    /\ pc \in [Threads -> Steps]
    /\ req \in [Threads -> Requests]
    /\ call \in [Threads -> Calls]

Init ==
    /\ mem = [entities |-> [f \in Fps |-> None], decrypted |-> [f \in Fps |-> None],
              subKeyToKey |-> [f \in Fps |-> None], agent |-> AgentKeyFingerPrint]
    /\ shared = [ring |-> {}, opened |-> {}]
    /\ kb \in [Fps -> Stored \cup {None}]
    /\ \A f \in Fps : kb[f] # None => kb[f].file.fp = f /\ kb[f].file.private
    /\ mutex = None
    /\ pc = [t \in Threads |-> "idle"]
    /\ req = [t \in Threads |-> NoRequest]
    /\ call = [t \in Threads |-> NoCall]

-----------------------------------------------------------------------------
Free == mutex = None
Goto(t, step) == pc' = [pc EXCEPT ![t] = step]
Done(t) == /\ pc' = [pc EXCEPT ![t] = "idle"]
           /\ req' = [req EXCEPT ![t] = NoRequest]
           /\ call' = [call EXCEPT ![t] = NoCall]
Call(t, step, f, back) ==
    /\ Goto(t, step)
    /\ call' = [call EXCEPT ![t] = [NoCall EXCEPT !.at = f, !.back = back]]
Return(t) == /\ Goto(t, call[t].back)
             /\ call' = [call EXCEPT ![t] = NoCall]

(* A panic ends the request, for the HTTP handler recovers.  UnlockKey and   *)
(* LoadKeys give the mutex back with defer; Decrypt and SignData do not.     *)
Panic(t) == /\ mutex' = IF mutex # t THEN mutex
                       ELSE IF call[t].back \in {"find", "findMaster"} THEN Lost ELSE None
            /\ Done(t)

-----------------------------------------------------------------------------
(* LoadKeyFromKB(at): nothing if the key is loaded; an error if the backend  *)
(* cannot be read or what it holds cannot be decoded.                        *)
IsLoaded(f) == decrypted[f] # None \/ entities[f] # None

(* LoadKey: the key ring, then the entity, then each subkey.  The key ring is *)
(* only asked by Fetch, which never loses an answer when the ring grows: the  *)
(* file is added with the step before, which leaves no behaviour out.         *)
AddToRing(file) == shared' = [shared EXCEPT !.ring = @ \cup {file}]

Look(t) ==
    /\ pc[t] = "look"
    /\ IF IsLoaded(call[t].at) THEN Return(t) ELSE Goto(t, "read") /\ UNCHANGED call
    /\ UNCHANGED <<mem, shared, kb, mutex, req>>

ReadFromKB(t) ==
    /\ pc[t] = "read"
    /\ kb[call[t].at] # None
    /\ AddToRing(kb[call[t].at].file)
    /\ call' = [call EXCEPT ![t].read = kb[call[t].at]]
    /\ Goto(t, "entity")
    /\ UNCHANGED <<mem, kb, mutex, req>>

(* Only SignData looks at the error.                                         *)
ReadFails(t) ==
    /\ pc[t] = "read"
    /\ IF call[t].back = "sign" THEN Done(t) ELSE Return(t) /\ UNCHANGED req
    /\ UNCHANGED <<mem, shared, kb, mutex>>

(* LoadKeyWithMetadata goes on with the password of the metadata.            *)
Loaded(t) ==
    IF call[t].read.password = None
    THEN Return(t)
    ELSE /\ Goto(t, "check")
         /\ call' = [call EXCEPT ![t].meta = TRUE, ![t].subs = {}]

SetEntity(t) ==
    LET file == call[t].read.file
    IN  /\ pc[t] = "entity"
        /\ mem' = [mem EXCEPT !.entities[file.fp] = ReadArmoredKey(file)]
        /\ IF file.private /\ file.subs # {}
           THEN /\ call' = [call EXCEPT ![t].subs = file.subs]
                /\ Goto(t, "subkeys")
           ELSE Loaded(t)
        /\ UNCHANGED <<shared, kb, mutex, req>>

SetSubkey(t) ==
    /\ pc[t] = "subkeys"
    /\ \E s \in call[t].subs :
          /\ mem' = [mem EXCEPT !.subKeyToKey[s] = call[t].read.file.fp]
          /\ IF call[t].subs # {s}
             THEN call' = [call EXCEPT ![t].subs = @ \ {s}] /\ UNCHANGED pc
             ELSE Loaded(t)
    /\ UNCHANGED <<shared, kb, mutex, req>>

-----------------------------------------------------------------------------
(* unlockKey, with the key and password of the metadata or of the request.   *)
(* A key that is not encrypted decrypts with any password.  The primary key  *)
(* is decrypted in a copy.  A subkey is decrypted in place, in an object that *)
(* several maps and the key ring may share: once that has happened to one     *)
(* object of a subkey, any other may be that object or not.                   *)
Key(t)  == IF call[t].meta THEN call[t].at ELSE req[t].arg
Pass(t) == IF call[t].meta THEN call[t].read.password ELSE req[t].pass

Decrypts(lock, pw)      == lock \in {Plain, pw}
MayDecrypt(x, lock, pw) == Decrypts(lock, pw) \/ x \in shared.opened

(* unlockKey returns to LoadKeyWithMetadata, which ignores an error, or to    *)
(* UnlockKey, which gives the mutex back.                                     *)
Unlocked(t) ==
    IF call[t].meta THEN Return(t) /\ UNCHANGED <<mutex, req>>
    ELSE /\ mutex' = None
         /\ IF req[t].file = None THEN Done(t)
            ELSE Goto(t, "publish") /\ call' = [call EXCEPT ![t] = NoCall] /\ UNCHANGED req
Refused(t) ==
    IF call[t].meta THEN Return(t) /\ UNCHANGED <<mutex, req>>
    ELSE mutex' = None /\ Done(t)

(* Mutant: a key that is unlocked already is not asked for its password.     *)
CheckUnlocked(t) ==
    LET e == entities[Key(t)]
    IN  /\ pc[t] = "check"
        /\ e # None /\ e.private
        /\ MayDecrypt(e.of, e.lock, Pass(t)) \/ decrypted[Key(t)] # None
        /\ mem' = [mem EXCEPT !.agent = IF @ = None THEN Key(t) ELSE @]
        /\ call' = [call EXCEPT ![t].own = e.of]
        /\ Goto(t, "test")
        /\ UNCHANGED <<shared, kb, mutex, req>>

Check(t) ==
    LET e == entities[Key(t)]
    IN  /\ pc[t] = "check"
        /\ e # None /\ e.private /\ MayDecrypt(e.of, e.lock, Pass(t))
        /\ mem' = [mem EXCEPT !.agent = IF @ = None THEN Key(t) ELSE @]
        /\ call' = [call EXCEPT ![t].own = e.of]
        /\ Goto(t, "test")
        /\ UNCHANGED <<shared, kb, mutex, req>>

CheckFails(t) ==
    LET e == entities[Key(t)]
    IN  /\ pc[t] = "check"
        /\ e # None /\ e.private => ~Decrypts(e.lock, Pass(t))
        /\ Refused(t)
        /\ UNCHANGED <<mem, shared, kb>>

AlreadyUnlocked(t) ==
    /\ pc[t] = "test"
    /\ IF decrypted[Key(t)] # None
       THEN Unlocked(t)
       ELSE Goto(t, "list") /\ UNCHANGED <<mutex, req, call>>
    /\ UNCHANGED <<mem, shared, kb>>

(* Mutant: the key is unlocked before its subkeys are.                       *)
ListSubkeysUnlocks(t) ==
    LET z == entities[Key(t)]
    IN  /\ pc[t] = "list"
        /\ IF z # None /\ (z.private \/ z.subs = {})
           THEN /\ call' = [call EXCEPT ![t].subs = z.subs, ![t].lock = z.sublock]
                /\ mem' = [mem EXCEPT !.decrypted[Key(t)] = call[t].own]
                /\ Goto(t, "open")
                /\ UNCHANGED <<mutex, req>>
           ELSE Panic(t) /\ UNCHANGED mem
        /\ UNCHANGED <<shared, kb>>

(* The entity is read again.  If it has been replaced by a public one, the   *)
(* private half of its subkey is a nil pointer.                              *)
ListSubkeys(t) ==
    LET z == entities[Key(t)]
    IN  /\ pc[t] = "list"
        /\ IF z # None /\ (z.private \/ z.subs = {})
           THEN /\ call' = [call EXCEPT ![t].subs = z.subs, ![t].lock = z.sublock]
                /\ Goto(t, "open")
                /\ UNCHANGED <<mutex, req>>
           ELSE Panic(t)
        /\ UNCHANGED <<mem, shared, kb>>

(* Mutant: one variable holds the copy of the key and the subkey in turn.    *)
OpenSubkeyIntoOwn(t) ==
    /\ pc[t] = "open"
    /\ \E s \in call[t].subs :
          /\ MayDecrypt(s, call[t].lock, Pass(t))
          /\ shared' = [shared EXCEPT !.opened = @ \cup {s}]
          /\ mem' = [mem EXCEPT !.decrypted[s] = s]
          /\ call' = [call EXCEPT ![t].subs = @ \ {s}, ![t].sub = s, ![t].own = s]
    /\ Goto(t, "standIn")
    /\ UNCHANGED <<kb, mutex, req>>

OpenSubkey(t) ==
    /\ pc[t] = "open"
    /\ \E s \in call[t].subs :
          /\ MayDecrypt(s, call[t].lock, Pass(t))
          /\ shared' = [shared EXCEPT !.opened = @ \cup {s}]
          /\ mem' = [mem EXCEPT !.decrypted[s] = s]
          /\ call' = [call EXCEPT ![t].subs = @ \ {s}, ![t].sub = s]
    /\ Goto(t, "standIn")
    /\ UNCHANGED <<kb, mutex, req>>

(* The subkeys before this one stay unlocked.                                *)
SubkeyFails(t) ==
    /\ pc[t] = "open"
    /\ call[t].subs # {} /\ ~Decrypts(call[t].lock, Pass(t))
    /\ Refused(t)
    /\ UNCHANGED <<mem, shared, kb>>

SetStandIn(t) ==
    /\ pc[t] = "standIn"
    /\ mem' = [mem EXCEPT !.entities[call[t].sub] = CreateEntityFromKeys(call[t].sub)]
    /\ call' = [call EXCEPT ![t].sub = None]
    /\ Goto(t, "open")
    /\ UNCHANGED <<shared, kb, mutex, req>>

SetOwn(t) ==
    /\ pc[t] = "open"
    /\ call[t].subs = {}
    /\ mem' = [mem EXCEPT !.decrypted[Key(t)] = call[t].own]
    /\ Unlocked(t)
    /\ UNCHANGED <<shared, kb>>

LoadAndUnlock(t) ==
    \/ Look(t) \/ ReadFromKB(t) \/ ReadFails(t)
    \/ SetEntity(t) \/ SetSubkey(t)
    \/ Check(t) \/ CheckFails(t) \/ AlreadyUnlocked(t) \/ ListSubkeys(t)
    \/ OpenSubkey(t) \/ SubkeyFails(t) \/ SetStandIn(t) \/ SetOwn(t)

-----------------------------------------------------------------------------
(* The requests.                                                            *)
Begin(t, f) == req' = [req EXCEPT ![t].arg = f]

UnlockKey(t, f, pw) ==
    /\ pc[t] = "idle" /\ Free
    /\ mutex' = t
    /\ req' = [req EXCEPT ![t].arg = f, ![t].pass = pw]
    /\ Call(t, "look", f, "check")
    /\ UNCHANGED <<mem, shared, kb>>

(* Whoever finds an unlocked key dereferences the entity of the same         *)
(* fingerprint, with the mutex held and without a deferred Unlock.            *)
FindsNoEntity(f) == decrypted[f] # None /\ entities[f] = None

(* SignData: a first look under the mutex; if the key is locked, a load      *)
(* without the mutex, then a second look under it.  (A first look that finds *)
(* the key unlocked, and its entity, changes nothing.)                       *)
SignData(t, f) ==
    /\ pc[t] = "idle" /\ Free
    /\ IF decrypted[f] # None
       THEN /\ FindsNoEntity(f)
            /\ mutex' = Lost
            /\ UNCHANGED <<pc, req, call>>
       ELSE /\ Begin(t, f)
            /\ Call(t, "look", f, "sign")
            /\ UNCHANGED mutex
    /\ UNCHANGED <<mem, shared, kb>>

Sign(t) ==
    /\ pc[t] = "sign" /\ Free
    /\ mutex' = IF FindsNoEntity(req[t].arg) THEN Lost ELSE None
    /\ Done(t)
    /\ UNCHANGED <<mem, shared, kb>>

(* GetPrivate and GetKey: the key itself, else the key it is a subkey of.    *)
(* FixFingerPrint takes the mutex for a moment.                              *)
GetPrivate(t, f) ==
    /\ pc[t] = "idle" /\ Free
    /\ Begin(t, f)
    /\ Call(t, "look", f, "get")
    /\ UNCHANGED <<mem, shared, kb, mutex>>

(* What GetPrivate dereferences without the mutex: the entity of the key and, *)
(* in GetSubKeys, of each subkey.  If one is missing the request panics, and   *)
(* ends like any other.                                                       *)
GetSubKeysPanics(f) == \E s \in Fps : subKeyToKey[s] = f /\ entities[s] = None
GetPrivatePanics(f) == decrypted[f] # None /\ (entities[f] = None \/ GetSubKeysPanics(f))

GetPrivateUses(t) ==
    LET master == subKeyToKey[req[t].arg]
    IN  /\ pc[t] = "get"
        /\ IF GetPrivatePanics(req[t].arg) THEN Panic(t)
           ELSE /\ IF decrypted[req[t].arg] # None \/ master \in {None, req[t].arg}
                   THEN Done(t)
                   ELSE Begin(t, master) /\ Goto(t, "getAgain") /\ UNCHANGED call
                /\ UNCHANGED mutex
        /\ UNCHANGED <<mem, shared, kb>>

GetAgain(t) ==
    /\ pc[t] = "getAgain" /\ Free
    /\ Call(t, "look", req[t].arg, "get")
    /\ UNCHANGED <<mem, shared, kb, mutex, req>>

(* Decrypt: LoadKeys, which keeps the mutex while it lists and reads the     *)
(* backend, then the search for an unlocked key in a section of its own.     *)
(* LoadKeys returns at once if there is nothing to do or List fails.         *)
Decrypt(t, f) ==
    /\ pc[t] = "idle" /\ Free
    /\ \/ /\ ~OnDemandKeyLoad
          /\ mutex' = t
          /\ req' = [req EXCEPT ![t].arg = f, ![t].todo = {g \in Fps : kb[g] # None}]
          /\ Goto(t, "loadKeys")
       \/ /\ Begin(t, f)
          /\ Goto(t, "decrypt")
          /\ UNCHANGED mutex
    /\ UNCHANGED <<mem, shared, kb, call>>

LoadKeys(t) ==
    /\ pc[t] = "loadKeys"
    /\ \E f \in req[t].todo :
          /\ req' = [req EXCEPT ![t].todo = @ \ {f}]
          /\ Call(t, "read", f, "loadKeys")
    /\ UNCHANGED <<mem, shared, kb, mutex>>

(* Mutant: LoadKeys returns without the deferred Unlock.                     *)
LoadKeysKeepsMutex(t) ==
    /\ pc[t] = "loadKeys" /\ req[t].todo = {}
    /\ Goto(t, "decrypt")
    /\ UNCHANGED <<mem, shared, kb, mutex, req, call>>

LoadKeysDone(t) ==
    /\ pc[t] = "loadKeys" /\ req[t].todo = {}
    /\ mutex' = None
    /\ Goto(t, "decrypt")
    /\ UNCHANGED <<mem, shared, kb, req, call>>

Search(t) ==
    /\ pc[t] = "decrypt" /\ Free
    /\ mutex' = t
    /\ Call(t, "look", req[t].arg, "find")
    /\ UNCHANGED <<mem, shared, kb, req>>

SearchMaster(t) ==
    /\ pc[t] = "find"
    /\ decrypted[req[t].arg] = None /\ subKeyToKey[req[t].arg] # None
    /\ Call(t, "look", subKeyToKey[req[t].arg], "findMaster")
    /\ UNCHANGED <<mem, shared, kb, mutex, req>>

(* The primary key is what subKeyToKey says: it never says anything else.    *)
DecryptUses(t) ==
    LET f == IF pc[t] = "find" THEN req[t].arg ELSE subKeyToKey[req[t].arg]
    IN  /\ pc[t] \in {"find", "findMaster"}
        /\ pc[t] = "find" => decrypted[f] # None \/ subKeyToKey[f] = None
        /\ mutex' = IF FindsNoEntity(f) THEN Lost ELSE None
        /\ Done(t)
        /\ UNCHANGED <<mem, shared, kb>>

(* GetPublicKey and GetPublicKeyEntity: the entity that is there, for an      *)
(* unknown subkey of a loaded key that key's entity, else what the key ring   *)
(* answers; the mutex is kept until the answer is there.  Whatever was found  *)
(* is then written, also if it was there and has been replaced meanwhile.     *)
FindPublicKey(t, f) ==
    LET master == subKeyToKey[f]
        e == IF entities[f] # None \/ master = None THEN entities[f] ELSE entities[master]
    IN  /\ mutex' = t
        /\ req' = [req EXCEPT ![t].arg = f, ![t].ent = e]
        /\ Goto(t, IF entities[f] = None /\ master = None THEN "fetch" ELSE "store")
        /\ UNCHANGED <<mem, shared, kb, call>>

GetPublicKey(t, f) ==
    /\ pc[t] = "idle" /\ Free
    /\ FindPublicKey(t, f)

(* What KeyRingManager.GetKey may return for f: nothing, a published key that *)
(* is f or has f as a subkey, the stand-in for a cached subkey of one, or what *)
(* LoadKey has put there to stay, with its private half.                      *)
KeyRingAnswers(f) ==
    {PublicEntity(file.fp, file.subs) : file \in {x \in Files : f \in x.subs \cup {x.fp}}}
        \cup {PublicEntity(f, {}) : file \in {x \in Files : f \in x.subs}} \cup {None}
        \cup {ReadArmoredKey(file) : file \in {x \in shared.ring : f = x.fp}}
        \cup {CreateEntityForSubKey(file, f) : file \in {x \in shared.ring : f \in x.subs}}

Fetch(t) ==
    /\ pc[t] = "fetch"
    /\ \E e \in KeyRingAnswers(req[t].arg) : req' = [req EXCEPT ![t].ent = e]
    /\ Goto(t, "store")
    /\ UNCHANGED <<mem, shared, kb, mutex, call>>

StorePublicKey(t) ==
    /\ pc[t] = "store"
    /\ mem' = IF req[t].ent = None THEN mem
              ELSE [mem EXCEPT !.entities[req[t].arg] = req[t].ent]
    /\ mutex' = None
    /\ IF req[t].file = None THEN Done(t)
       ELSE Goto(t, "save") /\ req' = [req EXCEPT ![t].ent = None] /\ UNCHANGED call
    /\ UNCHANGED <<shared, kb>>

(* Mutant: the entity is taken out of memory too.                            *)
DeleteKeyAndEntity(t, f) ==
    /\ pc[t] = "idle" /\ Free
    /\ mem' = [mem EXCEPT !.decrypted[f] = None, !.entities[f] = None]
    /\ Begin(t, f)
    /\ Goto(t, "deleteKB")
    /\ UNCHANGED <<shared, kb, mutex, call>>

(* DeleteKey: the private key out of memory, then the file out of the        *)
(* backend; an error of the backend is swallowed.  The key ring may answer    *)
(* without the key afterwards, which it always may.                           *)
DeleteKey(t, f) ==
    /\ pc[t] = "idle" /\ Free
    /\ mem' = [mem EXCEPT !.decrypted[f] = None]
    /\ Begin(t, f)
    /\ Goto(t, "deleteKB")
    /\ UNCHANGED <<shared, kb, mutex, call>>

DeleteFromKB(t) ==
    /\ pc[t] = "deleteKB"
    /\ kb' \in {kb, [kb EXCEPT ![req[t].arg] = None]}
    /\ Done(t)
    /\ UNCHANGED <<mem, shared, mutex>>

(* POST addPrivateKey: LoadKey without the mutex, which refuses a public key  *)
(* after it has loaded it; UnlockKey if there is a password (its              *)
(* LoadKeyFromKB finds the key loaded); GetPublicKeyASCII; SaveKey last and    *)
(* only if asked for.                                                         *)
AddPrivateKey(t, file, pw) ==
    /\ pc[t] = "idle"
    /\ IF file.private
       THEN req' = [req EXCEPT ![t].arg = file.fp, ![t].pass = pw, ![t].file = file]
       ELSE UNCHANGED req
    /\ AddToRing(file)
    /\ Goto(t, "entity")
    /\ call' = [call EXCEPT ![t] = [NoCall EXCEPT !.at = file.fp,
                   !.back = IF ~file.private THEN "idle"
                            ELSE IF pw = None THEN "publish" ELSE "addUnlock",
                   !.read = [file |-> file, password |-> None]]]
    /\ UNCHANGED <<mem, kb, mutex>>

AddUnlocks(t) ==
    /\ pc[t] = "addUnlock" /\ Free
    /\ mutex' = t
    /\ Goto(t, "check")
    /\ UNCHANGED <<mem, shared, kb, req, call>>

Publish(t) ==
    /\ pc[t] = "publish" /\ Free
    /\ FindPublicKey(t, req[t].arg)

SaveKey(t) ==
    /\ pc[t] = "save"
    /\ kb' \in {kb, [kb EXCEPT ![req[t].arg] = [file |-> req[t].file, password |-> req[t].pass]]}
    /\ Done(t)
    /\ UNCHANGED <<mem, shared, mutex>>

-----------------------------------------------------------------------------
Work(t) ==
    \/ LoadAndUnlock(t)
    \/ Sign(t)
    \/ GetPrivateUses(t) \/ GetAgain(t)
    \/ LoadKeys(t) \/ LoadKeysDone(t) \/ Search(t) \/ SearchMaster(t) \/ DecryptUses(t)
    \/ Fetch(t) \/ StorePublicKey(t) \/ DeleteFromKB(t)
    \/ AddUnlocks(t) \/ Publish(t) \/ SaveKey(t)

Request(t) ==
    \/ \E f \in Fps : \/ SignData(t, f) \/ GetPrivate(t, f) \/ Decrypt(t, f)
                      \/ GetPublicKey(t, f) \/ DeleteKey(t, f)
                      \/ \E pw \in Passwords : UnlockKey(t, f, pw)
    \/ \E file \in Files, pw \in Passwords \cup {None} : AddPrivateKey(t, file, pw)

Next == \E t \in Threads : Work(t) \/ Request(t)

Spec == Init /\ [][Next]_vars

-----------------------------------------------------------------------------
(* Properties *)

(* SignData and Decrypt dereference the entity of an unlocked key with the   *)
(* mutex held: it is missing at most between the two writes unlockKey makes   *)
(* for a subkey, and only while the thread that makes them is between them.   *)
MissingOnlyInTheGap ==
    \A f \in Fps : FindsNoEntity(f) => \E t \in Threads : pc[t] = "standIn" /\ call[t].sub = f

(* GetSubKeys, which GetPrivate calls for an unlocked key, finds the entity   *)
(* of each subkey, if all files of the key list the same subkeys.             *)
OneSubkeyList(f) == \A a, b \in Files : a.fp = f /\ b.fp = f => a.subs = b.subs
SubkeysAreThere ==
    \A f \in Fps : OneSubkeyList(f) => (decrypted[f] # None => ~GetSubKeysPanics(f))

(* GetPublicKey dereferences the entity of the key a subkey belongs to.      *)
MasterIsLoaded == \A s \in Fps : subKeyToKey[s] # None => entities[subKeyToKey[s]] # None

(* The private key kept for a fingerprint is its own or that of the key it   *)
(* is a subkey of, never an unrelated one.                                   *)
OwnOrMasterKey == \A f \in Fps : decrypted[f] \in {None, f, subKeyToKey[f]}

(* Whoever gets past the password test of unlockKey for a primary key has a   *)
(* password one of its files is encrypted with, whatever other requests load,  *)
(* alias, replace, unlock or delete meanwhile.  Of subkeys the same does not   *)
(* hold: see WrongPasswordRefused.                                            *)
Opens(f, pw) == \E file \in Files : file.fp = f /\ file.private /\ Decrypts(file.lock, pw)
IsPrimary(f) == \E file \in Files : file.fp = f /\ file.private
IsSubkey(f)  == \E file \in Files : f \in file.subs
PasswordChecked ==
    \A t \in Threads : pc[t] \in Unlocking /\ IsPrimary(Key(t)) => Opens(Key(t), Pass(t))

(* Go's mutex is not reentrant: no thread waits for the mutex while it holds  *)
(* it, and none ends its request with it.                                     *)
NobodyWaitsForItself == \A t \in Threads : mutex = t => pc[t] \notin Waiting \cup {"idle"}

(* pkg/interfaces/PGPManager.go:34, "SignData signs the specified data with a *)
(* unlocked private key": it does not panic on one, and does not keep the      *)
(* mutex.  The code does not keep it, see section 5 of README.md.              *)
SignFindsEntity ==
    \A t \in Threads : pc[t] = "sign" /\ Free => ~FindsNoEntity(req[t].arg)

(* pkg/interfaces/PGPManager.go:24, "UnlockKey unlocks the specified key     *)
(* with the specified password": a key that is locked, a primary key or a    *)
(* subkey, opens only to a password one of its files is encrypted with.      *)
(* The code does not keep it, see section 5 of README.md.                    *)
WrongPasswordRefused ==
    \A t \in Threads : pc[t] \in Unlocking \ {"test"} =>
        \E file \in Files :
            /\ file.private /\ Key(t) \in file.subs \cup {file.fp}
            /\ Decrypts(file.lock, Pass(t)) \/ Decrypts(file.sublock, Pass(t))

(* pkg/interfaces/PGPManager.go:56, "Decrypt decrypts data using any         *)
(* available unlocked private key": the ring Decrypt builds has one place,   *)
(* and nothing is ever stored past it.  The code does not keep it, see       *)
(* section 5 of README.md.                                                   *)
DecryptFindsRoom ==
    \A t \in Threads : pc[t] = "findMaster" =>
        decrypted[subKeyToKey[req[t].arg]] = None \/ entities[req[t].arg] = None
=============================================================================
