----------------------------- MODULE ChevronLib -----------------------------
(***************************************************************************)
(* The Node.js library: tools/wrappers/nodejs/src/index.ts over the native  *)
(* addon (native/asyncworkers.cc), the C functions of tools/wrappers/       *)
(* chevron.go and pkg/chevronlib, which share one key manager without a     *)
(* backend (MakeVoidPGP).                                                   *)
(*                                                                         *)
(* A call queues work for the pool of threads of libuv, which runs it while *)
(* the event loop goes on; its promise settles when the loop gets to it.    *)
(* The work of several calls interleaves where it does not hold pm.Mutex:   *)
(* LoadKey, the look of SignData at the maps and the reencrypting.  Other   *)
(* than in PgpManager, entities are objects here: a key that is loaded      *)
(* again is another object, a subkey and the reencrypting share one, and    *)
(* decrypting or encrypting a private key changes it in place.              *)
(*                                                                         *)
(* Two things are coarser than in PgpManager.  unlockKey is one step, though *)
(* a LoadKey of the same key may come between its reads, and the properties  *)
(* are about quiet calls only: no call that changes the same key overlaps.   *)
(* And the key ring, which LoadKey fills before the maps, never answers      *)
(* with a key that is being loaded.                                          *)
(***************************************************************************)
EXTENDS FiniteSets, Sequences, Naturals

CONSTANTS
    Calls,       \* calls that can be pending at a time
    Pool,        \* threads of the pool
    Fps,         \* fingerprints of primary keys and of subkeys
    Passwords,
    Files,       \* the armored keys that are passed in
    Requests,    \* the calls that are made, see loadKey, unlockKey, ...
    Plain,       \* the "password" of a key that is not encrypted
    None,
    Virtual,     \* the entity made of an unlocked subkey
    Public       \* what the key ring knows of a key: no private half

Keys == [fp : Fps, subs : SUBSET Fps, private : BOOLEAN,
         lock : Passwords \cup {Plain}, sublock : Passwords \cup {Plain}]

ASSUME FilesAssumption  == Files \subseteq Keys
ASSUME SubkeyAssumption == \A a, b \in Files :
    (a.subs \cap b.subs # {} => a.fp = b.fp) /\ b.fp \notin a.subs
ASSUME PoolAssumption   == Pool \in Nat \ {0} /\ IsFiniteSet(Calls) /\ IsFiniteSet(Fps)
ASSUME ValueAssumption  == None \notin Keys /\ Plain \notin Passwords

(* Objects: as many as can be referred to at a time, named after what may   *)
(* refer to them.                                                           *)
Ids == Fps \cup Calls
ASSUME PointerAssumption ==
    /\ {None, Virtual, Public} \cap Ids = {} /\ Fps \cap Calls = {}
    /\ None # Virtual /\ None # Public /\ Virtual # Public

VARIABLES
    heap,          \* object -> the key it holds, or None if it is not in use
    entities,      \* pm.entities: fingerprint -> object
    decrypted,     \* fingerprints in pm.decryptedPrivateKeys
    subKeyToKey,   \* pm.subKeyToKey
    call,          \* call -> what it is about and how far it is
    queue,         \* the calls that wait for a thread
    alive          \* the process runs

manager == <<heap, entities, decrypted, subKeyToKey>>
vars    == <<manager, call, queue, alive>>

Ops   == {"loadKey", "unlockKey", "signData", "verifySignature", "generateKey",
          "changeKeyPassword"}
Steps == {"load", "subkeys", "unlock", "look", "find", "sign", "verify", "check", "generate",
          "get", "decrypt", "encrypt", "serialize", "delete"}

(* quiet and open are histories: no call that changes the same key has      *)
(* overlapped with this one, and the key was unlocked when it was made.     *)
Idle == [at |-> "idle", op |-> None, fp |-> None, file |-> None, current |-> None,
         new |-> None, ent |-> None, out |-> None, result |-> None,
         quiet |-> TRUE, open |-> FALSE]
CallType == [at : Steps \cup {"idle", "queued", "done"}, op : Ops \cup {None},
             fp : Fps \cup {None}, file : Files \cup {None},
             current : Passwords \cup {None}, new : Passwords \cup {None},
             ent : Ids \cup {None}, out : {"ok", "error", None},
             result : Keys \cup {None}, quiet : BOOLEAN, open : BOOLEAN]

TypeOK ==
    /\ heap \in [Ids -> Keys \cup {None}]
    /\ entities \in [Fps -> Ids \cup {None, Virtual, Public}]
    /\ decrypted \subseteq Fps
    /\ subKeyToKey \in [Fps -> Fps \cup {None}]
    /\ call \in [Calls -> CallType]
    /\ queue \in Seq(Calls)
    /\ alive \in BOOLEAN

Init ==
    /\ heap = [i \in Ids |-> None]
    /\ entities = [f \in Fps |-> None]
    /\ decrypted = {}
    /\ subKeyToKey = [f \in Fps |-> None]
    /\ call = [c \in Calls |-> Idle]
    /\ queue = <<>>
    /\ alive = TRUE

-----------------------------------------------------------------------------
At(c, step)  == alive /\ call[c].at = step
Working      == {c \in Calls : call[c].at \in Steps}

(* The keys that share an object: a primary key and its subkeys.            *)
Primary(f) == IF \E file \in Files : f \in file.subs
              THEN (CHOOSE file \in Files : f \in file.subs).fp ELSE f
Changes(r) == r.op \in {"loadKey", "unlockKey", "changeKeyPassword"}

(* The functions of the wrapper as requests.  One whose data is not base64  *)
(* is rejected at once.  A key that cannot be read has no fingerprint; what  *)
(* changeKeyPassword does with one is what loadKey does.                    *)
About(op, f)          == [Idle EXCEPT !.op = op, !.fp = f]
loadKey(file)         == [About("loadKey", file.fp) EXCEPT !.file = file]
unlockKey(f, pw)      == [About("unlockKey", f) EXCEPT !.current = pw]
signData(f)           == About("signData", f)
verifySignature(f)    == About("verifySignature", f)
loadNoKey             == About("loadKey", None)
generateKey           == About("generateKey", None)
changeKeyPassword(file, current, new) ==
    [About("changeKeyPassword", file.fp) EXCEPT !.file = file, !.current = current, !.new = new]

ASSUME RequestsAssumption ==
    \A r \in Requests :
        \/ r \in {generateKey, loadNoKey}
        \/ \E f \in Fps : r \in {signData(f), verifySignature(f)}
        \/ \E f \in Fps, pw \in Passwords : r = unlockKey(f, pw)
        \/ \E file \in Files : r = loadKey(file)
        \/ \E file \in Files, pw, new \in Passwords : r = changeKeyPassword(file, pw, new)

(* The addon copies the arguments and queues the work.                      *)
Meets(r, q) == r.fp # None /\ q.fp # None /\ Primary(r.fp) = Primary(q.fp)
Queue(c, r) ==
    /\ At(c, "idle")
    /\ call' = [d \in Calls |->
            IF d = c
            THEN [r EXCEPT !.at = "queued", !.open = r.fp \in decrypted,
                           !.quiet = \A x \in Calls : Meets(r, call[x]) => ~Changes(call[x])]
            ELSE [call[d] EXCEPT !.quiet = @ /\ ~(Meets(r, call[d]) /\ Changes(r))]]
    /\ queue' = Append(queue, c)
    /\ UNCHANGED <<manager, alive>>

(* The first call of the queue gets a thread.                               *)
FirstStep == [loadKey |-> "load", unlockKey |-> "unlock", signData |-> "look",
              verifySignature |-> "verify", generateKey |-> "generate",
              changeKeyPassword |-> "load"]
Execute ==
    /\ alive /\ queue # <<>> /\ Cardinality(Working) < Pool
    /\ LET c == Head(queue) IN call' = [call EXCEPT ![c].at = FirstStep[call[c].op]]
    /\ queue' = Tail(queue)
    /\ UNCHANGED <<manager, alive>>

Goto(c, step)  == call' = [call EXCEPT ![c].at = step]
Finish(c, out) == call' = [call EXCEPT ![c].at = "done", ![c].out = out]

-----------------------------------------------------------------------------
(* What a fingerprint stands for: a key or None.                            *)
Entity(f) ==
    CASE entities[f] \in Ids     -> heap[entities[f]]
      [] entities[f] = Virtual   -> [fp |-> f, subs |-> {f}, private |-> TRUE,
                                     lock |-> Plain, sublock |-> Plain]
      [] OTHER                   -> None

(* What neither the maps nor the calls refer to any more is collected.      *)
Used(e, cs) == {e[f] : f \in Fps} \cup {call[c].ent : c \in cs}
Swept(h, e, cs) == [i \in Ids |-> IF i \in Used(e, cs) THEN h[i] ELSE None]
Decrypts(lock, pw) == lock \in {Plain, pw}

(* LoadKey, without the mutex: a new object takes the place of the old one, *)
(* then its subkeys are entered (a call reads the entry of one of them).    *)
LoadFails(c) ==
    /\ At(c, "load") /\ call[c].fp = None
    /\ Finish(c, "error")
    /\ UNCHANGED <<manager, queue, alive>>

LoadKey(c) ==
    LET r    == call[c]
        free == Ids \ Used([entities EXCEPT ![r.fp] = None], Calls)
        i    == IF r.fp \in free THEN r.fp ELSE CHOOSE x \in free : TRUE
        e    == [entities EXCEPT ![r.fp] = i]
    IN  /\ At(c, "load") /\ r.fp # None
        /\ entities' = e
        /\ heap' = Swept([heap EXCEPT ![i] = r.file], e, Calls)
        /\ Goto(c, "subkeys")
        /\ UNCHANGED <<decrypted, subKeyToKey, queue, alive>>

(* For a public key ChangeKeyPassword stops here.                           *)
LoadSubkeys(c) ==
    LET r == call[c]
    IN  /\ At(c, "subkeys")
        /\ subKeyToKey' = [f \in Fps |-> IF r.file.private /\ f \in r.file.subs
                                         THEN r.fp ELSE subKeyToKey[f]]
        /\ IF r.op = "loadKey" THEN Finish(c, "ok")
           ELSE IF r.file.private THEN Goto(c, "unlock") ELSE Finish(c, "error")
        /\ UNCHANGED <<heap, entities, decrypted, queue, alive>>

(* unlockKey, with the mutex: a copy of the primary key, the subkeys in     *)
(* place.                                                                   *)
Opens(c) ==
    LET e  == Entity(call[c].fp)
        pw == call[c].current
    IN  /\ e # None /\ e.private /\ Decrypts(e.lock, pw)
        /\ call[c].fp \in decrypted \/ e.subs = {} \/ Decrypts(e.sublock, pw)

Unlocked(c) == IF call[c].op = "unlockKey" THEN Finish(c, "ok") ELSE Goto(c, "get")

UnlockFails(c) ==
    /\ At(c, "unlock") /\ ~Opens(c)
    /\ Finish(c, "error")
    /\ UNCHANGED <<manager, queue, alive>>

AlreadyUnlocked(c) ==
    /\ At(c, "unlock") /\ Opens(c) /\ call[c].fp \in decrypted
    /\ Unlocked(c)
    /\ UNCHANGED <<manager, queue, alive>>

UnlockKey(c) ==
    LET f     == call[c].fp
        subs  == Entity(f).subs
        after == [x \in Fps |-> IF x \in subs THEN Virtual ELSE entities[x]]
    IN  /\ At(c, "unlock") /\ Opens(c) /\ f \notin decrypted
        /\ decrypted' = decrypted \cup {f} \cup subs
        /\ entities' = after
        /\ heap' = Swept(IF entities[f] \in Ids THEN [heap EXCEPT ![entities[f]].sublock = Plain]
                         ELSE heap, after, Calls)
        /\ Unlocked(c)
        /\ UNCHANGED <<subKeyToKey, queue, alive>>

-----------------------------------------------------------------------------
(* SignData: a look with the mutex, one without it (LoadKeyFromKB, which    *)
(* finds nothing in the void backend) if the key is locked, and another     *)
(* with it.                                                                 *)
SignLooks(c, step, otherwise) ==
    /\ At(c, step)
    /\ IF call[c].fp \in decrypted THEN Finish(c, "ok") ELSE otherwise
    /\ UNCHANGED <<manager, queue, alive>>

SignFinds(c) ==
    /\ At(c, "find")
    /\ IF call[c].fp \in decrypted \/ entities[call[c].fp] # None
       THEN Goto(c, "sign") ELSE Finish(c, "error")
    /\ UNCHANGED <<manager, queue, alive>>

SignData(c) ==
    \/ SignLooks(c, "look", Goto(c, "find"))
    \/ SignFinds(c)
    \/ SignLooks(c, "sign", Finish(c, "error"))

(* GetPublicKey gives a subkey the object of its primary key, and an        *)
(* unknown key what the key ring knows of it.                               *)
Found(f) ==
    IF entities[f] # None THEN {entities[f]}
    ELSE IF subKeyToKey[f] # None THEN {entities[subKeyToKey[f]]}
    ELSE {Public, None}

GetPublicKey(f, o) ==
    /\ entities' = [entities EXCEPT ![f] = o]
    /\ UNCHANGED <<heap, decrypted, subKeyToKey, queue, alive>>

(* A signature that does not fit is no error: the promise gives false.      *)
VerifySignature(c) ==
    /\ At(c, "verify")
    /\ \E o \in Found(call[c].fp) :
           /\ GetPublicKey(call[c].fp, o)
           /\ IF o = None THEN Finish(c, "error") ELSE Goto(c, "check")

CheckSignature(c) ==
    /\ At(c, "check")
    /\ Finish(c, "ok")
    /\ UNCHANGED <<manager, queue, alive>>

(* The one function that does not return a promise: the event loop waits.   *)
getPublicKey(f) ==
    /\ alive
    /\ \E o \in Found(f) : o # entities[f] /\ GetPublicKey(f, o)
    /\ UNCHANGED call

(* GeneratePGPKey does not load the key it makes.  Without a password, or   *)
(* without random numbers, it makes none.                                   *)
GenerateKey(c) ==
    /\ At(c, "generate")
    /\ \E out \in {"ok", "error"} : Finish(c, out)
    /\ UNCHANGED <<manager, queue, alive>>

-----------------------------------------------------------------------------
(* ChangeKeyPassword, after LoadKey and UnlockKey: the reencrypting works   *)
(* without the mutex on the object the maps have by then, and locks the key *)
(* again in the end.                                                        *)
GetKey(c) ==
    LET o == entities[call[c].fp]
    IN  /\ At(c, "get")
        /\ IF heap[o].private
           THEN call' = [call EXCEPT ![c].at = "decrypt", ![c].ent = o]
           ELSE call' = [call EXCEPT ![c].at = "delete", ![c].out = "error"]
        /\ UNCHANGED <<manager, queue, alive>>

Locked(c, pw) == [heap EXCEPT ![call[c].ent].lock = pw]

Decrypt(c) ==
    /\ At(c, "decrypt")
    /\ IF Decrypts(heap[call[c].ent].lock, call[c].current)
       THEN heap' = Locked(c, Plain) /\ Goto(c, "encrypt")
       ELSE /\ call' = [call EXCEPT ![c].at = "delete", ![c].out = "error", ![c].ent = None]
            /\ heap' = Swept(heap, entities, Calls \ {c})
    /\ UNCHANGED <<entities, decrypted, subKeyToKey, queue, alive>>

(* Mutant: the two passwords are swapped.                                   *)
EncryptWithCurrent(c) ==
    /\ At(c, "encrypt")
    /\ heap' = Locked(c, call[c].current)
    /\ Goto(c, "serialize")
    /\ UNCHANGED <<entities, decrypted, subKeyToKey, queue, alive>>

Encrypt(c) ==
    /\ At(c, "encrypt")
    /\ heap' = Locked(c, call[c].new)
    /\ Goto(c, "serialize")
    /\ UNCHANGED <<entities, decrypted, subKeyToKey, queue, alive>>

(* The subkeys are written as they are at this time.                        *)
SerializePrivate(c) ==
    /\ At(c, "serialize")
    /\ call' = [call EXCEPT ![c].at = "delete", ![c].out = "ok",
                            ![c].result = heap[call[c].ent], ![c].ent = None]
    /\ heap' = Swept(heap, entities, Calls \ {c})
    /\ UNCHANGED <<entities, decrypted, subKeyToKey, queue, alive>>

(* Mutant: the key stays unlocked.                                          *)
DeleteNothing(c) ==
    /\ At(c, "delete")
    /\ Finish(c, call[c].out)
    /\ UNCHANGED <<manager, queue, alive>>

(* Mutant: all keys are locked.                                             *)
DeleteAll(c) ==
    /\ At(c, "delete")
    /\ decrypted' = {}
    /\ Finish(c, call[c].out)
    /\ UNCHANGED <<heap, entities, subKeyToKey, queue, alive>>

DeleteKey(c) ==
    /\ At(c, "delete")
    /\ decrypted' = decrypted \ {call[c].fp}
    /\ Finish(c, call[c].out)
    /\ UNCHANGED <<heap, entities, subKeyToKey, queue, alive>>

-----------------------------------------------------------------------------
(* Mutant: the callback reports results only.                               *)
SettleOk(c) ==
    /\ At(c, "done") /\ call[c].out = "ok"
    /\ call' = [call EXCEPT ![c] = Idle]
    /\ UNCHANGED <<manager, queue, alive>>

(* The event loop calls back, and the promise resolves or rejects.          *)
Settle(c) ==
    /\ At(c, "done")
    /\ call' = [call EXCEPT ![c] = Idle]
    /\ UNCHANGED <<manager, queue, alive>>

(* The Go runtime may end the process when a map is written while another   *)
(* thread uses it.  These steps use entities without the mutex, and the     *)
(* event loop may write it at any time (getPublicKey).                      *)
Crash ==
    /\ alive
    /\ \E c \in Calls : call[c].at \in {"load", "subkeys", "find", "check", "get"}
    /\ alive' = FALSE
    /\ heap' = [i \in Ids |-> None]
    /\ entities' = [f \in Fps |-> None]
    /\ decrypted' = {}
    /\ subKeyToKey' = [f \in Fps |-> None]
    /\ call' = [c \in Calls |-> Idle]
    /\ queue' = <<>>

Step(c) ==
    \/ LoadFails(c) \/ LoadKey(c) \/ LoadSubkeys(c)
    \/ UnlockFails(c) \/ AlreadyUnlocked(c) \/ UnlockKey(c)
    \/ SignData(c)
    \/ VerifySignature(c) \/ CheckSignature(c)
    \/ GenerateKey(c)
    \/ GetKey(c) \/ Decrypt(c) \/ Encrypt(c) \/ SerializePrivate(c)
    \/ DeleteKey(c)
    \/ Settle(c)

Next ==
    \/ \E c \in Calls : Step(c) \/ \E r \in Requests : Queue(c, r)
    \/ Execute
    \/ \E f \in Fps : getPublicKey(f)
    \/ Crash

Spec == Init /\ [][Next]_vars

(* Threads run, the pool takes what is queued and the event loop turns; no  *)
(* step waits for another call.                                             *)
FairSpec == Spec /\ WF_vars(Execute) /\ \A c \in Calls : WF_vars(Step(c))

-----------------------------------------------------------------------------
Quiet(c, op) == call[c].at = "done" /\ call[c].op = op /\ call[c].quiet

(* Calls about other keys, and those that only use this one, do not change  *)
(* what a call answers: signing works with exactly the keys that were       *)
(* unlocked, and a key whose unlocking is reported is unlocked.             *)
UnlockedSigns ==
    \A c \in Calls :
        /\ Quiet(c, "signData") => (call[c].out = "ok" <=> call[c].open)
        /\ Quiet(c, "unlockKey") /\ call[c].out = "ok" => call[c].fp \in decrypted

(* changeKeyPassword succeeds exactly with the password of the key that is  *)
(* passed in, whatever was loaded under its fingerprint before, and unless  *)
(* the key was unlocked before, loadKey and unlockKey accept what it        *)
(* returns with the new password.                                           *)
ChangeAnswers ==
    \A c \in Calls : Quiet(c, "changeKeyPassword") =>
        LET r == call[c]
        IN  /\ r.out = "ok" <=>
                  /\ r.file.private /\ Decrypts(r.file.lock, r.current)
                  /\ r.open \/ r.file.subs = {} \/ Decrypts(r.file.sublock, r.current)
            /\ r.out = "ok" => r.result.lock = r.new
            /\ r.out = "ok" /\ ~r.open /\ r.result.subs # {}
                  => Decrypts(r.result.sublock, r.new)

(* changeKeyPassword leaves the key loaded and locked with the new password *)
(* ("Clean key after changing password"), or if it fails locked or unlocked *)
(* as it was.                                                               *)
ChangeLocks ==
    \A c \in Calls : Quiet(c, "changeKeyPassword") =>
        LET r == call[c]
        IN  IF r.out = "ok" THEN r.fp \notin decrypted /\ Entity(r.fp).lock = r.new
            ELSE r.fp \in decrypted <=> r.open

(* Every promise settles unless the process dies, also those that reject    *)
(* and those that wait for a thread.                                        *)
PromisesSettle ==
    \A c \in Calls : []<>(call[c].at = "idle" \/ ~alive)

(* "the same private key encrypted with the newPassword", index.ts:215: it  *)
(* is not.  Subkeys come back without a password if the key was locked      *)
(* before, and with the old one if it was unlocked.                         *)
ReturnedKeyEncrypted ==
    \A c \in Calls : Quiet(c, "changeKeyPassword") /\ call[c].out = "ok" =>
        /\ call[c].result.lock = call[c].new
        /\ call[c].result.subs = {} \/ call[c].result.sublock = call[c].new

=============================================================================
