-------------------------- MODULE PgpManagerProofs --------------------------
(***************************************************************************)
(* Proofs, for any number of threads and any keys, of the safety properties *)
(* of PgpManager.  The maps only grow: no entity is ever taken out and no   *)
(* subkey ever mapped to another key.  So whatever a thread has found at one *)
(* step is still there at its next one, however the others go on meanwhile.  *)
(* Hence the proof: what the maps satisfy is stated of a value m of mem and  *)
(* what a thread knows of its locals and m; each write keeps the first and   *)
(* lets m grow, which keeps the second; each action is one write at most.    *)
(***************************************************************************)
EXTENDS PgpManager, TLAPS

MemType == [entities : [Fps -> Entities \cup {None}],
            decrypted : [Fps -> Fps \cup {None}],
            subKeyToKey : [Fps -> Fps \cup {None}],
            agent : Fps \cup {None}]

(* What may be stored as the entity of f: key material of f itself or of the *)
(* key f is a subkey of, and for a primary key what one of its files holds.   *)
IsKey(f) == \E file \in Files : file.fp = f
Fits(f, e, m) ==
    /\ e \in Entities
    /\ \A x \in e.subs : IsSubkey(x)
    /\ e.private => e.of \in {f, m.subKeyToKey[f]}
    /\ IsKey(f) => \E file \in Files :
          /\ file.fp = f /\ e.of = f /\ e.subs = file.subs
          /\ e.private => file.private /\ e.lock = file.lock

EntitiesFit(m) == \A f \in Fps : m.entities[f] # None => Fits(f, m.entities[f], m)
(* A fingerprint is mapped to a loaded key only if that key lists it.         *)
Listed(m) == \A f \in Fps : m.subKeyToKey[f] # None =>
    /\ m.entities[m.subKeyToKey[f]] # None
    /\ \E file \in Files : f \in file.subs /\ file.fp = m.subKeyToKey[f]
OwnOrMaster(m) == \A f \in Fps : m.decrypted[f] \in {None, f, m.subKeyToKey[f]}
(* Before a key is marked unlocked its subkeys have their entities.           *)
HasSubkeys(m, f) == OneSubkeyList(f) =>
    \A file \in Files : file.fp = f => \A x \in file.subs : m.entities[x] # None
UnlockedWhole(m) == \A f \in Fps : m.decrypted[f] # None => HasSubkeys(m, f)

MemOK(m) == /\ m \in MemType
            /\ EntitiesFit(m) /\ Listed(m) /\ OwnOrMaster(m) /\ UnlockedWhole(m)

(* What the other threads may rely on while the maps change.                 *)
Grows(m, n) == \A f \in Fps :
    /\ m.entities[f] # None => n.entities[f] # None
    /\ m.subKeyToKey[f] # None => n.subKeyToKey[f] = m.subKeyToKey[f]

(* What a thread at step p, with request r and call c, knows of the maps m.   *)
KeyOf(r, c)  == IF c.meta THEN c.at ELSE r.arg
PassOf(r, c) == IF c.meta THEN c.read.password ELSE r.pass
Backs == {"idle", "check", "sign", "get", "loadKeys", "find", "findMaster", "addUnlock", "publish"}

(* An armored key that a request carries is private and is what it is about.  *)
FileOK(r) == r.file # None => r.file.private /\ r.file.fp = r.arg

CallOK(p, r, c) ==
    /\ p \in Steps /\ r \in Requests /\ c \in Calls /\ c.back \in Backs
    /\ p # "idle" => r.arg \in Fps \/ (p \in {"entity", "subkeys"} /\ c.back = "idle")
    /\ p \in Loading \/ c.meta => c.at \in Fps
    /\ p \in {"look", "read"} => c.back # "idle"
    /\ c.meta => p \in Unlocking \cup {"check"}
    /\ FileOK(r) /\ (p = "save" => r.file # None)
    /\ p \in {"idle", "get", "getAgain"} => r.file = None
    /\ (p \in Loading \/ c.meta) /\ c.back \in {"idle", "get"} => r.file = None
    /\ p \in {"entity", "subkeys"} =>
          c.read \in Stored /\ (c.back = "idle" => c.read.password = None)
LoadOK(p, r, c, m) ==
    p = "subkeys" => c.subs \subseteq c.read.file.subs /\ m.entities[c.read.file.fp] # None
PastCheck(p, r, c, m) ==
    p \in Unlocking =>
        /\ m.entities[KeyOf(r, c)] # None
        /\ c.own \in {KeyOf(r, c), m.subKeyToKey[KeyOf(r, c)]} \ {None}
        /\ IsPrimary(KeyOf(r, c)) => Opens(KeyOf(r, c), PassOf(r, c))
Covers(p, r, c, m) ==
    p \in {"open", "standIn"} =>
        /\ \A x \in c.subs : IsSubkey(x)
        /\ p = "standIn" => c.sub \in Fps /\ IsSubkey(c.sub)
        /\ OneSubkeyList(KeyOf(r, c)) =>
              \A file \in Files : file.fp = KeyOf(r, c) =>
                  \A x \in file.subs :
                      m.entities[x] # None \/ x \in c.subs \/ (p = "standIn" /\ c.sub = x)
AnswerOK(p, r, c, m) == p = "store" /\ r.ent # None => Fits(r.arg, r.ent, m)

Local(p, r, c, m) == /\ CallOK(p, r, c) /\ LoadOK(p, r, c, m) /\ PastCheck(p, r, c, m)
                     /\ Covers(p, r, c, m) /\ AnswerOK(p, r, c, m)

(* What the holder of the mutex is doing; a call it is in returns to it.      *)
HoldsOK(t) == mutex = t =>
    /\ pc[t] \in {"check", "loadKeys", "find", "findMaster", "fetch", "store"}
                    \cup Loading \cup Unlocking
    /\ pc[t] \in Loading \/ (call[t].meta /\ pc[t] \in Unlocking \cup {"check"}) =>
          call[t].back \in {"check", "loadKeys", "find", "findMaster"}

SharedOK == /\ shared \in [ring : SUBSET Files, opened : SUBSET Fps]
            /\ \A x \in shared.opened : IsSubkey(x)
KBOK == /\ kb \in [Fps -> Stored \cup {None}]
        /\ \A f \in Fps : kb[f] # None => kb[f].file.fp = f /\ kb[f].file.private
ThreadsTyped == /\ mutex \in Threads \cup {None, Lost}
                /\ pc \in [Threads -> Steps]
                /\ req \in [Threads -> Requests]
                /\ call \in [Threads -> Calls]

IInv == /\ MemOK(mem) /\ SharedOK /\ KBOK /\ ThreadsTyped
        /\ \A t \in Threads : Local(pc[t], req[t], call[t], mem) /\ HoldsOK(t)
        /\ MissingOnlyInTheGap

-----------------------------------------------------------------------------
(* Facts about the keys.                                                    *)
LEMMA FilesTyped ==
    ASSUME NEW file \in Files
    PROVE  /\ file.fp \in Fps /\ file.subs \in SUBSET Fps /\ file.private \in BOOLEAN
           /\ file.lock \in Passwords \cup {Plain} /\ file.sublock \in Passwords \cup {Plain}
           /\ file # None
  BY FilesAssumption, NoneNotData

(* A subkey is not itself a key of a file.                                   *)
LEMMA SubkeysAreNotKeys ==
    ASSUME NEW f, IsSubkey(f)
    PROVE  f \in Fps /\ ~IsKey(f) /\ ~IsPrimary(f)
  BY FilesTyped, SubkeyAssumption DEF IsSubkey, IsKey, IsPrimary

(* What a file holds fits its own fingerprint.                               *)
LEMMA ReadFits ==
    ASSUME NEW file \in Files, NEW m
    PROVE  /\ Fits(file.fp, ReadArmoredKey(file), m)
           /\ ReadArmoredKey(file) # None
<1>1. ReadArmoredKey(file) \in Entities
  BY FilesTyped DEF ReadArmoredKey, Entities
<1>2. \A x \in ReadArmoredKey(file).subs : IsSubkey(x)
  BY DEF ReadArmoredKey, IsSubkey
<1>3. /\ ReadArmoredKey(file).of = file.fp /\ ReadArmoredKey(file).subs = file.subs
      /\ ReadArmoredKey(file).private = file.private /\ ReadArmoredKey(file).lock = file.lock
  BY DEF ReadArmoredKey
<1>. QED
  BY <1>1, <1>2, <1>3, NoneNotData DEF Fits

(* An entity that fits goes on fitting while the maps grow.                  *)
LEMMA FitsKept ==
    ASSUME NEW m, NEW n, Grows(m, n), m \in MemType, NEW f \in Fps, NEW e, Fits(f, e, m)
    PROVE  Fits(f, e, n)
<1>1. m.subKeyToKey[f] = None \/ n.subKeyToKey[f] = m.subKeyToKey[f]
  BY DEF Grows
<1>2. e.private => e.of \in {f, n.subKeyToKey[f]}
  <2>1. e.of # None
    BY NoneAssumption DEF Fits, Entities
  <2>. QED
    BY <1>1, <2>1 DEF Fits
<1>. QED
  BY <1>2 DEF Fits

-----------------------------------------------------------------------------
(* The writes.  Each keeps the maps in order, and the maps grow.             *)
LEMMA SetAnEntity ==
    ASSUME NEW m, MemOK(m), NEW f \in Fps, NEW e, Fits(f, e, m),
           NEW n, n = [m EXCEPT !.entities[f] = e]
    PROVE  MemOK(n) /\ Grows(m, n)
<1>1. /\ n \in MemType
      /\ n.entities = [m.entities EXCEPT ![f] = e]
      /\ n.decrypted = m.decrypted /\ n.subKeyToKey = m.subKeyToKey
  BY DEF MemOK, MemType, Fits
<1>2. \A g \in Fps : n.entities[g] = IF g = f THEN e ELSE m.entities[g]
  BY <1>1 DEF MemOK, MemType
<1>3. e # None
  BY NoneNotData DEF Fits
<1>4. \A g \in Fps : m.entities[g] # None => n.entities[g] # None
  BY <1>2, <1>3
<1>5. Grows(m, n)
  BY <1>1, <1>4 DEF Grows
<1>6. EntitiesFit(n)
  <2>. SUFFICES ASSUME NEW g \in Fps, n.entities[g] # None PROVE Fits(g, n.entities[g], m)
    BY <1>5, FitsKept DEF EntitiesFit, MemOK
  <2>. QED
    BY <1>2 DEF MemOK, EntitiesFit
<1>7. Listed(n)
  BY <1>1, <1>4 DEF MemOK, MemType, Listed
<1>8. UnlockedWhole(n)
  BY <1>1, <1>4, FilesTyped DEF MemOK, UnlockedWhole, HasSubkeys
<1>. QED
  BY <1>1, <1>5, <1>6, <1>7, <1>8 DEF MemOK, OwnOrMaster

(* Here the SubkeyAssumption is needed: a fingerprint that is mapped already *)
(* is mapped to the same key again.                                          *)
LEMMA SetASubkey ==
    ASSUME NEW m, MemOK(m), NEW file \in Files, NEW s \in file.subs,
           m.entities[file.fp] # None,
           NEW n, n = [m EXCEPT !.subKeyToKey[s] = file.fp]
    PROVE  MemOK(n) /\ Grows(m, n)
<1>0. s \in Fps /\ file.fp \in Fps /\ file.fp # None
  BY FilesTyped, NoneAssumption
<1>1. /\ n \in MemType
      /\ n.subKeyToKey = [m.subKeyToKey EXCEPT ![s] = file.fp]
      /\ n.decrypted = m.decrypted /\ n.entities = m.entities
  BY <1>0 DEF MemOK, MemType
<1>2. \A g \in Fps : n.subKeyToKey[g] = IF g = s THEN file.fp ELSE m.subKeyToKey[g]
  BY <1>1 DEF MemOK, MemType
<1>3. m.subKeyToKey[s] \in {None, file.fp}
  <2>1. CASE m.subKeyToKey[s] # None
    <3>1. PICK other \in Files : s \in other.subs /\ other.fp = m.subKeyToKey[s]
      BY <2>1, <1>0 DEF MemOK, Listed
    <3>. QED
      BY <3>1, SubkeyAssumption
  <2>. QED
    BY <2>1
<1>4. Grows(m, n)
  BY <1>1, <1>2, <1>3 DEF Grows
<1>5. EntitiesFit(n)
  BY <1>1, <1>4, FitsKept DEF EntitiesFit, MemOK
<1>6. Listed(n)
  BY <1>0, <1>1, <1>2 DEF MemOK, Listed
<1>7. OwnOrMaster(n)
  BY <1>1, <1>2, <1>3 DEF MemOK, OwnOrMaster
<1>8. UnlockedWhole(n)
  BY <1>1 DEF MemOK, UnlockedWhole, HasSubkeys
<1>. QED
  BY <1>1, <1>4, <1>5, <1>6, <1>7, <1>8 DEF MemOK

LEMMA SetAnUnlocked ==
    ASSUME NEW m, MemOK(m), NEW f \in Fps, NEW o \in {f, m.subKeyToKey[f]}, o # None,
           HasSubkeys(m, f), NEW n, n = [m EXCEPT !.decrypted[f] = o]
    PROVE  MemOK(n) /\ Grows(m, n)
<1>0. o \in Fps
  BY DEF MemOK, MemType
<1>1. /\ n \in MemType
      /\ n.decrypted = [m.decrypted EXCEPT ![f] = o]
      /\ n.subKeyToKey = m.subKeyToKey /\ n.entities = m.entities
  BY <1>0 DEF MemOK, MemType
<1>2. \A g \in Fps : n.decrypted[g] = IF g = f THEN o ELSE m.decrypted[g]
  BY <1>1 DEF MemOK, MemType
<1>3. Grows(m, n)
  BY <1>1 DEF Grows
<1>4. EntitiesFit(n)
  BY <1>1, <1>3, FitsKept DEF EntitiesFit, MemOK
<1>. QED
  BY <1>1, <1>2, <1>3, <1>4
  DEF MemOK, Listed, OwnOrMaster, UnlockedWhole, HasSubkeys

LEMMA ForgetAnUnlocked ==
    ASSUME NEW m, MemOK(m), NEW f \in Fps, NEW n, n = [m EXCEPT !.decrypted[f] = None]
    PROVE  MemOK(n) /\ Grows(m, n)
<1>1. /\ n \in MemType
      /\ n.decrypted = [m.decrypted EXCEPT ![f] = None]
      /\ n.subKeyToKey = m.subKeyToKey /\ n.entities = m.entities
  BY DEF MemOK, MemType
<1>2. \A g \in Fps : n.decrypted[g] = IF g = f THEN None ELSE m.decrypted[g]
  BY <1>1 DEF MemOK, MemType
<1>3. Grows(m, n)
  BY <1>1 DEF Grows
<1>4. EntitiesFit(n)
  BY <1>1, <1>3, FitsKept DEF EntitiesFit, MemOK
<1>. QED
  BY <1>1, <1>2, <1>3, <1>4
  DEF MemOK, Listed, OwnOrMaster, UnlockedWhole, HasSubkeys

LEMMA SetAnAgent ==
    ASSUME NEW m, MemOK(m), NEW a \in Fps \cup {None}, NEW n, n = [m EXCEPT !.agent = a]
    PROVE  MemOK(n) /\ Grows(m, n)
<1>1. /\ n \in MemType
      /\ n.decrypted = m.decrypted /\ n.subKeyToKey = m.subKeyToKey
      /\ n.entities = m.entities
  BY DEF MemOK, MemType
<1>2. Grows(m, n)
  BY <1>1 DEF Grows
<1>3. EntitiesFit(n)
  BY <1>1, <1>2, FitsKept DEF EntitiesFit, MemOK
<1>. QED
  BY <1>1, <1>2, <1>3 DEF MemOK, Listed, OwnOrMaster, UnlockedWhole, HasSubkeys

LEMMA Untouched == ASSUME NEW m PROVE Grows(m, m)
  BY DEF Grows

-----------------------------------------------------------------------------
(* What a thread knows stays true while the maps grow.                       *)
LEMMA KeyOfTyped ==
    ASSUME NEW p \in Unlocking \cup {"check"}, NEW r, NEW c, CallOK(p, r, c)
    PROVE  KeyOf(r, c) \in Fps
  BY DEF CallOK, KeyOf, Unlocking, Loading

LEMMA LocalKept ==
    ASSUME NEW m, NEW n, Grows(m, n), MemOK(m), NEW p, NEW r, NEW c, Local(p, r, c, m)
    PROVE  Local(p, r, c, n)
<1>1. LoadOK(p, r, c, n)
  <2>. SUFFICES ASSUME p = "subkeys" PROVE n.entities[c.read.file.fp] # None
    BY DEF Local, LoadOK
  <2>1. c.read.file.fp \in Fps
    BY FilesTyped DEF Local, CallOK, Stored
  <2>. QED
    BY <2>1 DEF Local, LoadOK, Grows
<1>2. PastCheck(p, r, c, n)
  <2>. SUFFICES ASSUME p \in Unlocking PROVE PastCheck(p, r, c, n)
    BY DEF PastCheck
  <2>1. KeyOf(r, c) \in Fps
    BY KeyOfTyped DEF Local
  <2>. QED
    BY <2>1 DEF Local, PastCheck, Grows
<1>3. Covers(p, r, c, n)
  <2>. SUFFICES ASSUME p \in {"open", "standIn"}, NEW file \in Files, NEW x \in file.subs,
                       m.entities[x] # None
                PROVE  n.entities[x] # None
    BY DEF Local, Covers
  <2>. QED
    BY FilesTyped DEF Grows
<1>4. AnswerOK(p, r, c, n)
  <2>. SUFFICES ASSUME p = "store", r.ent # None PROVE Fits(r.arg, r.ent, n)
    BY DEF AnswerOK
  <2>1. r.arg \in Fps
    BY DEF Local, CallOK
  <2>2. m \in MemType
    BY DEF MemOK
  <2>. QED
    BY <2>1, <2>2, FitsKept DEF Local, AnswerOK
<1>. QED
  BY <1>1, <1>2, <1>3, <1>4 DEF Local

(* What a step of t has to keep for the invariant to be kept.                *)
LEMMA StepOf ==
    ASSUME IInv, NEW t \in Threads,
           pc' = [pc EXCEPT ![t] = pc'[t]],
           req' = [req EXCEPT ![t] = req'[t]],
           call' = [call EXCEPT ![t] = call'[t]],
           mutex' \in {mutex, None, t, Lost},
           MemOK(mem'), Grows(mem, mem'), SharedOK', KBOK',
           Local(pc'[t], req'[t], call'[t], mem'), HoldsOK(t)',
           \A f \in Fps : FindsNoEntity(f)' =>
               FindsNoEntity(f) \/ (pc'[t] = "standIn" /\ call'[t].sub = f),
           pc[t] = "standIn" => mem'.entities[call[t].sub] # None
    PROVE  IInv'
<1>1. ThreadsTyped'
  <2>1. pc'[t] \in Steps /\ req'[t] \in Requests /\ call'[t] \in Calls
    BY DEF Local, CallOK
  <2>. QED
    BY <2>1 DEF IInv, ThreadsTyped
<1>2. ASSUME NEW u \in Threads PROVE Local(pc'[u], req'[u], call'[u], mem') /\ HoldsOK(u)'
  <2>1. CASE u = t
    BY <2>1
  <2>2. CASE u # t
    <3>1. pc'[u] = pc[u] /\ req'[u] = req[u] /\ call'[u] = call[u]
      BY <2>2 DEF IInv, ThreadsTyped
    <3>2. Local(pc[u], req[u], call[u], mem')
      BY LocalKept DEF IInv
    <3>3. mutex' = u => mutex = u
      BY <2>2, NoneAssumption
    <3>. QED
      BY <3>1, <3>2, <3>3 DEF IInv, HoldsOK
  <2>. QED
    BY <2>1, <2>2
<1>3. MissingOnlyInTheGap'
  <2>. SUFFICES ASSUME NEW f \in Fps, FindsNoEntity(f)'
                PROVE  \E u \in Threads : pc'[u] = "standIn" /\ call'[u].sub = f
    BY DEF MissingOnlyInTheGap
  <2>1. CASE pc'[t] = "standIn" /\ call'[t].sub = f
    BY <2>1
  <2>2. CASE FindsNoEntity(f)
    <3>1. PICK u \in Threads : pc[u] = "standIn" /\ call[u].sub = f
      BY <2>2 DEF IInv, MissingOnlyInTheGap
    <3>2. u # t
      BY <3>1 DEF FindsNoEntity, entities
    <3>. QED
      BY <3>1, <3>2 DEF IInv, ThreadsTyped
  <2>. QED
    BY <2>1, <2>2
<1>. QED
  BY <1>1, <1>2, <1>3 DEF IInv

-----------------------------------------------------------------------------
(* What a thread knows when it is done, has been called or has returned.     *)
LEMMA NothingKnown ==
    ASSUME NEW m PROVE Local("idle", NoRequest, NoCall, m)
<1>1. NoRequest \in Requests /\ NoCall \in Calls
  BY DEF NoRequest, Requests, NoCall, Calls, Steps
<1>. QED
  BY <1>1 DEF Local, CallOK, LoadOK, PastCheck, Covers, AnswerOK, NoCall, NoRequest, FileOK,
              Backs, Steps, Waiting, Loading, Unlocking

Quiet == (Backs \cup Waiting \cup {"fetch", "deleteKB", "save", "decrypt"}) \ {"idle"}
LEMMA OnlyTheArgument ==
    ASSUME NEW m, NEW r \in Requests, NEW p \in Quiet, r.arg \in Fps,
           FileOK(r), p = "save" => r.file # None, p \in {"get", "getAgain"} => r.file = None
    PROVE  Local(p, r, NoCall, m)
<1>1. NoCall \in Calls /\ p \in Steps
  BY DEF NoCall, Calls, Steps, Quiet, Backs, Waiting
<1>. QED
  BY <1>1 DEF Local, CallOK, LoadOK, PastCheck, Covers, AnswerOK, NoCall, Backs, Steps,
              Waiting, Loading, Unlocking, Quiet

LEMMA Called ==
    ASSUME NEW m, NEW r, NEW p, NEW c, r \in Requests, r.arg \in Fps, p \in {"look", "read"},
           c \in Calls, c.at \in Fps, c.back \in Backs \ {"idle"}, c.meta = FALSE,
           FileOK(r), c.back = "get" => r.file = None
    PROVE  Local(p, r, c, m)
<1>1. p \in Steps
  BY DEF Steps, Loading
<1>. QED
  BY <1>1 DEF Local, CallOK, LoadOK, PastCheck, Covers, AnswerOK, Backs, Steps,
              Waiting, Loading, Unlocking

(* AddPrivateKey with a public key keeps no request: it ends where the load   *)
(* returns to.                                                               *)
LEMMA Returned ==
    ASSUME NEW m, NEW r \in Requests, NEW b \in Backs, b # "idle" => r.arg \in Fps,
           FileOK(r), b \in {"idle", "get"} => r.file = None
    PROVE  Local(b, r, NoCall, m)
<1>1. NoCall \in Calls /\ b \in Steps
  BY DEF NoCall, Calls, Steps, Backs, Waiting
<1>. QED
  BY <1>1 DEF Local, CallOK, LoadOK, PastCheck, Covers, AnswerOK, NoCall, Backs, Steps,
              Waiting, Loading, Unlocking

(* The frame of a step of t: its own entries change, those of others do not.  *)
LEMMA Frames ==
    ASSUME IInv, NEW t \in Threads
    PROVE  /\ UNCHANGED pc => pc' = [pc EXCEPT ![t] = pc'[t]] /\ pc'[t] = pc[t]
           /\ UNCHANGED req => req' = [req EXCEPT ![t] = req'[t]] /\ req'[t] = req[t]
           /\ UNCHANGED call => call' = [call EXCEPT ![t] = call'[t]] /\ call'[t] = call[t]
           /\ \A p : pc' = [pc EXCEPT ![t] = p] =>
                 pc' = [pc EXCEPT ![t] = pc'[t]] /\ pc'[t] = p
           /\ \A r : req' = [req EXCEPT ![t] = r] =>
                 req' = [req EXCEPT ![t] = req'[t]] /\ req'[t] = r
           /\ \A c : call' = [call EXCEPT ![t] = c] =>
                 call' = [call EXCEPT ![t] = call'[t]] /\ call'[t] = c
  BY DEF IInv, ThreadsTyped

Framed(t) == /\ pc' = [pc EXCEPT ![t] = pc'[t]]
             /\ req' = [req EXCEPT ![t] = req'[t]]
             /\ call' = [call EXCEPT ![t] = call'[t]]

(* Most steps write no map.                                                  *)
LEMMA NoWrite ==
    ASSUME IInv, NEW t \in Threads, Framed(t), UNCHANGED mem, pc[t] # "standIn",
           mutex' \in {mutex, None, t, Lost}, SharedOK', KBOK',
           Local(pc'[t], req'[t], call'[t], mem), HoldsOK(t)'
    PROVE  IInv'
<1>1. MemOK(mem') /\ Grows(mem, mem')
  BY Untouched DEF IInv
<1>2. Local(pc'[t], req'[t], call'[t], mem')
  OBVIOUS
<1>3. \A f \in Fps : FindsNoEntity(f)' => FindsNoEntity(f)
  BY DEF FindsNoEntity, decrypted, entities
<1>. QED
  BY <1>1, <1>2, <1>3, StepOf DEF Framed

LEMMA Unchanged == ASSUME IInv
                   PROVE  /\ UNCHANGED shared => SharedOK'
                          /\ UNCHANGED kb => KBOK'
  BY DEF IInv, SharedOK, KBOK

(* A request that ends without the mutex, or gives it back or loses it.      *)
LEMMA Ended ==
    ASSUME IInv, NEW t \in Threads, Done(t), UNCHANGED mem, pc[t] # "standIn",
           mutex' \in {mutex, None, Lost}, mutex' # t, SharedOK', KBOK'
    PROVE  IInv'
<1>1. Framed(t) /\ pc'[t] = "idle" /\ req'[t] = NoRequest /\ call'[t] = NoCall
  BY Frames DEF Done, Framed
<1>2. Local(pc'[t], req'[t], call'[t], mem)
  BY <1>1, NothingKnown
<1>3. HoldsOK(t)'
  BY DEF HoldsOK
<1>. QED
  BY <1>1, <1>2, <1>3, NoWrite

(* A call that returns; the holder of the mutex returns to a step of its own. *)
LEMMA Returns ==
    ASSUME IInv, NEW t \in Threads, Return(t), UNCHANGED <<mem, mutex, req>>, SharedOK', KBOK',
           \/ pc[t] \in Loading
           \/ call[t].meta /\ pc[t] \in (Unlocking \ {"standIn"}) \cup {"check"}
    PROVE  IInv'
<1>1. Framed(t) /\ pc'[t] = call[t].back /\ req'[t] = req[t] /\ call'[t] = NoCall
  BY Frames DEF Return, Goto, Framed
<1>2. Local(pc[t], req[t], call[t], mem) /\ HoldsOK(t)
  BY DEF IInv
<1>3. call[t].back \in Backs /\ req[t] \in Requests
  BY <1>2 DEF Local, CallOK
<1>4. /\ call[t].back # "idle" => req[t].arg \in Fps
      /\ FileOK(req[t]) /\ (call[t].back \in {"idle", "get"} => req[t].file = None)
  BY <1>2 DEF Local, CallOK, Loading, Unlocking
<1>5. Local(pc'[t], req'[t], call'[t], mem)
  BY <1>1, <1>3, <1>4, Returned
<1>6. HoldsOK(t)'
  BY <1>1, <1>2 DEF HoldsOK, NoCall, Loading, Unlocking
<1>7. pc[t] # "standIn"
  BY DEF Loading
<1>. QED
  BY <1>1, <1>5, <1>6, <1>7, NoWrite

-----------------------------------------------------------------------------
(* Loading.                                                                 *)
LEMMA LookKept == ASSUME IInv, NEW t \in Threads, Look(t) PROVE IInv'
<1>1. pc[t] = "look" /\ Local(pc[t], req[t], call[t], mem) /\ HoldsOK(t)
  BY DEF IInv, Look
<1>2. SharedOK' /\ KBOK'
  BY Unchanged DEF Look
<1>3. CASE IsLoaded(call[t].at)
  BY <1>1, <1>2, <1>3, Returns DEF Look, Loading
<1>4. CASE ~IsLoaded(call[t].at)
  <2>1. Framed(t) /\ pc'[t] = "read" /\ req'[t] = req[t] /\ call'[t] = call[t]
    BY <1>4, Frames DEF Look, Goto, Framed
  <2>2. Local(pc'[t], req'[t], call'[t], mem)
    BY <1>1, <2>1 DEF Local, CallOK, LoadOK, PastCheck, Covers, AnswerOK, Steps,
                      Loading, Unlocking
  <2>3. HoldsOK(t)'
    BY <1>1, <2>1 DEF HoldsOK, Look, Loading, Unlocking
  <2>. QED
    BY <1>1, <1>2, <2>1, <2>2, <2>3, NoWrite DEF Look
<1>. QED
  BY <1>3, <1>4

LEMMA ReadFromKBKept == ASSUME IInv, NEW t \in Threads, ReadFromKB(t) PROVE IInv'
<1>1. pc[t] = "read" /\ Local(pc[t], req[t], call[t], mem) /\ HoldsOK(t)
  BY DEF IInv, ReadFromKB
<1>. DEFINE found == kb[call[t].at]
<1>2. call[t].at \in Fps /\ found \in Stored
  BY <1>1 DEF IInv, KBOK, Local, CallOK, Loading, ReadFromKB
<1>3. /\ Framed(t) /\ pc'[t] = "entity" /\ req'[t] = req[t]
      /\ call'[t] = [call[t] EXCEPT !.read = found]
  BY Frames DEF ReadFromKB, Goto, Framed
<1>4. /\ call'[t] \in Calls /\ call'[t].read = found
      /\ call'[t].at = call[t].at /\ call'[t].back = call[t].back /\ call'[t].meta = call[t].meta
  BY <1>1, <1>2, <1>3 DEF Local, CallOK, Calls
<1>. HIDE DEF found
<1>5. Local(pc'[t], req'[t], call'[t], mem)
  BY <1>1, <1>2, <1>3, <1>4 DEF Local, CallOK, LoadOK, PastCheck, Covers, AnswerOK, Steps,
                                Loading, Unlocking
<1>6. HoldsOK(t)'
  BY <1>1, <1>3, <1>4 DEF HoldsOK, ReadFromKB, Loading, Unlocking
<1>7. SharedOK'
  BY <1>2 DEF ReadFromKB, AddToRing, IInv, SharedOK, Stored, found
<1>. QED
  BY <1>1, <1>3, <1>5, <1>6, <1>7, Unchanged, NoWrite DEF ReadFromKB

LEMMA ReadFailsKept == ASSUME IInv, NEW t \in Threads, ReadFails(t) PROVE IInv'
<1>1. SharedOK' /\ KBOK'
  BY Unchanged DEF ReadFails
<1>2. CASE call[t].back = "sign"
  <2>1. mutex # t
    BY <1>2 DEF IInv, HoldsOK, ReadFails, Loading
  <2>2. mutex \in Threads \cup {None, Lost}
    BY DEF IInv, ThreadsTyped
  <2>. QED
    BY <1>1, <1>2, <2>1, <2>2, Ended DEF ReadFails
<1>3. CASE call[t].back # "sign"
  BY <1>1, <1>3, Returns DEF ReadFails, Loading
<1>. QED
  BY <1>2, <1>3

(* LoadKey is done: it returns, or goes on with the password of the metadata. *)
LEMMA LoadedKept ==
    ASSUME IInv, NEW t \in Threads, pc[t] \in {"entity", "subkeys"}, Loaded(t),
           UNCHANGED <<shared, kb, mutex, req>>, MemOK(mem'), Grows(mem, mem'),
           UNCHANGED mem.decrypted
    PROVE  IInv'
<1>1. Local(pc[t], req[t], call[t], mem) /\ HoldsOK(t) /\ call[t].read \in Stored
  BY DEF IInv, Local, CallOK
<1>2. SharedOK' /\ KBOK'
  BY Unchanged
<1>3. \A f \in Fps : FindsNoEntity(f)' => FindsNoEntity(f)
  BY DEF FindsNoEntity, decrypted, entities, Grows
<1>4. /\ Framed(t) /\ req'[t] = req[t]
      /\ Local(pc'[t], req'[t], call'[t], mem') /\ HoldsOK(t)'
  <2>1. CASE call[t].read.password = None
    <3>1. Framed(t) /\ pc'[t] = call[t].back /\ req'[t] = req[t] /\ call'[t] = NoCall
      BY <2>1, Frames DEF Loaded, Return, Goto, Framed
    <3>2. /\ call[t].back # "idle" => req[t].arg \in Fps
          /\ FileOK(req[t]) /\ (call[t].back \in {"idle", "get"} => req[t].file = None)
      BY <1>1 DEF Local, CallOK, Loading
    <3>3. Local(pc'[t], req'[t], call'[t], mem')
      BY <1>1, <3>1, <3>2, Returned DEF Local, CallOK
    <3>4. HoldsOK(t)'
      BY <1>1, <3>1 DEF HoldsOK, NoCall, Loading, Unlocking
    <3>. QED
      BY <3>1, <3>3, <3>4
  <2>2. CASE call[t].read.password # None
    <3>1. /\ Framed(t) /\ pc'[t] = "check" /\ req'[t] = req[t]
          /\ call'[t] = [call[t] EXCEPT !.meta = TRUE, !.subs = {}]
      <4>1. call' = [call EXCEPT ![t] = [call[t] EXCEPT !.meta = TRUE, !.subs = {}]]
        BY <2>2 DEF Loaded, IInv, ThreadsTyped
      <4>. QED
        BY <2>2, <4>1, Frames DEF Loaded, Goto, Framed
    <3>2. /\ call'[t] \in Calls /\ call'[t].meta = TRUE
          /\ call'[t].at = call[t].at /\ call'[t].back = call[t].back
      BY <1>1, <3>1 DEF Local, CallOK, Calls
    <3>3. Local(pc'[t], req'[t], call'[t], mem')
      BY <1>1, <2>2, <3>1, <3>2 DEF Local, CallOK, LoadOK, PastCheck, Covers, AnswerOK,
                                    Steps, Loading, Unlocking
    <3>4. HoldsOK(t)'
      BY <1>1, <3>1, <3>2 DEF HoldsOK, Loading, Unlocking
    <3>. QED
      BY <3>1, <3>3, <3>4
  <2>. QED
    BY <2>1, <2>2
<1>. QED
  BY <1>2, <1>3, <1>4, StepOf DEF Framed

LEMMA SetEntityKept == ASSUME IInv, NEW t \in Threads, SetEntity(t) PROVE IInv'
<1>. DEFINE file == call[t].read.file
<1>1. /\ pc[t] = "entity" /\ Local(pc[t], req[t], call[t], mem) /\ HoldsOK(t)
      /\ call[t].read \in Stored
  BY DEF IInv, SetEntity, Local, CallOK
<1>2. file \in Files /\ file.fp \in Fps
  BY <1>1, FilesTyped DEF Stored
<1>3. mem' = [mem EXCEPT !.entities[file.fp] = ReadArmoredKey(file)]
  BY DEF SetEntity
<1>4. MemOK(mem') /\ Grows(mem, mem')
  BY <1>2, <1>3, ReadFits, SetAnEntity DEF IInv
<1>5. mem'.entities[file.fp] # None /\ UNCHANGED mem.decrypted
  BY <1>2, <1>3, ReadFits DEF IInv, MemOK, MemType
<1>6. CASE file.private /\ file.subs # {}
  <2>1. /\ Framed(t) /\ pc'[t] = "subkeys" /\ req'[t] = req[t]
        /\ call'[t] = [call[t] EXCEPT !.subs = file.subs]
    BY <1>6, Frames DEF SetEntity, Goto, Framed
  <2>2. /\ call'[t] \in Calls /\ call'[t].subs = file.subs /\ call'[t].read = call[t].read
        /\ call'[t].at = call[t].at /\ call'[t].back = call[t].back /\ call'[t].meta = call[t].meta
    BY <1>1, <1>2, <2>1, FilesTyped DEF Local, CallOK, Calls
  <2>3. Local(pc'[t], req'[t], call'[t], mem')
    BY <1>1, <1>5, <2>1, <2>2 DEF Local, CallOK, LoadOK, PastCheck, Covers, AnswerOK, Steps,
                                  Loading, Unlocking
  <2>4. HoldsOK(t)'
    BY <1>1, <2>1, <2>2 DEF HoldsOK, SetEntity, Loading, Unlocking
  <2>5. \A f \in Fps : FindsNoEntity(f)' => FindsNoEntity(f)
    BY <1>4, <1>5 DEF FindsNoEntity, decrypted, entities, Grows
  <2>. QED
    BY <1>1, <1>4, <2>1, <2>3, <2>4, <2>5, Unchanged, StepOf DEF Framed, SetEntity
<1>7. CASE ~(file.private /\ file.subs # {})
  BY <1>1, <1>4, <1>5, <1>7, LoadedKept DEF SetEntity
<1>. QED
  BY <1>6, <1>7

LEMMA SetSubkeyKept == ASSUME IInv, NEW t \in Threads, SetSubkey(t) PROVE IInv'
<1>. DEFINE file == call[t].read.file
<1>1. /\ pc[t] = "subkeys" /\ Local(pc[t], req[t], call[t], mem) /\ HoldsOK(t)
      /\ call[t].read \in Stored
  BY DEF IInv, SetSubkey, Local, CallOK
<1>2. file \in Files /\ file.fp \in Fps
  BY <1>1, FilesTyped DEF Stored
<1>3. PICK s \in call[t].subs :
          /\ mem' = [mem EXCEPT !.subKeyToKey[s] = file.fp]
          /\ IF call[t].subs # {s}
             THEN call' = [call EXCEPT ![t].subs = @ \ {s}] /\ UNCHANGED pc
             ELSE Loaded(t)
  BY DEF SetSubkey
<1>4. s \in file.subs /\ mem.entities[file.fp] # None
  BY <1>1 DEF Local, LoadOK
<1>5. MemOK(mem') /\ Grows(mem, mem')
  BY <1>2, <1>3, <1>4, SetASubkey DEF IInv
<1>6. UNCHANGED mem.decrypted /\ mem'.entities = mem.entities
  BY <1>3 DEF IInv, MemOK, MemType
<1>7. CASE call[t].subs # {s}
  <2>1. /\ Framed(t) /\ pc'[t] = "subkeys" /\ req'[t] = req[t]
        /\ call'[t] = [call[t] EXCEPT !.subs = @ \ {s}]
    BY <1>1, <1>3, <1>7, Frames DEF SetSubkey, Framed
  <2>2. /\ call'[t] \in Calls /\ call'[t].subs = call[t].subs \ {s} /\ call'[t].read = call[t].read
        /\ call'[t].at = call[t].at /\ call'[t].back = call[t].back /\ call'[t].meta = call[t].meta
    BY <1>1, <2>1 DEF Local, CallOK, Calls
  <2>3. Local(pc'[t], req'[t], call'[t], mem')
    BY <1>1, <1>6, <2>1, <2>2 DEF Local, CallOK, LoadOK, PastCheck, Covers, AnswerOK, Steps,
                                  Loading, Unlocking
  <2>4. HoldsOK(t)'
    BY <1>1, <2>1, <2>2 DEF HoldsOK, SetSubkey, Loading, Unlocking
  <2>5. \A f \in Fps : FindsNoEntity(f)' => FindsNoEntity(f)
    BY <1>5, <1>6 DEF FindsNoEntity, decrypted, entities, Grows
  <2>. QED
    BY <1>1, <1>5, <2>1, <2>3, <2>4, <2>5, Unchanged, StepOf DEF Framed, SetSubkey
<1>8. CASE call[t].subs = {s}
  BY <1>1, <1>3, <1>5, <1>6, <1>8, LoadedKept DEF SetSubkey
<1>. QED
  BY <1>7, <1>8

-----------------------------------------------------------------------------
(* Unlocking.                                                               *)
LEMMA KeyIsKeyOf ==
    ASSUME NEW t \in Threads
    PROVE  Key(t) = KeyOf(req[t], call[t]) /\ Pass(t) = PassOf(req[t], call[t])
  BY DEF Key, Pass, KeyOf, PassOf

(* What unlockKey leaves behind when it succeeds.                            *)
LEMMA UnlockedKept ==
    ASSUME IInv, NEW t \in Threads, pc[t] \in {"test", "open"}, Unlocked(t),
           UNCHANGED <<shared, kb>>, MemOK(mem'), Grows(mem, mem'),
           \A f \in Fps : FindsNoEntity(f)' => FindsNoEntity(f)
    PROVE  IInv'
<1>1. Local(pc[t], req[t], call[t], mem) /\ HoldsOK(t) /\ mutex \in Threads \cup {None, Lost}
  BY DEF IInv, ThreadsTyped
<1>2. /\ req[t] \in Requests /\ call[t].back \in Backs /\ req[t].arg \in Fps
      /\ FileOK(req[t])
      /\ call[t].meta /\ call[t].back \in {"idle", "get"} => req[t].file = None
  BY <1>1 DEF Local, CallOK
<1>3. CASE call[t].meta
  <2>1. /\ Framed(t) /\ pc'[t] = call[t].back /\ req'[t] = req[t] /\ call'[t] = NoCall
        /\ UNCHANGED mutex
    BY <1>3, Frames DEF Unlocked, Return, Goto, Framed
  <2>2. Local(pc'[t], req'[t], call'[t], mem')
    BY <1>2, <1>3, <2>1, Returned
  <2>3. HoldsOK(t)'
    BY <1>1, <1>3, <2>1 DEF HoldsOK, NoCall, Loading, Unlocking
  <2>. QED
    BY <2>1, <2>2, <2>3, Unchanged, StepOf DEF Framed
<1>4. CASE ~call[t].meta
  <2>1. /\ Framed(t) /\ mutex' = None /\ call'[t] = NoCall
        /\ \/ pc'[t] = "idle" /\ req'[t] = NoRequest
           \/ pc'[t] = "publish" /\ req'[t] = req[t]
    BY <1>4, Frames DEF Unlocked, Done, Goto, Framed
  <2>2. Local(pc'[t], req'[t], call'[t], mem')
    BY <1>2, <2>1, NothingKnown, OnlyTheArgument DEF Quiet, Backs
  <2>3. HoldsOK(t)'
    BY <2>1, NoneAssumption DEF HoldsOK
  <2>. QED
    BY <2>1, <2>2, <2>3, Unchanged, StepOf DEF Framed
<1>. QED
  BY <1>3, <1>4

LEMMA RefusedKept ==
    ASSUME IInv, NEW t \in Threads, pc[t] \in {"check", "open"}, Refused(t),
           UNCHANGED <<mem, shared, kb>>
    PROVE  IInv'
<1>1. CASE call[t].meta
  BY <1>1, Unchanged, Returns DEF Refused, Unlocking
<1>2. CASE ~call[t].meta
  BY <1>2, Unchanged, Ended, NoneAssumption DEF Refused
<1>. QED
  BY <1>1, <1>2

LEMMA PanicKept ==
    ASSUME IInv, NEW t \in Threads, pc[t] \in {"list", "get"}, Panic(t),
           UNCHANGED <<mem, shared, kb>>
    PROVE  IInv'
<1>1. mutex' \in {mutex, None, Lost} /\ mutex' # t
  BY NoneAssumption DEF Panic
<1>. QED
  BY <1>1, Unchanged, Ended DEF Panic

(* The password test: a primary key is never among the subkeys decrypted in   *)
(* place, so the password opens the file its entity was read from.           *)
LEMMA CheckKept == ASSUME IInv, NEW t \in Threads, Check(t) PROVE IInv'
<1>. DEFINE x == Key(t)
            e == mem.entities[x]
<1>1. pc[t] = "check" /\ Local(pc[t], req[t], call[t], mem) /\ HoldsOK(t)
  BY DEF IInv, Check
<1>2. x \in Fps /\ x = KeyOf(req[t], call[t])
  BY <1>1, KeyOfTyped, KeyIsKeyOf DEF Local
<1>3. e # None /\ e.private /\ MayDecrypt(e.of, e.lock, Pass(t))
  BY DEF Check, entities
<1>4. Fits(x, e, mem) /\ e.of # None
  <2>1. Fits(x, e, mem)
    BY <1>2, <1>3 DEF IInv, MemOK, EntitiesFit
  <2>. QED
    BY <2>1, NoneAssumption DEF Fits, Entities
<1>5. IsPrimary(x) => Opens(x, Pass(t))
  <2>. SUFFICES ASSUME IsPrimary(x) PROVE Opens(x, Pass(t))
    OBVIOUS
  <2>1. IsKey(x)
    BY DEF IsPrimary, IsKey
  <2>2. PICK file \in Files : file.fp = x /\ e.of = x /\ file.private /\ e.lock = file.lock
    BY <2>1, <1>3, <1>4 DEF Fits
  <2>3. e.of \notin shared.opened
    BY <2>1, <2>2, SubkeysAreNotKeys DEF IInv, SharedOK
  <2>. QED
    BY <2>2, <2>3, <1>3 DEF MayDecrypt, Opens
<1>6. /\ Framed(t) /\ pc'[t] = "test" /\ req'[t] = req[t]
      /\ call'[t] = [call[t] EXCEPT !.own = e.of]
  BY Frames DEF Check, Goto, Framed, entities
<1>7. /\ call'[t] \in Calls /\ call'[t].own = e.of
      /\ call'[t].read = call[t].read /\ call'[t].at = call[t].at
      /\ call'[t].back = call[t].back /\ call'[t].meta = call[t].meta
  BY <1>1, <1>4, <1>6 DEF Local, CallOK, Calls, Fits, Entities
<1>8. /\ KeyOf(req'[t], call'[t]) = x
      /\ PassOf(req'[t], call'[t]) = Pass(t)
  BY <1>2, <1>6, <1>7, KeyIsKeyOf DEF KeyOf, PassOf
<1>9. PICK a \in Fps \cup {None} : mem' = [mem EXCEPT !.agent = a]
  <2>1. mem.agent \in Fps \cup {None}
    BY DEF IInv, MemOK, MemType
  <2>. QED
    BY <1>2, <2>1 DEF Check
<1>10. MemOK(mem') /\ Grows(mem, mem')
  BY <1>9, SetAnAgent DEF IInv
<1>11. /\ mem'.entities = mem.entities /\ mem'.decrypted = mem.decrypted
       /\ mem'.subKeyToKey = mem.subKeyToKey
  BY <1>9 DEF IInv, MemOK, MemType
<1>. HIDE DEF x, e
<1>12. PastCheck(pc'[t], req'[t], call'[t], mem')
  BY <1>3, <1>4, <1>5, <1>7, <1>8, <1>11 DEF PastCheck, Fits, e
<1>13. Local(pc'[t], req'[t], call'[t], mem')
  BY <1>1, <1>6, <1>7, <1>12 DEF Local, CallOK, LoadOK, Covers, AnswerOK, Steps, Loading, Unlocking
<1>14. HoldsOK(t)'
  BY <1>1, <1>6, <1>7 DEF HoldsOK, Check, Loading, Unlocking
<1>15. \A f \in Fps : FindsNoEntity(f)' => FindsNoEntity(f)
  BY <1>11 DEF FindsNoEntity, decrypted, entities
<1>. QED
  BY <1>1, <1>6, <1>10, <1>13, <1>14, <1>15, Unchanged, StepOf DEF Framed, Check

LEMMA CheckFailsKept == ASSUME IInv, NEW t \in Threads, CheckFails(t) PROVE IInv'
  BY RefusedKept DEF CheckFails

LEMMA AlreadyUnlockedKept == ASSUME IInv, NEW t \in Threads, AlreadyUnlocked(t) PROVE IInv'
<1>1. /\ pc[t] = "test" /\ Local(pc[t], req[t], call[t], mem) /\ HoldsOK(t) /\ MemOK(mem)
      /\ UNCHANGED <<mem, shared, kb>>
  BY DEF IInv, AlreadyUnlocked
<1>2. CASE decrypted[Key(t)] # None
  <2>1. MemOK(mem') /\ Grows(mem, mem')
    BY <1>1, Untouched
  <2>2. \A f \in Fps : FindsNoEntity(f)' => FindsNoEntity(f)
    BY <1>1 DEF FindsNoEntity, decrypted, entities
  <2>. QED
    BY <1>1, <1>2, <2>1, <2>2, UnlockedKept DEF AlreadyUnlocked
<1>3. CASE decrypted[Key(t)] = None
  <2>1. Framed(t) /\ pc'[t] = "list" /\ req'[t] = req[t] /\ call'[t] = call[t] /\ UNCHANGED mutex
    BY <1>3, Frames DEF AlreadyUnlocked, Goto, Framed
  <2>2. Local(pc'[t], req'[t], call'[t], mem)
    BY <1>1, <2>1 DEF Local, CallOK, LoadOK, PastCheck, Covers, AnswerOK, Steps, Loading, Unlocking
  <2>3. HoldsOK(t)'
    BY <1>1, <2>1 DEF HoldsOK, Loading, Unlocking
  <2>. QED
    BY <1>1, <2>1, <2>2, <2>3, Unchanged, NoWrite
<1>. QED
  BY <1>2, <1>3

(* All subkeys are still to come: for a primary key they are those every file *)
(* of the key lists, if its files agree.                                     *)
LEMMA ListSubkeysKept == ASSUME IInv, NEW t \in Threads, ListSubkeys(t) PROVE IInv'
<1>. DEFINE x == Key(t)
            z == mem.entities[x]
<1>1. /\ pc[t] = "list" /\ Local(pc[t], req[t], call[t], mem) /\ HoldsOK(t)
      /\ UNCHANGED <<mem, shared, kb>>
  BY DEF IInv, ListSubkeys
<1>2. x \in Fps /\ x = KeyOf(req[t], call[t])
  BY <1>1, KeyOfTyped, KeyIsKeyOf DEF Local, Unlocking
<1>3. CASE z # None /\ (z.private \/ z.subs = {})
  <2>1. Fits(x, z, mem)
    BY <1>2, <1>3 DEF IInv, MemOK, EntitiesFit
  <2>2. /\ Framed(t) /\ pc'[t] = "open" /\ req'[t] = req[t] /\ UNCHANGED mutex
        /\ call'[t] = [call[t] EXCEPT !.subs = z.subs, !.lock = z.sublock]
    <3>1. call' = [call EXCEPT ![t] = [call[t] EXCEPT !.subs = z.subs, !.lock = z.sublock]]
      BY <1>3 DEF ListSubkeys, entities, IInv, ThreadsTyped
    <3>. QED
      BY <1>3, <3>1, Frames DEF ListSubkeys, Goto, Framed, entities
  <2>3. z.subs \in SUBSET Fps /\ z.sublock \in Passwords \cup {Plain}
    BY <2>1 DEF Fits, Entities
  <2>4. /\ call'[t] \in Calls /\ call'[t].subs = z.subs
        /\ call'[t].own = call[t].own /\ call'[t].read = call[t].read /\ call'[t].at = call[t].at
        /\ call'[t].back = call[t].back /\ call'[t].meta = call[t].meta
    BY <1>1, <2>2, <2>3 DEF Local, CallOK, Calls
  <2>5. /\ KeyOf(req'[t], call'[t]) = x
        /\ PassOf(req'[t], call'[t]) = PassOf(req[t], call[t])
    BY <1>2, <2>2, <2>4 DEF KeyOf, PassOf
  <2>. HIDE DEF z
  <2>6. PastCheck(pc'[t], req'[t], call'[t], mem)
    BY <1>1, <1>2, <2>4, <2>5 DEF Local, PastCheck, Unlocking
  <2>7. Covers(pc'[t], req'[t], call'[t], mem)
    <3>1. ASSUME OneSubkeyList(x), NEW file \in Files, file.fp = x PROVE file.subs = z.subs
      BY <2>1, <3>1 DEF Fits, IsKey, OneSubkeyList
    <3>. QED
      BY <2>1, <2>2, <2>4, <2>5, <3>1 DEF Covers, Fits
  <2>8. Local(pc'[t], req'[t], call'[t], mem)
    BY <1>1, <2>2, <2>4, <2>6, <2>7 DEF Local, CallOK, LoadOK, AnswerOK, Steps, Loading, Unlocking
  <2>9. HoldsOK(t)'
    BY <1>1, <2>2, <2>4 DEF HoldsOK, Loading, Unlocking
  <2>. QED
    BY <1>1, <2>2, <2>8, <2>9, Unchanged, NoWrite
<1>4. CASE ~(z # None /\ (z.private \/ z.subs = {}))
  BY <1>1, <1>4, PanicKept DEF ListSubkeys, entities
<1>. QED
  BY <1>3, <1>4

LEMMA OpenSubkeyKept == ASSUME IInv, NEW t \in Threads, OpenSubkey(t) PROVE IInv'
<1>1. pc[t] = "open" /\ Local(pc[t], req[t], call[t], mem) /\ HoldsOK(t)
  BY DEF IInv, OpenSubkey
<1>2. PICK s \in call[t].subs :
          /\ shared' = [shared EXCEPT !.opened = @ \cup {s}]
          /\ mem' = [mem EXCEPT !.decrypted[s] = s]
          /\ call' = [call EXCEPT ![t].subs = @ \ {s}, ![t].sub = s]
  BY DEF OpenSubkey
<1>3. IsSubkey(s) /\ s \in Fps /\ ~IsKey(s) /\ s # None
  BY <1>1, SubkeysAreNotKeys, NoneAssumption DEF Local, Covers
<1>4. HasSubkeys(mem, s)
  BY <1>3 DEF HasSubkeys, IsKey
<1>5. MemOK(mem') /\ Grows(mem, mem')
  BY <1>2, <1>3, <1>4, SetAnUnlocked DEF IInv
<1>6. /\ mem'.entities = mem.entities /\ mem'.subKeyToKey = mem.subKeyToKey
      /\ \A f \in Fps : f # s => mem'.decrypted[f] = mem.decrypted[f]
  BY <1>2 DEF IInv, MemOK, MemType
<1>7. /\ Framed(t) /\ pc'[t] = "standIn" /\ req'[t] = req[t]
      /\ call'[t] = [call[t] EXCEPT !.subs = @ \ {s}, !.sub = s]
  <2>1. call' = [call EXCEPT ![t] = [call[t] EXCEPT !.subs = @ \ {s}, !.sub = s]]
    BY <1>2 DEF IInv, ThreadsTyped
  <2>. QED
    BY <2>1, Frames DEF OpenSubkey, Goto, Framed
<1>8. /\ call'[t] \in Calls /\ call'[t].subs = call[t].subs \ {s} /\ call'[t].sub = s
      /\ call'[t].own = call[t].own /\ call'[t].read = call[t].read /\ call'[t].at = call[t].at
      /\ call'[t].back = call[t].back /\ call'[t].meta = call[t].meta
  BY <1>1, <1>3, <1>7 DEF Local, CallOK, Calls
<1>9. /\ KeyOf(req'[t], call'[t]) = KeyOf(req[t], call[t])
      /\ PassOf(req'[t], call'[t]) = PassOf(req[t], call[t])
  BY <1>7, <1>8 DEF KeyOf, PassOf
<1>10. PastCheck(pc'[t], req'[t], call'[t], mem')
  BY <1>1, <1>6, <1>8, <1>9 DEF Local, PastCheck, Unlocking
<1>11. Covers(pc'[t], req'[t], call'[t], mem')
  BY <1>1, <1>3, <1>6, <1>7, <1>8, <1>9 DEF Local, Covers
<1>12. Local(pc'[t], req'[t], call'[t], mem')
  BY <1>1, <1>7, <1>8, <1>10, <1>11 DEF Local, CallOK, LoadOK, AnswerOK, Steps, Loading, Unlocking
<1>13. HoldsOK(t)'
  BY <1>1, <1>7, <1>8 DEF HoldsOK, OpenSubkey, Loading, Unlocking
<1>14. SharedOK'
  BY <1>2, <1>3 DEF IInv, SharedOK
<1>15. \A f \in Fps : FindsNoEntity(f)' =>
          FindsNoEntity(f) \/ (pc'[t] = "standIn" /\ call'[t].sub = f)
  BY <1>6, <1>7, <1>8 DEF FindsNoEntity, decrypted, entities
<1>. QED
  BY <1>1, <1>5, <1>7, <1>12, <1>13, <1>14, <1>15, Unchanged, StepOf DEF Framed, OpenSubkey

LEMMA SubkeyFailsKept == ASSUME IInv, NEW t \in Threads, SubkeyFails(t) PROVE IInv'
  BY RefusedKept DEF SubkeyFails

(* The second write of a subkey closes the gap.                              *)
LEMMA SetStandInKept == ASSUME IInv, NEW t \in Threads, SetStandIn(t) PROVE IInv'
<1>. DEFINE s == call[t].sub
            e == CreateEntityFromKeys(s)
<1>1. pc[t] = "standIn" /\ Local(pc[t], req[t], call[t], mem) /\ HoldsOK(t)
  BY DEF IInv, SetStandIn
<1>2. IsSubkey(s) /\ s \in Fps /\ ~IsKey(s)
  BY <1>1, SubkeysAreNotKeys DEF Local, Covers
<1>3. Fits(s, e, mem) /\ e # None
  <2>1. e \in Entities /\ e.of = s /\ e.subs = {s} /\ e.private
    BY <1>2 DEF CreateEntityFromKeys, Entities
  <2>. QED
    BY <1>2, <2>1, NoneNotData DEF Fits
<1>. HIDE DEF e
<1>4. mem' = [mem EXCEPT !.entities[s] = e]
  BY DEF SetStandIn, e
<1>5. MemOK(mem') /\ Grows(mem, mem')
  BY <1>2, <1>3, <1>4, SetAnEntity DEF IInv
<1>6. /\ mem'.decrypted = mem.decrypted /\ mem'.subKeyToKey = mem.subKeyToKey
      /\ mem'.entities[s] # None
  BY <1>2, <1>3, <1>4 DEF IInv, MemOK, MemType
<1>7. /\ Framed(t) /\ pc'[t] = "open" /\ req'[t] = req[t]
      /\ call'[t] = [call[t] EXCEPT !.sub = None]
  BY Frames DEF SetStandIn, Goto, Framed
<1>8. /\ call'[t] \in Calls /\ call'[t].subs = call[t].subs
      /\ call'[t].own = call[t].own /\ call'[t].read = call[t].read /\ call'[t].at = call[t].at
      /\ call'[t].back = call[t].back /\ call'[t].meta = call[t].meta
  BY <1>1, <1>7 DEF Local, CallOK, Calls
<1>9. Local(pc[t], req[t], call[t], mem')
  BY <1>1, <1>5, LocalKept DEF IInv
<1>10. /\ KeyOf(req'[t], call'[t]) = KeyOf(req[t], call[t])
       /\ PassOf(req'[t], call'[t]) = PassOf(req[t], call[t])
  BY <1>7, <1>8 DEF KeyOf, PassOf
<1>11. PastCheck(pc'[t], req'[t], call'[t], mem')
  BY <1>1, <1>8, <1>9, <1>10 DEF Local, PastCheck, Unlocking
<1>12. Covers(pc'[t], req'[t], call'[t], mem')
  BY <1>1, <1>6, <1>7, <1>8, <1>9, <1>10 DEF Local, Covers
<1>13. Local(pc'[t], req'[t], call'[t], mem')
  BY <1>1, <1>7, <1>8, <1>11, <1>12 DEF Local, CallOK, LoadOK, AnswerOK, Steps, Loading, Unlocking
<1>14. HoldsOK(t)'
  BY <1>1, <1>7, <1>8 DEF HoldsOK, SetStandIn, Loading, Unlocking
<1>15. \A f \in Fps : FindsNoEntity(f)' => FindsNoEntity(f)
  BY <1>5, <1>6 DEF FindsNoEntity, decrypted, entities, Grows
<1>. QED
  BY <1>5, <1>6, <1>7, <1>13, <1>14, <1>15, Unchanged, StepOf DEF Framed, SetStandIn

LEMMA SetOwnKept == ASSUME IInv, NEW t \in Threads, SetOwn(t) PROVE IInv'
<1>. DEFINE x == Key(t)
            o == call[t].own
<1>1. pc[t] = "open" /\ call[t].subs = {} /\ Local(pc[t], req[t], call[t], mem)
  BY DEF IInv, SetOwn
<1>2. x \in Fps /\ x = KeyOf(req[t], call[t])
  BY <1>1, KeyOfTyped, KeyIsKeyOf DEF Local, Unlocking
<1>3. o \in {x, mem.subKeyToKey[x]} /\ o # None /\ mem.entities[x] # None
  BY <1>1, <1>2 DEF Local, PastCheck, Unlocking
<1>4. HasSubkeys(mem, x)
  BY <1>1, <1>2 DEF Local, Covers, HasSubkeys
<1>5. mem' = [mem EXCEPT !.decrypted[x] = o]
  BY DEF SetOwn
<1>6. MemOK(mem') /\ Grows(mem, mem')
  BY <1>2, <1>3, <1>4, <1>5, SetAnUnlocked DEF IInv
<1>7. /\ mem'.entities = mem.entities
      /\ \A f \in Fps : f # x => mem'.decrypted[f] = mem.decrypted[f]
  BY <1>5 DEF IInv, MemOK, MemType
<1>8. \A f \in Fps : FindsNoEntity(f)' => FindsNoEntity(f)
  BY <1>3, <1>7 DEF FindsNoEntity, decrypted, entities
<1>. QED
  BY <1>1, <1>6, <1>8, UnlockedKept DEF SetOwn

-----------------------------------------------------------------------------
(* The requests.  A request that is not in a call goes to a step where only   *)
(* its argument matters, or calls LoadKeyFromKB.                             *)
LEMMA GoesOn ==
    ASSUME IInv, NEW t \in Threads, UNCHANGED <<mem, shared, kb>>, Framed(t),
           pc[t] # "standIn", pc'[t] \in Quiet, call'[t] = NoCall,
           req'[t] \in Requests, req'[t].arg \in Fps, FileOK(req'[t]),
           pc'[t] = "save" => req'[t].file # None,
           pc'[t] \in {"get", "getAgain"} => req'[t].file = None,
           mutex' \in {mutex, None, t},
           mutex' = t => pc'[t] \in {"check", "loadKeys", "find", "findMaster", "fetch"}
    PROVE  IInv'
<1>1. Local(pc'[t], req'[t], call'[t], mem)
  BY OnlyTheArgument
<1>2. HoldsOK(t)'
  BY DEF HoldsOK, NoCall, Loading, Unlocking
<1>. QED
  BY <1>1, <1>2, Unchanged, NoWrite

LEMMA Calling ==
    ASSUME IInv, NEW t \in Threads, UNCHANGED <<mem, shared, kb>>, Framed(t),
           pc[t] # "standIn", NEW p \in {"look", "read"}, NEW f \in Fps, NEW b \in Backs \ {"idle"},
           pc'[t] = p, call'[t] = [NoCall EXCEPT !.at = f, !.back = b],
           req'[t] \in Requests, req'[t].arg \in Fps, FileOK(req'[t]),
           b = "get" => req'[t].file = None,
           mutex' \in {mutex, None, t},
           mutex' = t => b \in {"check", "loadKeys", "find", "findMaster"}
    PROVE  IInv'
<1>1. Local(pc'[t], req'[t], call'[t], mem)
  <2>1. /\ call'[t] \in Calls /\ call'[t].at = f /\ call'[t].back = b
        /\ call'[t].meta = FALSE
    BY DEF NoCall, Calls, Steps, Backs, Waiting, Loading
  <2>. QED
    BY <2>1, Called
<1>2. call'[t].back = b
  BY DEF NoCall
<1>3. HoldsOK(t)'
  BY <1>2 DEF HoldsOK, Loading
<1>. QED
  BY <1>1, <1>3, Unchanged, NoWrite

(* What an idle thread starts from, and what others know of their request.   *)
LEMMA RequestKnown ==
    ASSUME IInv, NEW t \in Threads
    PROVE  /\ req[t] \in Requests /\ call[t] \in Calls /\ FileOK(req[t])
           /\ pc[t] \in {"idle", "get", "getAgain"} => req[t].file = None
           /\ pc[t] \notin {"idle"} \cup Loading => req[t].arg \in Fps
           /\ mutex \in Threads \cup {None, Lost}
           /\ pc[t] \in {"idle", "get", "save", "deleteKB"} \cup Waiting => mutex # t
<1>1. Local(pc[t], req[t], call[t], mem) /\ HoldsOK(t) /\ mutex \in Threads \cup {None, Lost}
  BY DEF IInv, ThreadsTyped
<1>. QED
  BY <1>1 DEF Local, CallOK, HoldsOK, Loading, Unlocking, Waiting

LEMMA UnlockKeyKept ==
    ASSUME IInv, NEW t \in Threads, NEW f \in Fps, NEW pw \in Passwords, UnlockKey(t, f, pw)
    PROVE  IInv'
<1>1. pc[t] = "idle" /\ mutex' = t /\ UNCHANGED <<mem, shared, kb>>
  BY DEF UnlockKey
<1>2. req[t] \in Requests /\ req[t].file = None
  BY <1>1, RequestKnown
<1>3. req' = [req EXCEPT ![t] = [req[t] EXCEPT !.arg = f, !.pass = pw]]
  BY DEF UnlockKey, IInv, ThreadsTyped
<1>4. /\ Framed(t) /\ pc'[t] = "look" /\ call'[t] = [NoCall EXCEPT !.at = f, !.back = "check"]
      /\ req'[t] = [req[t] EXCEPT !.arg = f, !.pass = pw]
  BY <1>3, Frames DEF UnlockKey, Call, Goto, Framed
<1>5. req'[t] \in Requests /\ req'[t].arg = f /\ req'[t].file = None
  BY <1>2, <1>4 DEF Requests
<1>6. FileOK(req'[t]) /\ "check" \in Backs \ {"idle"}
  BY <1>5 DEF FileOK, Backs
<1>. QED
  BY <1>1, <1>4, <1>5, <1>6, Calling

(* A request about f that begins.                                            *)
LEMMA Begun ==
    ASSUME IInv, NEW t \in Threads, NEW f \in Fps, Begin(t, f),
           pc[t] \in {"idle", "get", "getAgain"}
    PROVE  /\ req' = [req EXCEPT ![t] = req'[t]] /\ req'[t] \in Requests
           /\ req'[t].arg = f /\ req'[t].file = None /\ FileOK(req'[t])
<1>1. req[t] \in Requests /\ req[t].file = None
  BY RequestKnown
<1>2. req' = [req EXCEPT ![t] = req'[t]] /\ req'[t] = [req[t] EXCEPT !.arg = f]
  BY Frames DEF Begin
<1>. QED
  BY <1>1, <1>2 DEF Requests, FileOK

LEMMA SignDataKept ==
    ASSUME IInv, NEW t \in Threads, NEW f \in Fps, SignData(t, f) PROVE IInv'
<1>1. pc[t] = "idle" /\ UNCHANGED <<mem, shared, kb>> /\ mutex = None
  BY DEF SignData, Free
<1>2. CASE decrypted[f] # None
  <2>1. /\ Framed(t) /\ pc'[t] = pc[t] /\ req'[t] = req[t] /\ call'[t] = call[t]
        /\ mutex' = Lost
    BY <1>2, Frames DEF SignData, Framed
  <2>2. Local(pc'[t], req'[t], call'[t], mem)
    BY <2>1 DEF IInv
  <2>3. HoldsOK(t)'
    BY <2>1, NoneAssumption DEF HoldsOK
  <2>. QED
    BY <1>1, <2>1, <2>2, <2>3, Unchanged, NoWrite
<1>3. CASE decrypted[f] = None
  <2>1. Begin(t, f) /\ UNCHANGED mutex /\ Call(t, "look", f, "sign")
    BY <1>3 DEF SignData
  <2>2. /\ Framed(t) /\ pc'[t] = "look"
        /\ call'[t] = [NoCall EXCEPT !.at = f, !.back = "sign"]
    BY <1>1, <2>1, Begun, Frames DEF Call, Goto, Framed
  <2>3. /\ req'[t] \in Requests /\ req'[t].arg \in Fps /\ FileOK(req'[t])
        /\ "sign" \in Backs \ {"idle"} /\ mutex' # t
    BY <1>1, <2>1, Begun, NoneAssumption DEF Backs
  <2>. QED
    BY <1>1, <2>1, <2>2, <2>3, Calling
<1>. QED
  BY <1>2, <1>3

(* A request that ends where it has waited for the mutex, or in the section   *)
(* of Decrypt, gives the mutex back or loses it.                             *)
LEMMA SignKept == ASSUME IInv, NEW t \in Threads, Sign(t) PROVE IInv'
  BY Unchanged, Ended, NoneAssumption DEF Sign

LEMMA DecryptUsesKept == ASSUME IInv, NEW t \in Threads, DecryptUses(t) PROVE IInv'
  BY Unchanged, Ended, NoneAssumption DEF DecryptUses

LEMMA GetPrivateKept ==
    ASSUME IInv, NEW t \in Threads, NEW f \in Fps, GetPrivate(t, f) PROVE IInv'
<1>1. pc[t] = "idle" /\ UNCHANGED <<mem, shared, kb, mutex>> /\ mutex = None /\ Begin(t, f)
  BY DEF GetPrivate, Free
<1>2. /\ Framed(t) /\ pc'[t] = "look"
      /\ call'[t] = [NoCall EXCEPT !.at = f, !.back = "get"]
  BY <1>1, Begun, Frames DEF GetPrivate, Call, Goto, Framed
<1>3. /\ req'[t] \in Requests /\ req'[t].arg \in Fps /\ FileOK(req'[t]) /\ req'[t].file = None
      /\ "get" \in Backs \ {"idle"} /\ mutex' # t
  BY <1>1, Begun, NoneAssumption DEF Backs
<1>. QED
  BY <1>1, <1>2, <1>3, Calling

LEMMA GetPrivateUsesKept == ASSUME IInv, NEW t \in Threads, GetPrivateUses(t) PROVE IInv'
<1>. DEFINE master == subKeyToKey[req[t].arg]
<1>1. /\ pc[t] = "get" /\ UNCHANGED <<mem, shared, kb>> /\ req[t].arg \in Fps /\ mutex # t
  BY RequestKnown DEF GetPrivateUses, Loading
<1>2. CASE GetPrivatePanics(req[t].arg)
  BY <1>1, <1>2, PanicKept DEF GetPrivateUses
<1>3. CASE ~GetPrivatePanics(req[t].arg) /\ (decrypted[req[t].arg] # None \/ master \in {None, req[t].arg})
  <2>1. mutex \in {None, Lost} \/ mutex' = mutex
    BY <1>1, <1>3 DEF GetPrivateUses
  <2>2. Done(t) /\ UNCHANGED mutex
    BY <1>1, <1>3 DEF GetPrivateUses
  <2>. QED
    BY <1>1, <2>2, Unchanged, Ended
<1>4. CASE ~GetPrivatePanics(req[t].arg)
           /\ ~(decrypted[req[t].arg] # None \/ master \in {None, req[t].arg})
  <2>1. Begin(t, master) /\ Goto(t, "getAgain") /\ UNCHANGED <<call, mutex>>
    BY <1>1, <1>4 DEF GetPrivateUses
  <2>2. master \in Fps
    BY <1>1, <1>4 DEF IInv, MemOK, MemType, subKeyToKey
  <2>. HIDE DEF master
  <2>3. /\ Framed(t) /\ pc'[t] = "getAgain" /\ call'[t] = call[t]
        /\ req'[t] \in Requests /\ req'[t].arg = master /\ req'[t].file = None /\ FileOK(req'[t])
    BY <1>1, <2>1, <2>2, Begun, Frames DEF Goto, Framed
  <2>4. Local(pc[t], req[t], call[t], mem)
    BY DEF IInv
  <2>5. Local(pc'[t], req'[t], call'[t], mem)
    BY <1>1, <2>2, <2>3, <2>4 DEF Local, CallOK, LoadOK, PastCheck, Covers, AnswerOK, Steps,
                                  Waiting, Loading, Unlocking
  <2>6. HoldsOK(t)'
    BY <1>1, <2>1 DEF HoldsOK
  <2>. QED
    BY <1>1, <2>1, <2>3, <2>5, <2>6, Unchanged, NoWrite
<1>. QED
  BY <1>2, <1>3, <1>4

LEMMA GetAgainKept == ASSUME IInv, NEW t \in Threads, GetAgain(t) PROVE IInv'
<1>1. /\ pc[t] = "getAgain" /\ UNCHANGED <<mem, shared, kb, mutex, req>> /\ mutex = None
  BY DEF GetAgain, Free
<1>2. /\ Framed(t) /\ pc'[t] = "look" /\ req'[t] = req[t]
      /\ call'[t] = [NoCall EXCEPT !.at = req[t].arg, !.back = "get"]
  BY <1>1, Frames DEF GetAgain, Call, Goto, Framed
<1>3. /\ req[t] \in Requests /\ req[t].arg \in Fps /\ FileOK(req[t]) /\ req[t].file = None
      /\ "get" \in Backs \ {"idle"} /\ mutex' # t
  BY <1>1, RequestKnown, NoneAssumption DEF Backs, Loading
<1>. QED
  BY <1>1, <1>2, <1>3, Calling

(* Decrypt: LoadKeys with the mutex held, then a section of its own.         *)
LEMMA DecryptKept ==
    ASSUME IInv, NEW t \in Threads, NEW f \in Fps, Decrypt(t, f) PROVE IInv'
<1>1. /\ pc[t] = "idle" /\ UNCHANGED <<mem, shared, kb, call>> /\ mutex = None
  BY DEF Decrypt, Free
<1>2. Local(pc[t], req[t], call[t], mem)
  BY DEF IInv
<1>3. /\ Framed(t) /\ pc'[t] \in {"loadKeys", "decrypt"} /\ call'[t] = call[t]
      /\ mutex' \in {None, t} /\ (mutex' = t => pc'[t] = "loadKeys")
      /\ req'[t] \in Requests /\ req'[t].arg \in Fps /\ req'[t].file = None
  <2>1. CASE /\ mutex' = t
             /\ req' = [req EXCEPT ![t].arg = f, ![t].todo = {g \in Fps : kb[g] # None}]
             /\ Goto(t, "loadKeys")
    <3>1. req' = [req EXCEPT ![t] = [req[t] EXCEPT !.arg = f,
                                                   !.todo = {g \in Fps : kb[g] # None}]]
      BY <2>1 DEF IInv, ThreadsTyped
    <3>2. /\ Framed(t) /\ pc'[t] = "loadKeys" /\ call'[t] = call[t]
          /\ req'[t] = [req[t] EXCEPT !.arg = f, !.todo = {g \in Fps : kb[g] # None}]
      BY <1>1, <2>1, <3>1, Frames DEF Goto, Framed
    <3>3. req[t] \in Requests /\ req[t].file = None
      BY <1>1, RequestKnown
    <3>4. /\ req'[t] \in Requests /\ req'[t].arg = f /\ req'[t].file = None
      BY <3>2, <3>3 DEF Requests
    <3>. QED
      BY <2>1, <3>2, <3>4
  <2>2. CASE Begin(t, f) /\ Goto(t, "decrypt") /\ UNCHANGED mutex
    <3>1. Framed(t) /\ pc'[t] = "decrypt" /\ call'[t] = call[t]
      BY <1>1, <2>2, Begun, Frames DEF Goto, Framed
    <3>. QED
      BY <1>1, <2>2, <3>1, Begun, NoneAssumption
  <2>. QED
    BY <2>1, <2>2 DEF Decrypt
<1>4. Local(pc'[t], req'[t], call'[t], mem)
  BY <1>1, <1>2, <1>3 DEF Local, CallOK, LoadOK, PastCheck, Covers, AnswerOK, FileOK, Steps,
                          Waiting, Loading, Unlocking
<1>5. HoldsOK(t)'
  BY <1>1, <1>2, <1>3 DEF HoldsOK, Local, CallOK, Loading, Unlocking
<1>. QED
  BY <1>1, <1>3, <1>4, <1>5, Unchanged, NoWrite

LEMMA LoadKeysKept == ASSUME IInv, NEW t \in Threads, LoadKeys(t) PROVE IInv'
<1>1. pc[t] = "loadKeys" /\ UNCHANGED <<mem, shared, kb, mutex>>
  BY DEF LoadKeys
<1>2. PICK f \in req[t].todo :
          /\ req' = [req EXCEPT ![t].todo = @ \ {f}]
          /\ Call(t, "read", f, "loadKeys")
  BY DEF LoadKeys
<1>3. /\ req[t] \in Requests /\ FileOK(req[t]) /\ req[t].arg \in Fps
  BY <1>1, RequestKnown DEF Loading
<1>4. /\ Framed(t) /\ pc'[t] = "read" /\ call'[t] = [NoCall EXCEPT !.at = f, !.back = "loadKeys"]
      /\ req'[t] = [req[t] EXCEPT !.todo = @ \ {f}]
  BY <1>2, Frames DEF Call, Goto, Framed
<1>5. /\ f \in Fps /\ req'[t] \in Requests /\ req'[t].arg = req[t].arg /\ FileOK(req'[t])
      /\ "loadKeys" \in Backs \ {"idle"}
  BY <1>2, <1>3, <1>4 DEF Requests, FileOK, Backs
<1>. QED
  BY <1>1, <1>3, <1>4, <1>5, Calling

(* A step after which the request goes on from the same call record.         *)
LEMMA LoadKeysDoneKept == ASSUME IInv, NEW t \in Threads, LoadKeysDone(t) PROVE IInv'
<1>1. pc[t] = "loadKeys" /\ UNCHANGED <<mem, shared, kb, req, call>> /\ mutex' = None
  BY DEF LoadKeysDone
<1>2. Framed(t) /\ pc'[t] = "decrypt" /\ req'[t] = req[t] /\ call'[t] = call[t]
  BY <1>1, Frames DEF LoadKeysDone, Goto, Framed
<1>3. Local(pc[t], req[t], call[t], mem)
  BY DEF IInv
<1>4. Local(pc'[t], req'[t], call'[t], mem)
  BY <1>1, <1>2, <1>3 DEF Local, CallOK, LoadOK, PastCheck, Covers, AnswerOK, Steps,
                          Waiting, Loading, Unlocking
<1>5. HoldsOK(t)'
  BY <1>1, NoneAssumption DEF HoldsOK
<1>. QED
  BY <1>1, <1>2, <1>4, <1>5, Unchanged, NoWrite

LEMMA SearchKept == ASSUME IInv, NEW t \in Threads, Search(t) PROVE IInv'
<1>1. pc[t] = "decrypt" /\ UNCHANGED <<mem, shared, kb, req>> /\ mutex' = t
  BY DEF Search
<1>2. /\ Framed(t) /\ pc'[t] = "look" /\ req'[t] = req[t]
      /\ call'[t] = [NoCall EXCEPT !.at = req[t].arg, !.back = "find"]
  BY <1>1, Frames DEF Search, Call, Goto, Framed
<1>3. /\ req[t] \in Requests /\ req[t].arg \in Fps /\ FileOK(req[t])
      /\ "find" \in Backs \ {"idle"}
  BY <1>1, RequestKnown DEF Backs, Loading
<1>. QED
  BY <1>1, <1>2, <1>3, Calling

LEMMA SearchMasterKept == ASSUME IInv, NEW t \in Threads, SearchMaster(t) PROVE IInv'
<1>. DEFINE master == subKeyToKey[req[t].arg]
<1>1. pc[t] = "find" /\ UNCHANGED <<mem, shared, kb, req, mutex>> /\ master # None
  BY DEF SearchMaster
<1>2. /\ req[t] \in Requests /\ req[t].arg \in Fps /\ FileOK(req[t])
      /\ "findMaster" \in Backs \ {"idle"}
  BY <1>1, RequestKnown DEF Backs, Loading
<1>3. master \in Fps
  BY <1>1, <1>2 DEF IInv, MemOK, MemType, subKeyToKey
<1>4. /\ Framed(t) /\ pc'[t] = "look" /\ req'[t] = req[t]
      /\ call'[t] = [NoCall EXCEPT !.at = master, !.back = "findMaster"]
  BY <1>1, Frames DEF SearchMaster, Call, Goto, Framed
<1>. QED
  BY <1>1, <1>2, <1>3, <1>4, Calling

-----------------------------------------------------------------------------
(* The public half of a key.                                                *)
LEMMA MasterFits ==
    ASSUME IInv, NEW f \in Fps, NEW g, g = mem.subKeyToKey[f], g # None
    PROVE  Fits(f, mem.entities[g], mem) /\ mem.entities[g] # None
<1>. DEFINE e == mem.entities[g]
<1>1. mem.entities[g] # None /\ g \in Fps
  BY DEF IInv, MemOK, MemType, Listed
<1>2. PICK file \in Files : f \in file.subs /\ file.fp = g
  BY DEF IInv, MemOK, Listed
<1>3. IsSubkey(f) /\ ~IsKey(f)
  BY <1>2, SubkeysAreNotKeys DEF IsSubkey
<1>4. Fits(g, e, mem)
  BY <1>1 DEF IInv, MemOK, EntitiesFit
<1>5. mem.subKeyToKey[g] = None
  <2>. SUFFICES ASSUME mem.subKeyToKey[g] # None PROVE FALSE
    OBVIOUS
  <2>1. PICK other \in Files : g \in other.subs
    BY <1>1 DEF IInv, MemOK, Listed
  <2>. QED
    BY <1>2, <2>1, SubkeyAssumption
<1>6. e.private => e.of = g
  <2>1. e.of # None
    BY <1>4, NoneAssumption DEF Fits, Entities
  <2>. QED
    BY <1>4, <1>5, <2>1 DEF Fits
<1>. QED
  BY <1>1, <1>3, <1>4, <1>6 DEF Fits

LEMMA FindPublicKeyKept ==
    ASSUME IInv, NEW t \in Threads, NEW f \in Fps, FindPublicKey(t, f),
           pc[t] \in {"idle", "publish"}, req[t].file # None => f = req[t].arg
    PROVE  IInv'
<1>. DEFINE master == mem.subKeyToKey[f]
            e == IF mem.entities[f] # None \/ master = None
                 THEN mem.entities[f] ELSE mem.entities[master]
<1>1. UNCHANGED <<mem, shared, kb, call>> /\ mutex' = t
  BY DEF FindPublicKey
<1>2. e # None => Fits(f, e, mem)
  <2>1. CASE mem.entities[f] # None \/ master = None
    BY <2>1 DEF IInv, MemOK, EntitiesFit
  <2>2. CASE ~(mem.entities[f] # None \/ master = None)
    BY <2>2, MasterFits
  <2>. QED
    BY <2>1, <2>2
<1>3. e = None \/ e \in Entities
  BY <1>2 DEF Fits
<1>4. /\ Framed(t) /\ pc'[t] \in {"fetch", "store"} /\ call'[t] = call[t]
      /\ req'[t] = [req[t] EXCEPT !.arg = f, !.ent = e]
  <2>1. req' = [req EXCEPT ![t] = [req[t] EXCEPT !.arg = f, !.ent = e]]
    BY DEF FindPublicKey, IInv, ThreadsTyped, entities, subKeyToKey
  <2>. HIDE DEF e
  <2>2. PICK p \in {"fetch", "store"} : pc' = [pc EXCEPT ![t] = p]
    BY DEF FindPublicKey, Goto
  <2>3. pc' = [pc EXCEPT ![t] = pc'[t]] /\ pc'[t] = p
    BY <2>2, Frames
  <2>4. /\ req' = [req EXCEPT ![t] = req'[t]]
        /\ req'[t] = [req[t] EXCEPT !.arg = f, !.ent = e]
    BY <2>1, Frames
  <2>. QED
    BY <1>1, <2>3, <2>4, Frames DEF Framed
<1>. HIDE DEF e
<1>5. req[t] \in Requests /\ FileOK(req[t])
  BY RequestKnown
<1>6. /\ req'[t] \in Requests /\ req'[t].arg = f /\ req'[t].ent = e
      /\ req'[t].file = req[t].file /\ FileOK(req'[t])
  BY <1>3, <1>4, <1>5 DEF Requests, FileOK
<1>7. Local(pc[t], req[t], call[t], mem)
  BY DEF IInv
<1>8. Local(pc'[t], req'[t], call'[t], mem)
  BY <1>2, <1>4, <1>6, <1>7 DEF Local, CallOK, LoadOK, PastCheck, Covers, AnswerOK, Steps,
                                Loading, Unlocking
<1>9. HoldsOK(t)'
  BY <1>4, <1>7 DEF HoldsOK, Local, CallOK, Loading, Unlocking
<1>. QED
  BY <1>1, <1>4, <1>8, <1>9, Unchanged, NoWrite

LEMMA GetPublicKeyKept ==
    ASSUME IInv, NEW t \in Threads, NEW f \in Fps, GetPublicKey(t, f) PROVE IInv'
  BY RequestKnown, FindPublicKeyKept DEF GetPublicKey

LEMMA PublishKept == ASSUME IInv, NEW t \in Threads, Publish(t) PROVE IInv'
<1>1. pc[t] = "publish" /\ FindPublicKey(t, req[t].arg)
  BY DEF Publish
<1>2. req[t].arg \in Fps
  BY <1>1, RequestKnown DEF Loading
<1>. QED
  BY <1>1, <1>2, FindPublicKeyKept

(* What the key ring answers fits what it was asked for.                     *)
LEMMA AnswersFit ==
    ASSUME IInv, NEW f \in Fps, NEW e \in KeyRingAnswers(f), e # None
    PROVE  Fits(f, e, mem)
<1>1. CASE e \in {PublicEntity(file.fp, file.subs) : file \in {x \in Files : f \in x.subs \cup {x.fp}}}
  <2>1. PICK file \in Files : f \in file.subs \cup {file.fp} /\ e = PublicEntity(file.fp, file.subs)
    BY <1>1
  <2>2. /\ e \in Entities /\ e.of = file.fp /\ e.subs = file.subs /\ e.private = FALSE
    BY <2>1, FilesTyped DEF PublicEntity, Entities
  <2>3. IsKey(f) => f = file.fp
    BY <2>1, SubkeysAreNotKeys DEF IsSubkey
  <2>. QED
    BY <2>2, <2>3 DEF Fits, IsSubkey
<1>2. CASE e \in {PublicEntity(f, {}) : file \in {x \in Files : f \in x.subs}}
  <2>1. e = PublicEntity(f, {}) /\ IsSubkey(f)
    BY <1>2 DEF IsSubkey
  <2>2. e \in Entities /\ e.subs = {} /\ e.private = FALSE
    BY <2>1 DEF PublicEntity, Entities
  <2>. QED
    BY <2>1, <2>2, SubkeysAreNotKeys DEF Fits
<1>3. CASE e \in {ReadArmoredKey(file) : file \in {x \in shared.ring : f = x.fp}}
  BY <1>3, ReadFits DEF IInv, SharedOK
<1>4. CASE e \in {CreateEntityForSubKey(file, f) : file \in {x \in shared.ring : f \in x.subs}}
  <2>1. PICK file \in Files : f \in file.subs /\ e = CreateEntityForSubKey(file, f)
    BY <1>4 DEF IInv, SharedOK
  <2>2. /\ IsSubkey(f) /\ e \in Entities /\ e.of = f /\ e.subs = {}
    BY <2>1, FilesTyped DEF CreateEntityForSubKey, Entities, IsSubkey
  <2>. QED
    BY <2>2, SubkeysAreNotKeys DEF Fits
<1>. QED
  BY <1>1, <1>2, <1>3, <1>4 DEF KeyRingAnswers

LEMMA FetchKept == ASSUME IInv, NEW t \in Threads, Fetch(t) PROVE IInv'
<1>1. pc[t] = "fetch" /\ UNCHANGED <<mem, shared, kb, mutex, call>>
  BY DEF Fetch
<1>2. /\ Local(pc[t], req[t], call[t], mem) /\ HoldsOK(t)
      /\ req[t].arg \in Fps /\ req[t] \in Requests /\ FileOK(req[t])
  BY <1>1, RequestKnown DEF IInv, Loading
<1>3. PICK e \in KeyRingAnswers(req[t].arg) : req' = [req EXCEPT ![t].ent = e]
  BY DEF Fetch
<1>4. /\ Framed(t) /\ pc'[t] = "store" /\ call'[t] = call[t]
      /\ req'[t] = [req[t] EXCEPT !.ent = e]
  BY <1>1, <1>3, Frames DEF Fetch, Goto, Framed
<1>5. e # None => Fits(req[t].arg, e, mem)
  BY <1>2, AnswersFit
<1>6. e = None \/ e \in Entities
  BY <1>5 DEF Fits
<1>7. /\ req'[t] \in Requests /\ req'[t].arg = req[t].arg /\ req'[t].ent = e
      /\ req'[t].file = req[t].file /\ FileOK(req'[t])
  BY <1>2, <1>4, <1>6 DEF Requests, FileOK
<1>8. Local(pc'[t], req'[t], call'[t], mem)
  BY <1>1, <1>2, <1>4, <1>5, <1>7 DEF Local, CallOK, LoadOK, PastCheck, Covers, AnswerOK, Steps,
                                      Loading, Unlocking
<1>9. HoldsOK(t)'
  BY <1>1, <1>2, <1>4 DEF HoldsOK, Local, CallOK, Loading, Unlocking
<1>. QED
  BY <1>1, <1>4, <1>8, <1>9, Unchanged, NoWrite

LEMMA StorePublicKeyKept == ASSUME IInv, NEW t \in Threads, StorePublicKey(t) PROVE IInv'
<1>1. pc[t] = "store" /\ mutex' = None /\ UNCHANGED <<shared, kb>>
  BY DEF StorePublicKey
<1>2. /\ Local(pc[t], req[t], call[t], mem) /\ MemOK(mem)
      /\ req[t].arg \in Fps /\ req[t] \in Requests /\ FileOK(req[t])
  BY <1>1, RequestKnown DEF IInv, Loading
<1>3. /\ MemOK(mem') /\ Grows(mem, mem')
      /\ mem'.decrypted = mem.decrypted
  <2>1. CASE req[t].ent = None
    BY <1>2, <2>1, Untouched DEF StorePublicKey
  <2>2. CASE req[t].ent # None
    <3>1. Fits(req[t].arg, req[t].ent, mem)
      BY <1>1, <1>2, <2>2 DEF Local, AnswerOK
    <3>2. mem' = [mem EXCEPT !.entities[req[t].arg] = req[t].ent]
      BY <2>2 DEF StorePublicKey
    <3>3. mem'.decrypted = mem.decrypted
      BY <1>2, <3>2 DEF MemOK, MemType
    <3>. QED
      BY <1>2, <3>1, <3>2, <3>3, SetAnEntity
  <2>. QED
    BY <2>1, <2>2
<1>4. \A f \in Fps : FindsNoEntity(f)' => FindsNoEntity(f)
  BY <1>3 DEF FindsNoEntity, decrypted, entities, Grows
<1>5. HoldsOK(t)'
  BY <1>1, NoneAssumption DEF HoldsOK
<1>6. CASE req[t].file = None
  <2>1. Framed(t) /\ pc'[t] = "idle" /\ req'[t] = NoRequest /\ call'[t] = NoCall
    BY <1>6, Frames DEF StorePublicKey, Done, Framed
  <2>2. Local(pc'[t], req'[t], call'[t], mem')
    BY <2>1, NothingKnown
  <2>. QED
    BY <1>1, <1>3, <1>4, <1>5, <2>1, <2>2, Unchanged, StepOf DEF Framed
<1>7. CASE req[t].file # None
  <2>1. /\ Framed(t) /\ pc'[t] = "save" /\ call'[t] = call[t]
        /\ req'[t] = [req[t] EXCEPT !.ent = None]
    BY <1>7, Frames DEF StorePublicKey, Goto, Framed
  <2>2. /\ req'[t] \in Requests /\ req'[t].arg = req[t].arg
        /\ req'[t].file = req[t].file /\ FileOK(req'[t])
    BY <1>2, <2>1 DEF Requests, FileOK
  <2>3. Local(pc'[t], req'[t], call'[t], mem')
    BY <1>1, <1>2, <1>7, <2>1, <2>2 DEF Local, CallOK, LoadOK, PastCheck, Covers, AnswerOK,
                                        Steps, Waiting, Loading, Unlocking
  <2>. QED
    BY <1>1, <1>3, <1>4, <1>5, <2>1, <2>3, Unchanged, StepOf DEF Framed
<1>. QED
  BY <1>6, <1>7

-----------------------------------------------------------------------------
(* Deleting and adding keys.                                                *)
LEMMA DeleteKeyKept ==
    ASSUME IInv, NEW t \in Threads, NEW f \in Fps, DeleteKey(t, f) PROVE IInv'
<1>1. /\ pc[t] = "idle" /\ UNCHANGED <<shared, kb, mutex, call>> /\ mutex = None
      /\ mem' = [mem EXCEPT !.decrypted[f] = None] /\ Begin(t, f)
  BY DEF DeleteKey, Free
<1>2. MemOK(mem') /\ Grows(mem, mem')
  BY <1>1, ForgetAnUnlocked DEF IInv
<1>3. /\ mem'.entities = mem.entities
      /\ \A g \in Fps : mem'.decrypted[g] # None => mem.decrypted[g] # None
  BY <1>1 DEF IInv, MemOK, MemType
<1>4. \A g \in Fps : FindsNoEntity(g)' => FindsNoEntity(g)
  BY <1>3 DEF FindsNoEntity, decrypted, entities
<1>5. /\ Framed(t) /\ pc'[t] = "deleteKB" /\ call'[t] = call[t]
      /\ req'[t] \in Requests /\ req'[t].arg = f /\ req'[t].file = None /\ FileOK(req'[t])
  BY <1>1, Begun, Frames DEF DeleteKey, Goto, Framed
<1>6. Local(pc[t], req[t], call[t], mem)
  BY DEF IInv
<1>7. Local(pc'[t], req'[t], call'[t], mem')
  BY <1>1, <1>5, <1>6 DEF Local, CallOK, LoadOK, PastCheck, Covers, AnswerOK, Steps,
                          Waiting, Loading, Unlocking
<1>8. HoldsOK(t)'
  BY <1>1, NoneAssumption DEF HoldsOK
<1>. QED
  BY <1>1, <1>2, <1>4, <1>5, <1>7, <1>8, Unchanged, StepOf DEF Framed

LEMMA DeleteFromKBKept == ASSUME IInv, NEW t \in Threads, DeleteFromKB(t) PROVE IInv'
<1>1. /\ pc[t] = "deleteKB" /\ UNCHANGED <<mem, shared, mutex>> /\ Done(t)
      /\ mutex # t
  BY RequestKnown DEF DeleteFromKB
<1>2. KBOK'
  BY DEF DeleteFromKB, IInv, KBOK
<1>. QED
  BY <1>1, <1>2, Unchanged, Ended

LEMMA AddPrivateKeyKept ==
    ASSUME IInv, NEW t \in Threads, NEW file \in Files, NEW pw \in Passwords \cup {None},
           AddPrivateKey(t, file, pw)
    PROVE  IInv'
<1>. DEFINE back == IF ~file.private THEN "idle"
                    ELSE IF pw = None THEN "publish" ELSE "addUnlock"
            c == [NoCall EXCEPT !.at = file.fp, !.back = back,
                                !.read = [file |-> file, password |-> None]]
<1>1. /\ pc[t] = "idle" /\ UNCHANGED <<mem, kb, mutex>>
      /\ mutex # t /\ req[t] \in Requests /\ req[t].file = None
  BY RequestKnown DEF AddPrivateKey
<1>2. file.fp \in Fps /\ file.private \in BOOLEAN
  BY FilesTyped
<1>3. pc' = [pc EXCEPT ![t] = pc'[t]] /\ pc'[t] = "entity"
  BY Frames DEF AddPrivateKey, Goto
<1>4. call' = [call EXCEPT ![t] = call'[t]] /\ call'[t] = c
  <2>1. call' = [call EXCEPT ![t] = c]
    BY DEF AddPrivateKey
  <2>. HIDE DEF c
  <2>. QED
    BY <2>1, Frames
<1>5. /\ req' = [req EXCEPT ![t] = req'[t]] /\ req'[t] \in Requests /\ FileOK(req'[t])
      /\ IF file.private THEN req'[t].arg = file.fp ELSE req'[t].file = None
  <2>1. CASE file.private
    <3>1. req' = [req EXCEPT ![t] = [req[t] EXCEPT !.arg = file.fp, !.pass = pw, !.file = file]]
      BY <2>1 DEF AddPrivateKey, IInv, ThreadsTyped
    <3>2. /\ req' = [req EXCEPT ![t] = req'[t]]
          /\ req'[t] = [req[t] EXCEPT !.arg = file.fp, !.pass = pw, !.file = file]
      BY <3>1, Frames
    <3>. QED
      BY <1>1, <1>2, <2>1, <3>2 DEF Requests, FileOK
  <2>2. CASE ~file.private
    BY <1>1, <2>2, RequestKnown, Frames DEF AddPrivateKey
  <2>. QED
    BY <2>1, <2>2
<1>6. [file |-> file, password |-> None] \in Stored
  BY DEF Stored
<1>7. /\ c \in Calls /\ c.at = file.fp /\ c.back = back /\ c.meta = FALSE
      /\ c.read = [file |-> file, password |-> None]
  BY <1>2, <1>6 DEF NoCall, Calls, Steps, Waiting
<1>8. /\ back \in Backs /\ back # "get" /\ (back = "idle" <=> ~file.private)
  BY DEF Backs
<1>. HIDE DEF c, back
<1>9. Local(pc'[t], req'[t], call'[t], mem)
  BY <1>2, <1>3, <1>4, <1>5, <1>6, <1>7, <1>8
  DEF Local, CallOK, LoadOK, PastCheck, Covers, AnswerOK, Steps, Loading, Unlocking
<1>10. HoldsOK(t)'
  BY <1>1 DEF HoldsOK
<1>11. SharedOK'
  BY DEF AddPrivateKey, AddToRing, IInv, SharedOK
<1>. QED
  BY <1>1, <1>3, <1>4, <1>5, <1>9, <1>10, <1>11, Unchanged, NoWrite DEF Framed

LEMMA AddUnlocksKept == ASSUME IInv, NEW t \in Threads, AddUnlocks(t) PROVE IInv'
<1>1. pc[t] = "addUnlock" /\ UNCHANGED <<mem, shared, kb, req, call>> /\ mutex' = t
  BY DEF AddUnlocks
<1>2. Framed(t) /\ pc'[t] = "check" /\ req'[t] = req[t] /\ call'[t] = call[t]
  BY <1>1, Frames DEF AddUnlocks, Goto, Framed
<1>3. Local(pc[t], req[t], call[t], mem)
  BY DEF IInv
<1>4. Local(pc'[t], req'[t], call'[t], mem)
  BY <1>1, <1>2, <1>3 DEF Local, CallOK, LoadOK, PastCheck, Covers, AnswerOK, Steps,
                          Loading, Unlocking
<1>5. HoldsOK(t)'
  BY <1>1, <1>2, <1>3 DEF HoldsOK, Local, CallOK, Loading, Unlocking
<1>. QED
  BY <1>1, <1>2, <1>4, <1>5, Unchanged, NoWrite

LEMMA SaveKeyKept == ASSUME IInv, NEW t \in Threads, SaveKey(t) PROVE IInv'
<1>1. /\ pc[t] = "save" /\ UNCHANGED <<mem, shared, mutex>> /\ Done(t)
      /\ mutex # t
  BY RequestKnown DEF SaveKey
<1>2. /\ req[t].file \in Files /\ req[t].file.private /\ req[t].file.fp = req[t].arg
      /\ req[t].pass \in Passwords \cup {None}
  BY <1>1, RequestKnown DEF IInv, Local, CallOK, FileOK, Requests
<1>3. KBOK'
  <2>1. [file |-> req[t].file, password |-> req[t].pass] \in Stored
    BY <1>2 DEF Stored
  <2>. QED
    BY <1>2, <2>1 DEF SaveKey, IInv, KBOK
<1>. QED
  BY <1>1, <1>3, Unchanged, Ended

-----------------------------------------------------------------------------
(* The invariant holds at first and is kept by every step.                   *)
LEMMA InitOK == Init => IInv
<1>. SUFFICES ASSUME Init PROVE IInv
  OBVIOUS
<1>1. MemOK(mem)
  BY FlagAssumption DEF Init, MemOK, MemType, EntitiesFit, Listed, OwnOrMaster, UnlockedWhole
<1>2. SharedOK /\ KBOK /\ ThreadsTyped
  <2>1. NoRequest \in Requests /\ NoCall \in Calls /\ "idle" \in Steps
    BY DEF NoRequest, Requests, NoCall, Calls, Steps
  <2>. QED
    BY <2>1 DEF Init, SharedOK, KBOK, ThreadsTyped
<1>3. ASSUME NEW t \in Threads PROVE Local(pc[t], req[t], call[t], mem) /\ HoldsOK(t)
  BY NothingKnown, NoneAssumption DEF Init, HoldsOK
<1>4. MissingOnlyInTheGap
  BY DEF Init, MissingOnlyInTheGap, FindsNoEntity, decrypted
<1>. QED
  BY <1>1, <1>2, <1>3, <1>4 DEF IInv

LEMMA StutterOK == ASSUME IInv, UNCHANGED vars PROVE IInv'
<1>1. MissingOnlyInTheGap'
  BY DEF vars, IInv, MissingOnlyInTheGap, FindsNoEntity, decrypted, entities
<1>. QED
  BY <1>1 DEF vars, IInv, SharedOK, KBOK, ThreadsTyped, HoldsOK

LEMMA LoadAndUnlockKept == ASSUME IInv, NEW t \in Threads, LoadAndUnlock(t) PROVE IInv'
  BY LookKept, ReadFromKBKept, ReadFailsKept, SetEntityKept, SetSubkeyKept, CheckKept,
     CheckFailsKept, AlreadyUnlockedKept, ListSubkeysKept, OpenSubkeyKept, SubkeyFailsKept,
     SetStandInKept, SetOwnKept
  DEF LoadAndUnlock

LEMMA NextOK == IInv /\ [Next]_vars => IInv'
<1>. SUFFICES ASSUME IInv, [Next]_vars PROVE IInv'
  OBVIOUS
<1>1. ASSUME NEW t \in Threads, Work(t) PROVE IInv'
  BY <1>1, LoadAndUnlockKept, SignKept, GetPrivateUsesKept, GetAgainKept, LoadKeysKept,
     LoadKeysDoneKept, SearchKept, SearchMasterKept, DecryptUsesKept, FetchKept,
     StorePublicKeyKept, DeleteFromKBKept, AddUnlocksKept, PublishKept, SaveKeyKept
  DEF Work
<1>2. ASSUME NEW t \in Threads, Request(t) PROVE IInv'
  BY <1>2, SignDataKept, GetPrivateKept, DecryptKept, GetPublicKeyKept, DeleteKeyKept,
     UnlockKeyKept, AddPrivateKeyKept
  DEF Request
<1>3. CASE UNCHANGED vars
  BY <1>3, StutterOK
<1>. QED
  BY <1>1, <1>2, <1>3 DEF Next

LEMMA AlwaysInOrder == Spec => []IInv
  BY InitOK, NextOK, PTL DEF Spec

-----------------------------------------------------------------------------
(* Theorems *)

(* The maps, the backend and what the threads remember are well-formed.      *)
THEOREM TypeCorrect == Spec => []TypeOK
<1>1. IInv => TypeOK
  BY DEF IInv, MemOK, MemType, SharedOK, KBOK, ThreadsTyped, TypeOK
<1>. QED
  BY <1>1, AlwaysInOrder, PTL

(* An unlocked key is without its entity only between the two writes that     *)
(* unlockKey makes for a subkey (pgpManager.go:310 and 312).                 *)
THEOREM EntitiesMissOnlyInTheGap == Spec => []MissingOnlyInTheGap
<1>1. IInv => MissingOnlyInTheGap
  BY DEF IInv
<1>. QED
  BY <1>1, AlwaysInOrder, PTL

(* What GetSubKeys dereferences is there, whatever number of threads load,   *)
(* unlock and delete the key and its subkeys at once.                        *)
THEOREM SubkeyEntitiesAreThere == Spec => []SubkeysAreThere
<1>1. IInv => SubkeysAreThere
  <2>. SUFFICES ASSUME IInv, NEW f \in Fps, OneSubkeyList(f), decrypted[f] # None,
                       NEW s \in Fps, subKeyToKey[s] = f, entities[s] = None
                PROVE  FALSE
    BY DEF SubkeysAreThere, GetSubKeysPanics
  <2>1. f # None
    BY NoneAssumption
  <2>2. PICK file \in Files : s \in file.subs /\ file.fp = f
    BY <2>1 DEF IInv, MemOK, Listed, subKeyToKey
  <2>. QED
    BY <2>2 DEF IInv, MemOK, UnlockedWhole, HasSubkeys, decrypted, entities
<1>. QED
  BY <1>1, AlwaysInOrder, PTL

(* A fingerprint is only mapped to a key whose entity is loaded.             *)
THEOREM MastersAreThere == Spec => []MasterIsLoaded
<1>1. IInv => MasterIsLoaded
  BY DEF IInv, MemOK, Listed, MasterIsLoaded, subKeyToKey, entities
<1>. QED
  BY <1>1, AlwaysInOrder, PTL

(* What is kept unlocked for a fingerprint is its own private key or that of  *)
(* the key it is a subkey of.                                                *)
THEOREM KeysAreNotMixed == Spec => []OwnOrMasterKey
<1>1. IInv => OwnOrMasterKey
  BY DEF IInv, MemOK, OwnOrMaster, OwnOrMasterKey, decrypted, subKeyToKey
<1>. QED
  BY <1>1, AlwaysInOrder, PTL

(* Nothing gets past the password test of a primary key but a password that   *)
(* opens one of its files.                                                   *)
THEOREM PasswordsAreChecked == Spec => []PasswordChecked
<1>1. IInv => PasswordChecked
  BY KeyIsKeyOf DEF IInv, Local, PastCheck, PasswordChecked
<1>. QED
  BY <1>1, AlwaysInOrder, PTL

(* The holder of the mutex is never at a step that takes it, and never idle.  *)
THEOREM NoSelfDeadlock == Spec => []NobodyWaitsForItself
<1>1. IInv => NobodyWaitsForItself
  BY DEF IInv, HoldsOK, NobodyWaitsForItself, Waiting, Loading, Unlocking
<1>. QED
  BY <1>1, AlwaysInOrder, PTL
=============================================================================
