-------------------------- MODULE ChevronLibProofs --------------------------
(***************************************************************************)
(* Proofs, for any number of pending calls, threads, keys and passwords, of *)
(* what the Node.js library claims of calls that no change of the same key  *)
(* overlaps (ChevronLib).  A call's story says how far such a call has got  *)
(* with its key; a step of another call keeps what the story is about       *)
(* unless it changes the same key.                                          *)
(***************************************************************************)
EXTENDS ChevronLib, FiniteSetTheorems, SequenceTheorems, TLAPS

(* An object that a fingerprint stands for holds a key of its primary key.  *)
IsKeyOf(key, p) ==
    /\ key \in Keys /\ key.fp = p
    /\ \E file \in Files : file.fp = p /\ file.subs = key.subs

MapsOK ==
    /\ heap \in [Ids -> Keys \cup {None}]
    /\ entities \in [Fps -> Ids \cup {None, Virtual, Public}]
    /\ decrypted \subseteq Fps
    /\ subKeyToKey \in [Fps -> Fps \cup {None}]
    /\ \A f \in Fps : entities[f] \in Ids => IsKeyOf(heap[entities[f]], Primary(f))
    /\ \A f \in Fps : subKeyToKey[f] # None =>
          \E file \in Files : subKeyToKey[f] = file.fp /\ f \in file.subs
    /\ \A file \in Files : entities[file.fp] # Virtual

(* What a call is about, and what a step of it relies on.                   *)
ShapeOK(r) ==
    /\ r.op \in Ops /\ r.at # "idle"
    /\ r.op \notin {"generateKey", "loadKey"} => r.fp \in Fps
    /\ r.op = "changeKeyPassword" \/ (r.op = "loadKey" /\ r.fp # None)
          => r.file \in Files /\ r.fp = r.file.fp
    /\ r.op \in {"unlockKey", "changeKeyPassword"} => r.current \in Passwords
    /\ r.op = "changeKeyPassword" => r.new \in Passwords
    /\ r.at \in {"load", "subkeys"} => r.op \in {"loadKey", "changeKeyPassword"}
    /\ r.at = "subkeys" => r.fp # None
    /\ r.at = "unlock" => r.op \in {"unlockKey", "changeKeyPassword"}
    /\ r.at \in {"look", "find", "sign"} => r.op = "signData"
    /\ r.at \in {"verify", "check"} => r.op = "verifySignature"
    /\ r.at = "generate" => r.op = "generateKey"
    /\ r.at \in {"get", "decrypt", "encrypt", "serialize", "delete"}
          => r.op = "changeKeyPassword"
    /\ r.ent # None <=> r.at \in {"decrypt", "encrypt", "serialize"}

HasKey(r) == r.op = "changeKeyPassword" /\
    r.at \in {"subkeys", "unlock", "get", "decrypt", "encrypt", "serialize", "delete"}

CallOK(c) ==
    /\ call[c] = Idle \/ ShapeOK(call[c])
    /\ call[c].ent # None => IsKeyOf(heap[call[c].ent], call[c].fp)
    /\ HasKey(call[c]) => entities[call[c].fp] \in Ids

QueueOK ==
    /\ queue \in Seq(Calls)
    /\ \A i \in 1 .. Len(queue) : call[queue[i]].at = "queued"
    /\ \A i, j \in 1 .. Len(queue) : queue[i] = queue[j] => i = j

(* While a call is quiet, none that changes its key is pending.             *)
Exclusive ==
    \A c, d \in Calls :
        c # d /\ call[c].quiet /\ Meets(call[c], call[d]) => ~Changes(call[d])

-----------------------------------------------------------------------------
(* The story of a quiet call.                                               *)
Accepts(r) ==
    /\ r.file.private /\ Decrypts(r.file.lock, r.current)
    /\ r.open \/ r.file.subs = {} \/ Decrypts(r.file.sublock, r.current)

Opened(r)  == IF r.open THEN r.file ELSE [r.file EXCEPT !.sublock = Plain]
Changed(r) == [Opened(r) EXCEPT !.lock = r.new]

SignStory(r) ==
    IF r.at = "done" THEN r.out = "ok" <=> r.open ELSE r.fp \in decrypted <=> r.open

UnlockStory(r) == r.at = "done" /\ r.out = "ok" => r.fp \in decrypted

ChangeStory(r) ==
    LET o == entities[r.fp]
    IN  /\ r.at \in {"queued", "load", "subkeys", "unlock"} => (r.fp \in decrypted <=> r.open)
        /\ r.at \in {"subkeys", "unlock"} => heap[o] = r.file
        /\ r.at \in {"get", "decrypt", "encrypt", "serialize", "delete"}
              => Accepts(r) /\ r.fp \in decrypted
        /\ r.at \in {"get", "decrypt"} => heap[o] = Opened(r)
        /\ r.at = "encrypt" => heap[o] = [Opened(r) EXCEPT !.lock = Plain]
        /\ r.at \in {"serialize", "delete"} => heap[o] = Changed(r)
        /\ r.at \in {"decrypt", "encrypt", "serialize"} => r.ent = o
        /\ r.at = "delete" => r.out = "ok" /\ r.result = Changed(r)
        /\ r.at = "done" =>
              IF r.out = "ok"
              THEN /\ Accepts(r) /\ r.result = Changed(r) /\ r.fp \notin decrypted
                   /\ o \in Ids /\ heap[o].lock = r.new
              ELSE ~Accepts(r) /\ (r.fp \in decrypted <=> r.open)

Story(r) == r.quiet /\ r.at # "idle" =>
    /\ r.op = "signData" => SignStory(r)
    /\ r.op = "unlockKey" => UnlockStory(r)
    /\ r.op = "changeKeyPassword" => ChangeStory(r)

IInv ==
    /\ MapsOK
    /\ call \in [Calls -> CallType]
    /\ \A c \in Calls : CallOK(c) /\ Story(call[c])
    /\ QueueOK /\ Exclusive /\ alive \in BOOLEAN

-----------------------------------------------------------------------------
LEMMA Values ==
    /\ None \notin Ids /\ None \notin Fps /\ None \notin Calls /\ None \notin Keys
    /\ Virtual \notin Ids /\ Public \notin Ids
    /\ None # Virtual /\ None # Public /\ Virtual # Public
    /\ \A file \in Files : file \in Keys /\ file.fp \in Fps /\ file.subs \subseteq Fps
  BY FilesAssumption, ValueAssumption, PointerAssumption DEF Ids, Keys

(* A subkey belongs to one primary key, and a primary key to itself.        *)
LEMMA PrimaryIs ==
    ASSUME NEW file \in Files
    PROVE  /\ Primary(file.fp) = file.fp
           /\ \A x \in file.subs : Primary(x) = file.fp /\ x # file.fp
  <1>1. Primary(file.fp) = file.fp
    BY SubkeyAssumption DEF Primary
  <1>2. ASSUME NEW x \in file.subs PROVE Primary(x) = file.fp /\ x # file.fp
    <2> DEFINE of == CHOOSE a \in Files : x \in a.subs
    <2>1. of \in Files /\ x \in of.subs
      BY Zenon
    <2>2. of.fp = file.fp
      BY <2>1, SubkeyAssumption
    <2>3. QED
      BY <2>2, SubkeyAssumption DEF Primary
  <1>3. QED
    BY <1>1, <1>2

(* What the keys of the maps and of the calls list are subkeys of them.     *)
LEMMA KeyIs ==
    ASSUME NEW key, NEW p, IsKeyOf(key, p)
    PROVE  /\ key \in Keys /\ key.fp = p /\ Primary(p) = p /\ p \in Fps /\ key.subs \subseteq Fps
           /\ \A x \in key.subs : Primary(x) = p /\ x # p
           /\ \A x \in key.subs, file \in Files : x # file.fp
  <1>1. PICK file \in Files : file.fp = p /\ file.subs = key.subs
    BY DEF IsKeyOf
  <1>2. QED
    BY <1>1, PrimaryIs, Values, SubkeyAssumption DEF IsKeyOf

(* A request as it is queued.                                               *)
Queued(r, open, quiet) == [r EXCEPT !.at = "queued", !.open = open, !.quiet = quiet]

LEMMA RequestIs ==
    ASSUME NEW r \in Requests, NEW open \in BOOLEAN, NEW quiet \in BOOLEAN,
           NEW q, q = Queued(r, open, quiet)
    PROVE  /\ q \in CallType /\ ShapeOK(q) /\ r.fp \in Fps \cup {None}
           /\ q.fp = r.fp /\ q.op = r.op /\ q.ent = None
           /\ q.at = "queued" /\ q.open = open /\ q.quiet = quiet
  <1> DEFINE Goal == /\ q \in CallType /\ ShapeOK(q) /\ r.fp \in Fps \cup {None}
                     /\ q.fp = r.fp /\ q.op = r.op /\ q.ent = None
                     /\ q.at = "queued" /\ q.open = open /\ q.quiet = quiet
  <1>1. CASE r \in {generateKey, loadNoKey}
    BY <1>1 DEF Queued, generateKey, loadNoKey, About, Idle, ShapeOK, Ops, CallType
  <1>2. ASSUME NEW f \in Fps, r = signData(f) \/ r = verifySignature(f)
        PROVE  Goal
    BY <1>2 DEF Queued, signData, verifySignature, About, Idle, ShapeOK, Ops, CallType
  <1>3. ASSUME NEW f \in Fps, NEW pw \in Passwords, r = unlockKey(f, pw)
        PROVE  Goal
    BY <1>3 DEF Queued, unlockKey, About, Idle, ShapeOK, Ops, CallType
  <1>4. ASSUME NEW file \in Files, r = loadKey(file)
        PROVE  Goal
    BY <1>4, Values DEF Queued, loadKey, About, Idle, ShapeOK, Ops, CallType
  <1>5. ASSUME NEW file \in Files, NEW pw \in Passwords, NEW new \in Passwords,
               r = changeKeyPassword(file, pw, new)
        PROVE  Goal
    BY <1>5, Values DEF Queued, changeKeyPassword, About, Idle, ShapeOK, Ops, CallType
  <1>6. QED
    <2> HIDE DEF Goal
    <2>1. Goal
      BY <1>1, <1>2, <1>3, <1>4, <1>5, RequestsAssumption DEF Goal
    <2>2. QED
      BY <2>1 DEF Goal

LEMMA InitOK == Init => IInv
  <1> SUFFICES ASSUME Init PROVE IInv
    OBVIOUS
  <1>1. MapsOK
    BY Values DEF Init, MapsOK
  <1>2. call \in [Calls -> CallType] /\ \A c \in Calls : CallOK(c) /\ Story(call[c])
    BY DEF Init, Idle, CallType, CallOK, Story, HasKey
  <1>3. QueueOK
    BY EmptySeq DEF Init, QueueOK
  <1>4. Exclusive
    BY DEF Init, Exclusive, Idle, Meets
  <1>5. QED
    BY <1>1, <1>2, <1>3, <1>4 DEF Init, IInv

-----------------------------------------------------------------------------
(* What a step of a call leaves to the story of a fingerprint.              *)
Keeps(f) ==
    /\ f \in decrypted' <=> f \in decrypted
    /\ entities[f] \in Ids => /\ entities'[f] = entities[f]
                             /\ heap'[entities[f]] = heap[entities[f]]

Same(d) == /\ call'[d].op = call[d].op /\ call'[d].fp = call[d].fp
           /\ call'[d].quiet = call[d].quiet

(* What a step of call d owes to the maps and to the other calls.           *)
Owes(d) ==
    /\ MapsOK'
    /\ \A c \in Calls \ {d} : call[c].ent # None => IsKeyOf(heap'[call[c].ent], call[c].fp)
    /\ \A file \in Files : entities[file.fp] \in Ids => entities'[file.fp] \in Ids
    /\ \A f \in Fps : Keeps(f) \/ (/\ Changes(call[d]) /\ call[d].fp # None
                               /\ Primary(f) = Primary(call[d].fp))

StepOK(d) ==
    /\ Owes(d)
    /\ call' \in [Calls -> CallType]
    /\ \A c \in Calls \ {d} : call'[c] = call[c]
    /\ CallOK(d)' /\ Story(call[d])'
    /\ call[d].at \notin {"idle", "queued"} /\ call'[d].at # "queued"
    /\ call'[d] = Idle \/ Same(d)
    /\ UNCHANGED <<queue, alive>>

(* A story goes on as long as its key is kept.                              *)
LEMMA StoryKept ==
    ASSUME IInv, NEW c \in Calls, call'[c] = call[c], Keeps(call[c].fp)
    PROVE  Story(call[c])'
  <1> DEFINE r == call[c]
  <1>1. Story(r) /\ CallOK(c)
    BY DEF IInv
  <1>2. (r.fp \in decrypted' <=> r.fp \in decrypted)
    BY DEF Keeps
  <1>3. SUFFICES ASSUME r.quiet, r.at # "idle"
                 PROVE  /\ r.op = "signData" => SignStory(r)'
                        /\ r.op = "unlockKey" => UnlockStory(r)'
                        /\ r.op = "changeKeyPassword" => ChangeStory(r)'
    BY DEF Story
  <1>4. r.op = "signData" => SignStory(r)'
    BY <1>1, <1>2, <1>3 DEF Story, SignStory
  <1>5. r.op = "unlockKey" => UnlockStory(r)'
    BY <1>1, <1>2, <1>3 DEF Story, UnlockStory
  <1>6. ASSUME r.op = "changeKeyPassword" PROVE ChangeStory(r)'
    <2>1. ChangeStory(r)
      BY <1>1, <1>3, <1>6 DEF Story
    <2>2. ASSUME entities[r.fp] \in Ids PROVE ChangeStory(r)'
      <3>1. entities'[r.fp] = entities[r.fp] /\ heap'[entities[r.fp]] = heap[entities[r.fp]]
        BY <2>2 DEF Keeps
      <3>2. QED
        BY <1>2, <2>1, <2>2, <3>1 DEF ChangeStory
    <2>3. ASSUME entities[r.fp] \notin Ids PROVE ChangeStory(r)'
      <3>1. r.at \notin {"subkeys", "unlock", "get", "decrypt", "encrypt", "serialize", "delete"}
        BY <1>1, <1>6, <2>3 DEF CallOK, HasKey
      <3>2. r.at = "done" => r.out # "ok"
        BY <2>1, <2>3 DEF ChangeStory
      <3>3. QED
        BY <1>2, <2>1, <3>1, <3>2 DEF ChangeStory
    <2>4. QED
      BY <2>2, <2>3
  <1>7. QED
    BY <1>4, <1>5, <1>6

LEMMA OneStep ==
    ASSUME IInv, NEW d \in Calls, StepOK(d)
    PROVE  IInv'
  <1>1. ASSUME NEW c \in Calls, c # d
        PROVE  CallOK(c)' /\ Story(call[c])'
    <2>1. call'[c] = call[c] /\ CallOK(c) /\ Story(call[c])
      BY <1>1 DEF IInv, StepOK, Owes
    <2>2. CallOK(c)'
      <3>1. HasKey(call[c]) => entities'[call[c].fp] \in Ids
        BY <2>1 DEF CallOK, HasKey, ShapeOK, StepOK, Owes, Idle
      <3>2. call[c].ent # None => IsKeyOf(heap'[call[c].ent], call[c].fp)
        BY <1>1 DEF StepOK, Owes
      <3>3. QED
        BY <2>1, <3>1, <3>2 DEF CallOK, HasKey
    <2>3. Story(call[c])'
      <3>1. CASE call[c] = Idle
        BY <2>1, <3>1 DEF Idle, Story
      <3>2. CASE ShapeOK(call[c]) /\ call[c].fp \notin Fps
        BY <2>1, <3>2 DEF Story, ShapeOK
      <3>3. CASE ShapeOK(call[c]) /\ call[c].fp \in Fps
        <4>1. call[c].fp \in Fps
          BY <3>3
        <4>2. CASE Keeps(call[c].fp)
          BY <2>1, <4>2, StoryKept
        <4>3. CASE /\ Changes(call[d]) /\ call[d].fp # None
                   /\ Primary(call[c].fp) = Primary(call[d].fp)
          <5>1. Meets(call[c], call[d])
            BY <4>1, <4>3, Values DEF Meets
          <5>2. call[c].quiet = FALSE
            <6>1. call[c].quiet \in BOOLEAN
              BY DEF IInv, CallType
            <6>2. QED
              BY <1>1, <4>3, <5>1, <6>1 DEF IInv, Exclusive
          <5>3. QED
            BY <2>1, <5>2 DEF Story
        <4>4. QED
          BY <4>1, <4>2, <4>3 DEF StepOK, Owes
      <3>4. QED
        BY <2>1, <3>1, <3>2, <3>3 DEF CallOK
    <2>4. QED
      BY <2>2, <2>3
  <1>2. QueueOK'
    <2>1. ASSUME NEW i \in 1 .. Len(queue) PROVE call'[queue[i]].at = "queued"
      <3>1. queue[i] \in Calls /\ call[queue[i]].at = "queued"
        BY ElementOfSeq DEF IInv, QueueOK
      <3>2. queue[i] # d
        BY <3>1 DEF StepOK, Owes
      <3>3. QED
        BY <3>1, <3>2 DEF StepOK, Owes
    <2>2. queue' = queue
      BY DEF StepOK, Owes
    <2>3. QED
      BY <2>1, <2>2 DEF QueueOK, IInv
  <1>3. Exclusive'
    <2> SUFFICES ASSUME NEW a \in Calls, NEW b \in Calls, a # b, call'[a].quiet,
                        Meets(call'[a], call'[b])
                 PROVE  ~Changes(call'[b])
      BY DEF Exclusive, Meets, Changes
    <2>1. ASSUME NEW c \in Calls, call'[c].fp # None PROVE Same(c)
      BY <2>1 DEF StepOK, Owes, Same, Idle
    <2>2. Same(a) /\ Same(b)
      BY <2>1 DEF Meets
    <2>3. call[a].quiet /\ Meets(call[a], call[b])
      BY <2>2 DEF Same, Meets
    <2>4. ~Changes(call[b])
      BY <2>3 DEF IInv, Exclusive
    <2>5. QED
      BY <2>2, <2>4 DEF Changes, Same
  <1>4. QED
    BY <1>1, <1>2, <1>3 DEF StepOK, Owes, IInv

-----------------------------------------------------------------------------
(* What the definitions of steps have in common.                            *)
LEMMA CallIs ==
    ASSUME IInv, NEW d \in Calls, call[d].at # "idle"
    PROVE  /\ ShapeOK(call[d]) /\ CallOK(d) /\ Story(call[d])
           /\ call[d] \in CallType /\ call[d] # Idle
  BY DEF IInv, CallOK, Idle

(* A step takes a call from what it is to q.                                *)
LEMMA FromTo ==
    ASSUME IInv, NEW d \in Calls, NEW q \in CallType, ShapeOK(q),
           call' = [call EXCEPT ![d] = q], UNCHANGED <<queue, alive>>,
           call[d].at \notin {"idle", "queued"}, q.at # "queued",
           q.op = call[d].op, q.fp = call[d].fp, q.quiet = call[d].quiet,
           q.ent # None => IsKeyOf(heap'[q.ent], q.fp),
           HasKey(q) => entities'[q.fp] \in Ids
    PROVE  /\ Owes(d) /\ Story(call[d])' => StepOK(d)
           /\ call'[d] = q
  <1>1. call \in [Calls -> CallType]
    BY DEF IInv
  <1>2. call'[d] = q /\ (\A c \in Calls \ {d} : call'[c] = call[c])
    BY <1>1
  <1>3. call' \in [Calls -> CallType]
    BY <1>1
  <1>4. CallOK(d)'
    BY <1>2 DEF CallOK, HasKey
  <1>5. QED
    BY <1>2, <1>3, <1>4 DEF StepOK, Same

(* A step that leaves the maps alone takes a call from r to q.              *)
LEMMA CallStep ==
    ASSUME IInv, NEW d \in Calls, UNCHANGED <<manager, queue, alive>>,
           NEW q, call' = [call EXCEPT ![d] = q],
           call[d].at \notin {"idle", "queued"},
           \/ q = Idle
           \/ /\ q \in CallType /\ ShapeOK(q) /\ q.at # "queued"
              /\ q.op = call[d].op /\ q.fp = call[d].fp /\ q.quiet = call[d].quiet
              /\ q.ent # None => IsKeyOf(heap[q.ent], q.fp)
              /\ HasKey(q) => entities[q.fp] \in Ids
              /\ Story(q)
    PROVE  StepOK(d)
  <1>1. call \in [Calls -> CallType] /\ MapsOK
    BY DEF IInv
  <1>2. call'[d] = q /\ \A c \in Calls \ {d} : call'[c] = call[c]
    BY <1>1
  <1>3. Idle \in CallType /\ Idle.ent = None /\ Idle.at = "idle"
    BY DEF Idle, CallType
  <1>4. q \in CallType /\ call' \in [Calls -> CallType]
    <2>1. q \in CallType
      BY <1>3
    <2>2. QED
      BY <1>1, <2>1
  <1>5. /\ heap' = heap /\ entities' = entities /\ decrypted' = decrypted
        /\ subKeyToKey' = subKeyToKey /\ queue' = queue /\ alive' = alive
    BY DEF manager
  <1>6. CallOK(d)'
    <2>1. CASE q = Idle
      BY <1>2, <1>3, <2>1 DEF CallOK, HasKey
    <2>2. CASE q # Idle
      BY <1>2, <1>5, <2>2 DEF CallOK, HasKey
    <2>3. QED
      BY <2>1, <2>2
  <1>7. Story(call[d])'
    <2>1. CASE q = Idle
      BY <1>2, <1>3, <2>1 DEF Story
    <2>2. CASE q # Idle
      <3>1. Story(q) /\ call'[d] = q
        BY <1>2, <2>2
      <3>2. /\ SignStory(q) => SignStory(call[d])'
            /\ UnlockStory(q) => UnlockStory(call[d])'
            /\ ChangeStory(q) => ChangeStory(call[d])'
        BY <1>5, <3>1 DEF SignStory, UnlockStory, ChangeStory
      <3>3. QED
        BY <3>1, <3>2 DEF Story
    <2>3. QED
      BY <2>1, <2>2
  <1>8. MapsOK' /\ (\A f \in Fps : Keeps(f))
    BY <1>1, <1>5 DEF MapsOK, Keeps
  <1>9. \A c \in Calls \ {d} : call[c].ent # None => IsKeyOf(heap'[call[c].ent], call[c].fp)
    BY <1>5 DEF IInv, CallOK
  <1>10. call'[d].at # "queued" /\ (call'[d] = Idle \/ Same(d))
    <2>1. CASE q = Idle
      BY <1>2, <1>3, <2>1
    <2>2. CASE q # Idle
      BY <1>2, <2>2 DEF Same
    <2>3. QED
      BY <2>1, <2>2
  <1>11. QED
    BY <1>2, <1>4, <1>5, <1>6, <1>7, <1>8, <1>9, <1>10 DEF StepOK, Owes

LEMMA EntityIs ==
    ASSUME NEW f \in Fps, entities[f] \in Ids
    PROVE  Entity(f) = heap[entities[f]]
  BY Values DEF Entity

(* For a quiet call, unlocking accepts exactly what it is to accept.        *)
LEMMA OpensIs ==
    ASSUME IInv, NEW d \in Calls, call[d].at = "unlock", call[d].quiet,
           call[d].op = "changeKeyPassword"
    PROVE  /\ Opens(d) <=> Accepts(call[d])
           /\ call[d].fp \in decrypted <=> call[d].open
           /\ call[d].fp \in Fps /\ entities[call[d].fp] \in Ids
           /\ heap[entities[call[d].fp]] = call[d].file /\ call[d].file \in Files
  <1> DEFINE r == call[d]
  <1>1. ShapeOK(r) /\ CallOK(d) /\ Story(r)
    BY CallIs
  <1>2. r.fp \in Fps /\ entities[r.fp] \in Ids /\ r.file \in Files
    BY <1>1 DEF ShapeOK, CallOK, HasKey
  <1>3. heap[entities[r.fp]] = r.file /\ (r.fp \in decrypted <=> r.open)
    BY <1>1 DEF Story, ChangeStory
  <1>4. Entity(r.fp) = r.file /\ r.file # None
    BY <1>2, <1>3, EntityIs, Values
  <1>5. QED
    BY <1>2, <1>3, <1>4 DEF Opens, Accepts

LEMMA UnlockFailsStep ==
    ASSUME IInv, NEW d \in Calls, UnlockFails(d)
    PROVE  StepOK(d)
  <1> DEFINE r == call[d]
             q == [r EXCEPT !.at = "done", !.out = "error"]
  <1>1. /\ r.at = "unlock" /\ ~Opens(d) /\ UNCHANGED <<manager, queue, alive>>
        /\ call' = [call EXCEPT ![d] = q]
    BY DEF UnlockFails, At, Finish
  <1>2. r \in CallType /\ ShapeOK(r)
    BY <1>1, CallIs
  <1>3. q \in CallType /\ ShapeOK(q) /\ q.ent = None
    BY <1>2, <1>1 DEF CallType, ShapeOK
  <1>4. Story(q)
    <2>1. ASSUME r.quiet, r.op = "changeKeyPassword" PROVE ChangeStory(q)
      <3>1. ~Accepts(r) /\ (r.fp \in decrypted <=> r.open)
        BY <1>1, <2>1, OpensIs
      <3>2. ~Accepts(q) /\ (q.fp \in decrypted <=> q.open)
        BY <1>2, <3>1 DEF Accepts, CallType
      <3>3. q.at = "done" /\ q.out = "error"
        BY <1>2 DEF CallType
      <3>4. QED
        BY <3>2, <3>3 DEF ChangeStory
    <2>2. QED
      BY <1>1, <1>2, <2>1 DEF Story, UnlockStory, ShapeOK, CallType
  <1>5. q.op = r.op /\ q.fp = r.fp /\ q.quiet = r.quiet /\ q.at = "done"
    BY <1>2 DEF CallType
  <1>6. QED
    BY <1>1, <1>3, <1>4, <1>5, CallStep DEF HasKey

LEMMA AlreadyUnlockedStep ==
    ASSUME IInv, NEW d \in Calls, AlreadyUnlocked(d)
    PROVE  StepOK(d)
  <1> DEFINE r == call[d]
             q == IF r.op = "unlockKey" THEN [r EXCEPT !.at = "done", !.out = "ok"]
                  ELSE [r EXCEPT !.at = "get"]
  <1>1. /\ r.at = "unlock" /\ Opens(d) /\ r.fp \in decrypted
        /\ UNCHANGED <<manager, queue, alive>> /\ call' = [call EXCEPT ![d] = q]
    BY DEF AlreadyUnlocked, Unlocked, At, Finish, Goto
  <1>2. r \in CallType /\ ShapeOK(r) /\ CallOK(d)
    BY <1>1, CallIs
  <1>3. /\ q \in CallType /\ ShapeOK(q) /\ q.ent = None /\ q.at \in {"done", "get"}
        /\ q.op = r.op /\ q.fp = r.fp /\ q.quiet = r.quiet
    BY <1>2, <1>1 DEF CallType, ShapeOK, Steps
  <1>4. HasKey(q) => entities[q.fp] \in Ids
    BY <1>1, <1>2, <1>3 DEF HasKey, CallOK
  <1>5. Story(q)
    <2>1. ASSUME r.quiet, r.op = "changeKeyPassword" PROVE ChangeStory(q)
      <3>1. Accepts(r) /\ r.open /\ heap[entities[r.fp]] = r.file
        BY <1>1, <2>1, OpensIs
      <3>2. q.at = "get" /\ q.file = r.file /\ q.current = r.current /\ q.open = r.open
        BY <1>2, <2>1 DEF CallType
      <3>3. Accepts(q) /\ Opened(q) = r.file
        BY <3>1, <3>2 DEF Accepts, Opened
      <3>4. QED
        BY <1>1, <1>3, <3>1, <3>2, <3>3 DEF ChangeStory
    <2>2. QED
      BY <1>1, <1>2, <1>3, <2>1 DEF Story, UnlockStory, ShapeOK
  <1>6. QED
    BY <1>1, <1>3, <1>4, <1>5, CallStep

LEMMA SignStep ==
    ASSUME IInv, NEW d \in Calls, SignData(d)
    PROVE  StepOK(d)
  <1> DEFINE r == call[d]
             q == CASE r.at # "find" /\ r.fp \in decrypted -> [r EXCEPT !.at = "done", !.out = "ok"]
                    [] r.at = "look" /\ r.fp \notin decrypted -> [r EXCEPT !.at = "find"]
                    [] r.at = "find" /\ (r.fp \in decrypted \/ entities[r.fp] # None)
                          -> [r EXCEPT !.at = "sign"]
                    [] OTHER -> [r EXCEPT !.at = "done", !.out = "error"]
  <1>1. r.at \in {"look", "find", "sign"} /\ UNCHANGED <<manager, queue, alive>>
    BY DEF SignData, SignLooks, SignFinds, At
  <1>2. r \in CallType /\ ShapeOK(r) /\ Story(r)
    BY <1>1, CallIs
  <1>3. call' = [call EXCEPT ![d] = q]
    <2>1. CASE SignLooks(d, "look", Goto(d, "find"))
      BY <2>1 DEF SignLooks, Goto, Finish, At
    <2>2. CASE SignFinds(d)
      BY <2>2 DEF SignFinds, Goto, Finish, At
    <2>3. CASE SignLooks(d, "sign", Finish(d, "error"))
      BY <2>3 DEF SignLooks, Finish, At
    <2>4. QED
      BY <2>1, <2>2, <2>3 DEF SignData
  <1>4. /\ q \in CallType /\ ShapeOK(q) /\ q.ent = None /\ q.at \in {"find", "sign", "done"}
        /\ q.op = r.op /\ q.fp = r.fp /\ q.quiet = r.quiet /\ q.open = r.open
    <2>1. \/ \E out \in {"ok", "error"} : q = [r EXCEPT !.at = "done", !.out = out]
          \/ \E step \in {"find", "sign"} : q = [r EXCEPT !.at = step]
      BY Zenon
    <2> HIDE DEF q
    <2>2. ASSUME NEW out \in {"ok", "error"}, q = [r EXCEPT !.at = "done", !.out = out]
          PROVE  q.at = "done" /\ q \in CallType /\ ShapeOK(q)
      BY <1>1, <1>2, <2>2 DEF CallType, ShapeOK
    <2>3. ASSUME NEW step \in {"find", "sign"}, q = [r EXCEPT !.at = step]
          PROVE  q.at = step /\ q \in CallType /\ ShapeOK(q)
      BY <1>1, <1>2, <2>3 DEF CallType, ShapeOK, Steps
    <2>4. r.ent = None
      BY <1>1, <1>2 DEF ShapeOK
    <2>5. q.ent = r.ent /\ q.op = r.op /\ q.fp = r.fp /\ q.quiet = r.quiet /\ q.open = r.open
      BY <1>2, <2>1 DEF CallType
    <2>6. QED
      BY <2>1, <2>2, <2>3, <2>4, <2>5
  <1>5. q.at = "done" => q.out \in {"ok", "error"} /\ (q.out = "ok" <=> r.fp \in decrypted)
    BY <1>1, <1>2 DEF CallType
  <1>6. Story(q)
    BY <1>1, <1>2, <1>4, <1>5 DEF Story, SignStory, ShapeOK
  <1>7. QED
    BY <1>1, <1>3, <1>4, <1>6, CallStep DEF HasKey, ShapeOK

(* Steps about which there is no story.                                     *)
LEMMA PlainStep ==
    ASSUME IInv, NEW d \in Calls,
           LoadFails(d) \/ CheckSignature(d) \/ GenerateKey(d) \/ Settle(d)
    PROVE  StepOK(d)
  <1> DEFINE r == call[d]
  <1>1. CASE Settle(d)
    <2>1. call' = [call EXCEPT ![d] = Idle] /\ r.at = "done" /\ UNCHANGED <<manager, queue, alive>>
      BY <1>1 DEF Settle, At
    <2>2. QED
      BY <2>1, CallStep
  <1>2. CASE LoadFails(d) \/ CheckSignature(d) \/ GenerateKey(d)
    <2>1. PICK out \in {"ok", "error"} : call' = [call EXCEPT ![d].at = "done", ![d].out = out]
      BY <1>2 DEF LoadFails, CheckSignature, GenerateKey, Finish
    <2>2. /\ r.at \in {"load", "check", "generate"} /\ (r.at = "load" => r.fp = None)
          /\ UNCHANGED <<manager, queue, alive>>
      BY <1>2 DEF LoadFails, CheckSignature, GenerateKey, At
    <2>3. PICK q : q = [r EXCEPT !.at = "done", !.out = out]
      OBVIOUS
    <2>4. call' = [call EXCEPT ![d] = q]
      BY <2>1, <2>3
    <2>5. r \in CallType /\ ShapeOK(r)
      BY <2>2, CallIs
    <2>6. /\ q \in CallType /\ ShapeOK(q) /\ q.ent = None /\ q.at = "done"
          /\ q.op = r.op /\ q.fp = r.fp /\ q.quiet = r.quiet
          /\ q.op \in {"loadKey", "verifySignature", "generateKey"}
      BY <2>2, <2>3, <2>5, Values DEF CallType, ShapeOK
    <2>7. Story(q) /\ ~HasKey(q)
      BY <2>6 DEF Story, HasKey
    <2>8. QED
      BY <2>2, <2>4, <2>6, <2>7, CallStep
  <1>3. QED
    BY <1>1, <1>2

(* GetPublicKey gives a fingerprint an object only if it had none.          *)
LEMMA GetPublicKeyKeeps ==
    ASSUME IInv, NEW f \in Fps, NEW o \in Found(f), GetPublicKey(f, o)
    PROVE  /\ MapsOK' /\ heap' = heap
           /\ \A file \in Files : entities[file.fp] \in Ids => entities'[file.fp] \in Ids
           /\ \A x \in Fps : Keeps(x)
  <1>1. /\ entities' = [entities EXCEPT ![f] = o] /\ MapsOK
        /\ heap' = heap /\ decrypted' = decrypted /\ subKeyToKey' = subKeyToKey
    BY DEF GetPublicKey, IInv
  <1>2. entities[f] # None => o = entities[f]
    BY DEF Found
  <1>3. \A x \in Fps : entities[x] # None => entities'[x] = entities[x]
    BY <1>1, <1>2 DEF MapsOK
  <1>4. /\ o \in Ids \cup {None, Virtual, Public}
        /\ o \in Ids => IsKeyOf(heap[o], Primary(f))
        /\ entities[f] = None => o # Virtual
    <2>1. CASE entities[f] # None
      BY <1>1, <1>2, <2>1 DEF MapsOK
    <2>2. CASE entities[f] = None /\ subKeyToKey[f] # None
      <3>1. PICK file \in Files : subKeyToKey[f] = file.fp /\ f \in file.subs
        BY <1>1, <2>2 DEF MapsOK
      <3>2. o = entities[file.fp] /\ file.fp \in Fps
        BY <2>2, <3>1, Values DEF Found
      <3>3. Primary(f) = file.fp /\ Primary(file.fp) = file.fp
        BY <3>1, PrimaryIs
      <3>4. QED
        BY <1>1, <3>2, <3>3 DEF MapsOK
    <2>3. CASE entities[f] = None /\ subKeyToKey[f] = None
      BY <2>3, Values DEF Found
    <2>4. QED
      BY <2>1, <2>2, <2>3
  <1>5. \A file \in Files : entities'[file.fp] # Virtual
    <2> SUFFICES ASSUME NEW file \in Files PROVE entities'[file.fp] # Virtual
      OBVIOUS
    <2>1. entities[file.fp] # Virtual /\ file.fp \in Fps
      BY <1>1, Values DEF MapsOK
    <2>2. QED
      BY <1>1, <1>3, <1>4, <2>1 DEF MapsOK
  <1>6. MapsOK'
    <2>1. entities' \in [Fps -> Ids \cup {None, Virtual, Public}]
      BY <1>1, <1>4 DEF MapsOK
    <2>2. \A x \in Fps : entities'[x] \in Ids => IsKeyOf(heap[entities'[x]], Primary(x))
      BY <1>1, <1>4 DEF MapsOK
    <2>3. QED
      BY <1>1, <1>5, <2>1, <2>2 DEF MapsOK
  <1>7. \A file \in Files : entities[file.fp] \in Ids => entities'[file.fp] \in Ids
    BY <1>3, Values
  <1>8. \A x \in Fps : Keeps(x)
    BY <1>1, <1>3, Values DEF Keeps
  <1>9. QED
    BY <1>1, <1>6, <1>7, <1>8

LEMMA VerifyStep ==
    ASSUME IInv, NEW d \in Calls, VerifySignature(d)
    PROVE  StepOK(d)
  <1> DEFINE r == call[d]
  <1>1. r.at = "verify"
    BY DEF VerifySignature, At
  <1>2. r \in CallType /\ ShapeOK(r) /\ r.fp \in Fps
    BY <1>1, CallIs DEF ShapeOK
  <1>3. PICK o \in Found(r.fp) :
            /\ GetPublicKey(r.fp, o)
            /\ IF o = None THEN Finish(d, "error") ELSE Goto(d, "check")
    BY DEF VerifySignature
  <1>4. PICK q : /\ q = [r EXCEPT !.at = "done", !.out = "error"] \/ q = [r EXCEPT !.at = "check"]
                 /\ call' = [call EXCEPT ![d] = q]
    BY <1>3 DEF Finish, Goto
  <1>5. /\ q \in CallType /\ ShapeOK(q) /\ q.ent = None /\ q.at \in {"check", "done"}
        /\ q.op = r.op /\ q.fp = r.fp /\ q.quiet = r.quiet /\ q.op = "verifySignature"
    <2>1. CASE q = [r EXCEPT !.at = "done", !.out = "error"]
      BY <1>1, <1>2, <2>1 DEF CallType, ShapeOK
    <2>2. CASE q = [r EXCEPT !.at = "check"]
      BY <1>1, <1>2, <2>2 DEF CallType, ShapeOK, Steps
    <2>3. QED
      BY <1>4, <2>1, <2>2
  <1>6. /\ call'[d] = q /\ \A c \in Calls \ {d} : call'[c] = call[c]
        /\ call' \in [Calls -> CallType]
    BY <1>4, <1>5 DEF IInv
  <1>7. CallOK(d)' /\ Story(call[d])' /\ Same(d)
    BY <1>5, <1>6 DEF CallOK, HasKey, Story, Same
  <1>8. \A c \in Calls \ {d} : call[c].ent # None => IsKeyOf(heap'[call[c].ent], call[c].fp)
    BY <1>2, <1>3, GetPublicKeyKeeps DEF IInv, CallOK
  <1>9. UNCHANGED <<queue, alive>>
    BY <1>3 DEF GetPublicKey
  <1>10. QED
    BY <1>1, <1>2, <1>3, <1>5, <1>6, <1>7, <1>8, <1>9, GetPublicKeyKeeps DEF StepOK, Owes

(* The steps of reencrypting that take an object from the maps and give it  *)
(* back.                                                                    *)
LEMMA GetKeyStep ==
    ASSUME IInv, NEW d \in Calls, GetKey(d)
    PROVE  StepOK(d)
  <1> DEFINE r == call[d]
             o == entities[r.fp]
             q == IF heap[o].private THEN [r EXCEPT !.at = "decrypt", !.ent = o]
                  ELSE [r EXCEPT !.at = "delete", !.out = "error"]
  <1>1. /\ r.at = "get" /\ UNCHANGED <<manager, queue, alive>>
        /\ call' = [call EXCEPT ![d] = q]
    BY DEF GetKey, At
  <1>2. /\ r \in CallType /\ ShapeOK(r) /\ CallOK(d) /\ Story(r)
        /\ r.op = "changeKeyPassword" /\ r.fp \in Fps /\ r.file \in Files /\ r.fp = r.file.fp
    BY <1>1, CallIs DEF ShapeOK
  <1>3. o \in Ids /\ IsKeyOf(heap[o], r.fp)
    <2>1. o \in Ids
      BY <1>1, <1>2 DEF CallOK, HasKey
    <2>2. Primary(r.fp) = r.fp
      BY <1>2, PrimaryIs
    <2>3. QED
      BY <1>2, <2>1, <2>2 DEF IInv, MapsOK
  <1>4. /\ q \in CallType /\ ShapeOK(q) /\ q.at \in {"decrypt", "delete"}
        /\ q.op = r.op /\ q.fp = r.fp /\ q.quiet = r.quiet
        /\ q.ent # None => q.ent = o
    BY <1>1, <1>2, <1>3, Values DEF CallType, ShapeOK, Steps
  <1>5. Story(q)
    <2>1. ASSUME r.quiet PROVE ChangeStory(q)
      <3>1. ChangeStory(r)
        BY <1>1, <1>2, <2>1 DEF Story
      <3>2. Accepts(r) /\ r.fp \in decrypted /\ heap[o] = Opened(r)
        BY <1>1, <3>1 DEF ChangeStory
      <3>3. heap[o].private
        BY <1>2, <3>2, FilesAssumption DEF Accepts, Opened, Keys
      <3>4. /\ q = [r EXCEPT !.at = "decrypt", !.ent = o] /\ q.at = "decrypt" /\ q.ent = o
            /\ q.file = r.file /\ q.current = r.current /\ q.open = r.open
        BY <1>2, <3>3 DEF CallType
      <3>5. Accepts(q) /\ Opened(q) = Opened(r)
        BY <3>2, <3>4 DEF Accepts, Opened
      <3>6. QED
        BY <1>4, <3>2, <3>4, <3>5 DEF ChangeStory
    <2>2. QED
      BY <1>2, <1>4, <2>1 DEF Story
  <1>6. QED
    BY <1>1, <1>2, <1>3, <1>4, <1>5, CallStep

(* Another lock, and nothing else, makes a key of the same primary key.     *)
LEMMA LockedIs ==
    ASSUME NEW key, NEW p, IsKeyOf(key, p), NEW pw \in Passwords \cup {Plain}
    PROVE  /\ IsKeyOf([key EXCEPT !.lock = pw], p)
           /\ [key EXCEPT !.lock = pw].lock = pw
           /\ IsKeyOf([key EXCEPT !.sublock = pw], p)
  BY DEF IsKeyOf, Keys

(* Steps that work on the object of a call: the maps and the other calls    *)
(* keep theirs, up to the lock of that object.                              *)
LEMMA ObjectKeeps ==
    ASSUME IInv, NEW d \in Calls, call[d].at \in {"decrypt", "encrypt", "serialize"},
           UNCHANGED <<entities, decrypted, subKeyToKey>>,
           NEW pw \in Passwords \cup {Plain}, NEW h \in {heap, Locked(d, pw)},
           heap' \in [Ids -> Keys \cup {None}],
           \A i \in Ids \cap Used(entities, Calls \ {d}) : heap'[i] = h[i]
    PROVE  Owes(d)
  <1> DEFINE r == call[d]
  <1>1. /\ r.op = "changeKeyPassword" /\ r.file \in Files /\ r.fp = r.file.fp /\ r.ent \in Ids
        /\ IsKeyOf(heap[r.ent], r.fp) /\ MapsOK
    BY CallIs, Values DEF ShapeOK, CallOK, CallType, IInv
  <1>2. \A i \in Ids : h[i] = IF h # heap /\ i = r.ent
                              THEN [heap[i] EXCEPT !.lock = pw] ELSE heap[i]
    BY <1>1 DEF Locked, MapsOK
  <1>3. ASSUME NEW i \in Ids, NEW p \in Fps, IsKeyOf(heap[i], p) PROVE IsKeyOf(h[i], p)
    <2>1. IsKeyOf([heap[i] EXCEPT !.lock = pw], p)
      BY <1>3, LockedIs, Zenon
    <2>2. QED
      BY <1>2, <1>3, <2>1
  <1>4. \A f \in Fps : entities[f] \in Ids => heap'[entities[f]] = h[entities[f]]
    BY DEF Used
  <1>5. ASSUME NEW f \in Fps, entities[f] \in Ids PROVE IsKeyOf(heap'[entities[f]], Primary(f))
    <2>1. IsKeyOf(heap[entities[f]], Primary(f)) /\ Primary(f) \in Fps
      BY <1>1, <1>5, KeyIs DEF MapsOK
    <2>2. QED
      BY <1>3, <1>4, <1>5, <2>1
  <1>6. MapsOK'
    BY <1>1, <1>5 DEF MapsOK
  <1>7. ASSUME NEW c \in Calls \ {d}, call[c].ent # None
        PROVE  IsKeyOf(heap'[call[c].ent], call[c].fp)
    <2>1. call[c].ent \in Ids /\ IsKeyOf(heap[call[c].ent], call[c].fp)
      BY <1>7 DEF IInv, CallOK, CallType
    <2>2. call[c].ent \in Used(entities, Calls \ {d}) /\ call[c].fp \in Fps
      BY <2>1, KeyIs DEF Used
    <2>3. QED
      BY <1>3, <2>1, <2>2
  <1>8. ASSUME NEW f \in Fps, Primary(f) # Primary(r.fp) PROVE Keeps(f)
    <2>1. ASSUME entities[f] \in Ids PROVE entities[f] # r.ent
      <3>1. IsKeyOf(heap[entities[f]], Primary(f))
        BY <1>1, <2>1 DEF MapsOK
      <3>2. Primary(r.fp) = r.fp
        BY <1>1, PrimaryIs
      <3>3. QED
        BY <1>1, <1>8, <3>1, <3>2 DEF IsKeyOf
    <2>2. QED
      BY <1>2, <1>4, <2>1 DEF Keeps
  <1>9. Changes(r) /\ r.fp # None
    BY <1>1, Values DEF Changes
  <1>10. QED
    BY <1>4, <1>6, <1>7, <1>8, <1>9 DEF Owes

(* What holds of a call that has an object.                                 *)
LEMMA ObjectIs ==
    ASSUME IInv, NEW d \in Calls, call[d].at \in {"decrypt", "encrypt", "serialize"}
    PROVE  LET r == call[d]
           IN  /\ r \in CallType /\ ShapeOK(r) /\ r.ent \in Ids /\ IsKeyOf(heap[r.ent], r.fp)
               /\ r.op = "changeKeyPassword" /\ r.fp \in Fps /\ entities[r.fp] \in Ids
               /\ r.new \in Passwords /\ heap \in [Ids -> Keys \cup {None}]
               /\ r.quiet => ChangeStory(r)
  BY CallIs, Values DEF ShapeOK, CallOK, CallType, HasKey, IInv, MapsOK, Story

(* Setting its lock makes another heap with the same keys.                  *)
LEMMA LockedHeap ==
    ASSUME IInv, NEW d \in Calls, call[d].at \in {"decrypt", "encrypt", "serialize"},
           NEW pw \in Passwords \cup {Plain}
    PROVE  /\ Locked(d, pw)[call[d].ent] = [heap[call[d].ent] EXCEPT !.lock = pw]
           /\ IsKeyOf(Locked(d, pw)[call[d].ent], call[d].fp)
           /\ Locked(d, pw) \in [Ids -> Keys \cup {None}]
  <1> DEFINE r == call[d]
  <1>1. r.ent \in Ids /\ IsKeyOf(heap[r.ent], r.fp) /\ heap \in [Ids -> Keys \cup {None}]
    BY ObjectIs
  <1>2. Locked(d, pw) = [heap EXCEPT ![r.ent] = [heap[r.ent] EXCEPT !.lock = pw]]
    BY <1>1 DEF Locked
  <1>3. IsKeyOf([heap[r.ent] EXCEPT !.lock = pw], r.fp)
    <2>1. ASSUME NEW key, NEW p, IsKeyOf(key, p) PROVE IsKeyOf([key EXCEPT !.lock = pw], p)
      BY <2>1, LockedIs
    <2>2. QED
      BY <1>1, <2>1, Zenon
  <1>4. [heap[r.ent] EXCEPT !.lock = pw] \in Keys
    BY <1>3 DEF IsKeyOf
  <1>5. QED
    BY <1>1, <1>2, <1>3, <1>4

(* Collecting an object keeps those that are used.                          *)
LEMMA SweptIs ==
    ASSUME NEW h \in [Ids -> Keys \cup {None}], NEW e, NEW cs
    PROVE  /\ Swept(h, e, cs) \in [Ids -> Keys \cup {None}]
           /\ \A i \in Ids \cap Used(e, cs) : Swept(h, e, cs)[i] = h[i]
  BY DEF Swept

LEMMA DecryptStep ==
    ASSUME IInv, NEW d \in Calls, Decrypt(d)
    PROVE  StepOK(d)
  <1> DEFINE r == call[d]
  <1>1. r.at = "decrypt" /\ UNCHANGED <<entities, decrypted, subKeyToKey, queue, alive>>
    BY DEF Decrypt, At
  <1>2. /\ r \in CallType /\ ShapeOK(r) /\ r.ent \in Ids /\ IsKeyOf(heap[r.ent], r.fp)
        /\ r.op = "changeKeyPassword" /\ r.fp \in Fps /\ entities[r.fp] \in Ids
        /\ heap \in [Ids -> Keys \cup {None}] /\ (r.quiet => ChangeStory(r))
    BY <1>1, ObjectIs
  <1>3. r.quiet => /\ Accepts(r) /\ r.fp \in decrypted /\ r.ent = entities[r.fp]
                   /\ heap[r.ent] = Opened(r)
    BY <1>1, <1>2 DEF ChangeStory
  <1>4. CASE Decrypts(heap[r.ent].lock, r.current)
    <2> DEFINE q == [r EXCEPT !.at = "encrypt"]
    <2>1. heap' = Locked(d, Plain) /\ call' = [call EXCEPT ![d] = q]
      BY <1>4 DEF Decrypt, Goto
    <2>2. /\ heap'[r.ent] = [heap[r.ent] EXCEPT !.lock = Plain] /\ IsKeyOf(heap'[r.ent], r.fp)
          /\ heap' \in [Ids -> Keys \cup {None}]
      BY <1>1, <2>1, LockedHeap
    <2>3. /\ q \in CallType /\ ShapeOK(q) /\ q.at = "encrypt" /\ q.ent = r.ent
          /\ q.op = r.op /\ q.fp = r.fp /\ q.quiet = r.quiet /\ q.new = r.new
          /\ q.file = r.file /\ q.current = r.current /\ q.open = r.open
      BY <1>1, <1>2 DEF CallType, ShapeOK, Steps
    <2>4. Owes(d)
      BY <1>1, <2>1, <2>2, ObjectKeeps
    <2>5. call'[d] = q /\ (Story(call[d])' => StepOK(d))
      BY <1>1, <1>2, <2>1, <2>2, <2>3, <2>4, FromTo
    <2>6. ASSUME r.quiet PROVE ChangeStory(call[d])'
      <3>1. Accepts(q) /\ Opened(q) = Opened(r)
        BY <1>3, <2>3, <2>6 DEF Accepts, Opened
      <3>2. QED
        BY <1>1, <1>3, <2>2, <2>3, <2>5, <2>6, <3>1 DEF ChangeStory
    <2>7. QED
      BY <1>2, <2>3, <2>5, <2>6 DEF Story
  <1>5. CASE ~Decrypts(heap[r.ent].lock, r.current)
    <2> DEFINE q == [r EXCEPT !.at = "delete", !.out = "error", !.ent = None]
    <2>1. heap' = Swept(heap, entities, Calls \ {d}) /\ call' = [call EXCEPT ![d] = q]
      BY <1>5 DEF Decrypt
    <2>2. /\ heap' \in [Ids -> Keys \cup {None}]
          /\ \A i \in Ids \cap Used(entities, Calls \ {d}) : heap'[i] = heap[i]
      BY <1>2, <2>1, SweptIs
    <2>3. /\ q \in CallType /\ ShapeOK(q) /\ q.at = "delete" /\ q.ent = None
          /\ q.op = r.op /\ q.fp = r.fp /\ q.quiet = r.quiet
      BY <1>1, <1>2 DEF CallType, ShapeOK, Steps
    <2>4. Owes(d)
      BY <1>1, <2>2, ObjectKeeps
    <2>5. call'[d] = q /\ (Story(call[d])' => StepOK(d))
      BY <1>1, <1>2, <2>1, <2>3, <2>4, FromTo
    <2>6. ~r.quiet
      <3>1. ASSUME r.quiet PROVE heap[r.ent].lock = r.file.lock
        <4>1. r.file \in Keys
          BY <1>2, FilesAssumption DEF ShapeOK
        <4>2. QED
          BY <1>3, <3>1, <4>1 DEF Opened, Keys
      <3>2. QED
        BY <1>3, <1>5, <3>1 DEF Accepts
    <2>7. QED
      BY <2>3, <2>5, <2>6 DEF Story
  <1>6. QED
    BY <1>4, <1>5

LEMMA EncryptStep ==
    ASSUME IInv, NEW d \in Calls, Encrypt(d)
    PROVE  StepOK(d)
  <1> DEFINE r == call[d]
  <1>0. PICK q : q = [r EXCEPT !.at = "serialize"]
    OBVIOUS
  <1>1. /\ r.at = "encrypt" /\ heap' = Locked(d, r.new) /\ call' = [call EXCEPT ![d] = q]
        /\ UNCHANGED <<entities, decrypted, subKeyToKey, queue, alive>>
    BY <1>0 DEF Encrypt, At, Goto
  <1>2. /\ r \in CallType /\ ShapeOK(r) /\ r.op = "changeKeyPassword" /\ r.new \in Passwords
        /\ entities[r.fp] \in Ids /\ (r.quiet => ChangeStory(r))
    BY <1>1, ObjectIs
  <1>3. /\ heap'[r.ent] = [heap[r.ent] EXCEPT !.lock = r.new] /\ IsKeyOf(heap'[r.ent], r.fp)
        /\ heap' \in [Ids -> Keys \cup {None}]
    BY <1>1, <1>2, LockedHeap
  <1>4. /\ q \in CallType /\ ShapeOK(q) /\ q.at = "serialize" /\ q.ent = r.ent
        /\ q.op = r.op /\ q.fp = r.fp /\ q.quiet = r.quiet /\ q.new = r.new
        /\ q.file = r.file /\ q.current = r.current /\ q.open = r.open
    BY <1>0, <1>1, <1>2 DEF CallType, ShapeOK, Steps
  <1>5. Owes(d)
    BY <1>1, <1>2, <1>3, ObjectKeeps
  <1>6. call'[d] = q /\ (Story(call[d])' => StepOK(d))
    BY <1>1, <1>2, <1>3, <1>4, <1>5, FromTo
  <1>7. ASSUME r.quiet PROVE ChangeStory(call[d])'
    <2>1. /\ Accepts(r) /\ r.fp \in decrypted /\ r.ent = entities[r.fp]
          /\ heap[r.ent] = [Opened(r) EXCEPT !.lock = Plain]
      BY <1>1, <1>2, <1>7 DEF ChangeStory
    <2>2. Accepts(q) /\ Changed(q) = Changed(r)
      BY <1>4, <2>1 DEF Accepts, Opened, Changed
    <2>3. heap'[r.ent] = Changed(r)
      BY <1>3, <2>1 DEF Changed
    <2>4. QED
      BY <1>1, <1>4, <1>6, <2>1, <2>2, <2>3 DEF ChangeStory
  <1>8. QED
    BY <1>2, <1>4, <1>6, <1>7 DEF Story

LEMMA SerializeStep ==
    ASSUME IInv, NEW d \in Calls, SerializePrivate(d)
    PROVE  StepOK(d)
  <1> DEFINE r == call[d]
  <1>0. PICK q : q = [r EXCEPT !.at = "delete", !.out = "ok", !.result = heap[r.ent], !.ent = None]
    OBVIOUS
  <1>1. /\ r.at = "serialize" /\ heap' = Swept(heap, entities, Calls \ {d})
        /\ call' = [call EXCEPT ![d] = q]
        /\ UNCHANGED <<entities, decrypted, subKeyToKey, queue, alive>>
    BY <1>0 DEF SerializePrivate, At
  <1>2. /\ r \in CallType /\ ShapeOK(r) /\ r.op = "changeKeyPassword"
        /\ heap \in [Ids -> Keys \cup {None}] /\ heap[r.ent] \in Keys
        /\ entities[r.fp] \in Ids /\ r.fp \in Fps /\ (r.quiet => ChangeStory(r))
    BY <1>1, ObjectIs DEF IsKeyOf
  <1>3. /\ heap' \in [Ids -> Keys \cup {None}]
        /\ \A i \in Ids \cap Used(entities, Calls \ {d}) : heap'[i] = heap[i]
    BY <1>1, <1>2, SweptIs
  <1>4. /\ q \in CallType /\ ShapeOK(q) /\ q.at = "delete" /\ q.ent = None
        /\ q.op = r.op /\ q.fp = r.fp /\ q.quiet = r.quiet /\ q.new = r.new
        /\ q.file = r.file /\ q.current = r.current /\ q.open = r.open
        /\ q.out = "ok" /\ q.result = heap[r.ent]
    BY <1>0, <1>1, <1>2 DEF CallType, ShapeOK, Steps
  <1>5. Owes(d)
    BY <1>1, <1>3, ObjectKeeps
  <1>6. call'[d] = q /\ (Story(call[d])' => StepOK(d))
    BY <1>1, <1>2, <1>4, <1>5, FromTo
  <1>7. ASSUME r.quiet PROVE ChangeStory(call[d])'
    <2>1. /\ Accepts(r) /\ r.fp \in decrypted /\ r.ent = entities[r.fp]
          /\ heap[r.ent] = Changed(r)
      BY <1>1, <1>2, <1>7 DEF ChangeStory
    <2>2. Accepts(q) /\ Changed(q) = Changed(r)
      BY <1>4, <2>1 DEF Accepts, Opened, Changed
    <2>3. heap'[entities[r.fp]] = Changed(r)
      BY <1>2, <1>3, <2>1 DEF Used
    <2>4. QED
      BY <1>1, <1>4, <1>6, <2>1, <2>2, <2>3 DEF ChangeStory
  <1>8. QED
    BY <1>2, <1>4, <1>6, <1>7 DEF Story

LEMMA DeleteKeyStep ==
    ASSUME IInv, NEW d \in Calls, DeleteKey(d)
    PROVE  StepOK(d)
  <1> DEFINE r == call[d]
  <1>0. PICK q : q = [r EXCEPT !.at = "done", !.out = r.out]
    OBVIOUS
  <1>1. /\ r.at = "delete" /\ call' = [call EXCEPT ![d] = q]
        /\ decrypted' = decrypted \ {r.fp}
        /\ UNCHANGED <<heap, entities, subKeyToKey, queue, alive>>
    BY <1>0 DEF DeleteKey, At, Finish
  <1>2. /\ r \in CallType /\ ShapeOK(r) /\ r.op = "changeKeyPassword" /\ r.fp \in Fps
        /\ r.file \in Files /\ entities[r.fp] \in Ids /\ (r.quiet => ChangeStory(r))
    BY <1>1, CallIs DEF ShapeOK, CallOK, HasKey, Story
  <1>3. /\ q \in CallType /\ ShapeOK(q) /\ q.at = "done" /\ q.ent = None /\ ~HasKey(q)
        /\ q.op = r.op /\ q.fp = r.fp /\ q.quiet = r.quiet /\ q.new = r.new
        /\ q.file = r.file /\ q.current = r.current /\ q.open = r.open
        /\ q.out = r.out /\ q.result = r.result
    BY <1>0, <1>1, <1>2 DEF CallType, ShapeOK, HasKey
  <1>4. Owes(d)
    <2>1. MapsOK'
      BY <1>1 DEF IInv, MapsOK
    <2>2. \A c \in Calls : call[c].ent # None => IsKeyOf(heap'[call[c].ent], call[c].fp)
      BY <1>1 DEF IInv, CallOK
    <2>3. \A f \in Fps \ {r.fp} : Keeps(f)
      BY <1>1 DEF Keeps
    <2>4. QED
      BY <1>1, <1>2, <2>1, <2>2, <2>3, Values DEF Owes, Changes
  <1>5. call'[d] = q /\ (Story(call[d])' => StepOK(d))
    BY <1>1, <1>2, <1>3, <1>4, FromTo
  <1>6. ASSUME r.quiet PROVE ChangeStory(call[d])'
    <2>1. /\ Accepts(r) /\ heap[entities[r.fp]] = Changed(r)
          /\ r.out = "ok" /\ r.result = Changed(r)
      BY <1>1, <1>2, <1>6 DEF ChangeStory
    <2>2. Accepts(q) /\ Changed(q) = Changed(r)
      BY <1>3, <2>1 DEF Accepts, Opened, Changed
    <2>3. Changed(r).lock = r.new
      <3>1. r.file \in Keys
        BY <1>2, FilesAssumption
      <3>2. QED
        BY <3>1 DEF Changed, Opened, Keys
    <2>4. QED
      BY <1>1, <1>2, <1>3, <1>5, <2>1, <2>2, <2>3 DEF ChangeStory
  <1>7. QED
    BY <1>2, <1>3, <1>5, <1>6 DEF Story

(* What unlocking a fingerprint works on: its subkeys share its primary     *)
(* key, and no file is known under one of them.                             *)
LEMMA UnlockedIs ==
    ASSUME IInv, NEW f \in Fps, Entity(f) # None
    PROVE  /\ f \in Entity(f).subs \/ entities[f] \in Ids
           /\ Entity(f).subs \subseteq Fps
           /\ \A x \in Entity(f).subs : Primary(x) = Primary(f)
           /\ \A x \in Entity(f).subs, file \in Files : x # file.fp
  <1>1. CASE entities[f] \in Ids
    <2>1. Entity(f) = heap[entities[f]] /\ IsKeyOf(heap[entities[f]], Primary(f))
      BY <1>1, EntityIs DEF IInv, MapsOK
    <2>2. QED
      BY <1>1, <2>1, KeyIs
  <1>2. CASE entities[f] \notin Ids
    <2>1. entities[f] = Virtual /\ Entity(f).subs = {f}
      BY <1>2 DEF Entity
    <2>2. \A file \in Files : f # file.fp
      BY <2>1 DEF IInv, MapsOK
    <2>3. QED
      BY <2>1, <2>2
  <1>3. QED
    BY <1>1, <1>2

LEMMA UnlockKeyStep ==
    ASSUME IInv, NEW d \in Calls, UnlockKey(d)
    PROVE  StepOK(d)
  <1> DEFINE r == call[d]
             f == call[d].fp
  <1>0. PICK q : q = IF r.op = "unlockKey" THEN [r EXCEPT !.at = "done", !.out = "ok"]
                     ELSE [r EXCEPT !.at = "get"]
    OBVIOUS
  <1>1. PICK subs, h :
            /\ subs = Entity(f).subs
            /\ h = IF entities[f] \in Ids THEN [heap EXCEPT ![entities[f]].sublock = Plain]
                   ELSE heap
    OBVIOUS
  <1>2. /\ r.at = "unlock" /\ Opens(d) /\ f \notin decrypted
        /\ decrypted' = decrypted \cup {f} \cup subs
        /\ entities' = [x \in Fps |-> IF x \in subs THEN Virtual ELSE entities[x]]
        /\ heap' = Swept(h, entities', Calls) /\ call' = [call EXCEPT ![d] = q]
        /\ UNCHANGED <<subKeyToKey, queue, alive>>
    BY <1>0, <1>1 DEF UnlockKey, Unlocked, At, Finish, Goto
  <1>3. /\ r \in CallType /\ ShapeOK(r) /\ CallOK(d) /\ f \in Fps /\ MapsOK
        /\ r.op \in {"unlockKey", "changeKeyPassword"}
    BY <1>2, CallIs DEF ShapeOK, IInv
  <1>4. /\ subs \subseteq Fps /\ (\A x \in subs : Primary(x) = Primary(f))
        /\ \A x \in subs, file \in Files : x # file.fp
    BY <1>1, <1>2, <1>3, UnlockedIs DEF Opens
  <1>5. /\ q \in CallType /\ ShapeOK(q) /\ q.ent = None /\ q.at \in {"done", "get"}
        /\ q.op = r.op /\ q.fp = f /\ q.quiet = r.quiet /\ (HasKey(q) => HasKey(r))
    BY <1>0, <1>2, <1>3 DEF CallType, ShapeOK, Steps, HasKey
  <1>6. h \in [Ids -> Keys \cup {None}] /\ \A i \in Ids : \A p : IsKeyOf(heap[i], p) => IsKeyOf(h[i], p)
    <2>1. CASE entities[f] \in Ids
      <3>1. IsKeyOf(heap[entities[f]], Primary(f))
        BY <1>3, <2>1 DEF MapsOK
      <3>2. \A key, p : IsKeyOf(key, p) => IsKeyOf([key EXCEPT !.sublock = Plain], p)
        BY LockedIs
      <3>3. [heap[entities[f]] EXCEPT !.sublock = Plain] \in Keys
        BY <3>1 DEF IsKeyOf, Keys
      <3>4. h = [heap EXCEPT ![entities[f]] = [heap[entities[f]] EXCEPT !.sublock = Plain]]
        BY <1>1, <2>1
      <3>5. \A i \in Ids : h[i] = IF i = entities[f] THEN [heap[i] EXCEPT !.sublock = Plain]
                                 ELSE heap[i]
        BY <1>3, <3>4 DEF MapsOK
      <3>6. QED
        BY <1>3, <3>2, <3>3, <3>4, <3>5 DEF MapsOK
    <2>2. CASE entities[f] \notin Ids
      BY <1>1, <1>3, <2>2 DEF MapsOK
    <2>3. QED
      BY <2>1, <2>2
  <1>7. /\ heap' \in [Ids -> Keys \cup {None}]
        /\ \A i \in Ids \cap Used(entities', Calls) : heap'[i] = h[i]
    BY <1>2, <1>6, SweptIs
  <1>8. \A x \in Fps : entities'[x] \in Ids
            => /\ x \notin subs /\ entities'[x] = entities[x] /\ heap'[entities[x]] = h[entities[x]]
    BY <1>2, <1>7, Values DEF Used
  <1>9. MapsOK'
    <2>1. entities' \in [Fps -> Ids \cup {None, Virtual, Public}] /\ decrypted' \subseteq Fps
      BY <1>2, <1>3, <1>4 DEF MapsOK
    <2>2. \A x \in Fps : entities'[x] \in Ids => IsKeyOf(heap'[entities'[x]], Primary(x))
      BY <1>3, <1>6, <1>8 DEF MapsOK
    <2>3. \A file \in Files : entities'[file.fp] # Virtual
      BY <1>2, <1>3, <1>4, Values DEF MapsOK
    <2>4. QED
      BY <1>2, <1>3, <1>7, <2>1, <2>2, <2>3 DEF MapsOK
  <1>10. Owes(d)
    <2>1. ASSUME NEW c \in Calls, call[c].ent # None
          PROVE  IsKeyOf(heap'[call[c].ent], call[c].fp)
      <3>1. call[c].ent \in Ids /\ IsKeyOf(heap[call[c].ent], call[c].fp)
        BY <2>1 DEF IInv, CallOK, CallType
      <3>2. heap'[call[c].ent] = h[call[c].ent]
        BY <1>7, <3>1 DEF Used
      <3>3. QED
        BY <1>6, <3>1, <3>2
    <2>2. \A file \in Files : entities'[file.fp] = entities[file.fp]
      BY <1>2, <1>4, Values
    <2>3. ASSUME NEW x \in Fps, Primary(x) # Primary(f) PROVE Keeps(x)
      <3>1. x # f /\ x \notin subs
        BY <1>4, <2>3
      <3>2. ASSUME entities[x] \in Ids PROVE h[entities[x]] = heap[entities[x]]
        <4>1. entities[x] # entities[f]
          BY <1>3, <2>3, <3>2 DEF MapsOK, IsKeyOf
        <4>2. QED
          BY <1>1, <1>3, <3>2, <4>1 DEF MapsOK
      <3>3. entities'[x] = entities[x]
        BY <1>2, <3>1
      <3>4. QED
        BY <1>2, <1>8, <3>1, <3>2, <3>3 DEF Keeps
    <2>4. Changes(r) /\ f # None
      BY <1>3, Values DEF Changes
    <2>5. QED
      BY <1>9, <2>1, <2>2, <2>3, <2>4 DEF Owes
  <1>11. HasKey(q) => entities'[f] = entities[f] /\ entities'[f] \in Ids
    <2>1. ASSUME HasKey(r) PROVE entities[f] \in Ids /\ f \notin subs
      BY <1>3, <1>4, <2>1 DEF CallOK, HasKey, ShapeOK
    <2>2. QED
      BY <1>2, <1>3, <1>5, <2>1
  <1>12. call'[d] = q /\ (Story(call[d])' => StepOK(d))
    BY <1>2, <1>3, <1>5, <1>10, <1>11, FromTo
  <1>13. ASSUME r.quiet, r.op = "changeKeyPassword" PROVE ChangeStory(call[d])'
    <2>1. /\ Accepts(r) /\ ~r.open /\ heap[entities[f]] = r.file /\ entities[f] \in Ids
      BY <1>2, <1>13, OpensIs
    <2>2. /\ q.at = "get" /\ q.file = r.file /\ q.current = r.current /\ q.open = r.open
          /\ HasKey(q)
      BY <1>0, <1>3, <1>13 DEF CallType, HasKey
    <2>3. Accepts(q) /\ Opened(q) = [r.file EXCEPT !.sublock = Plain]
      BY <2>1, <2>2 DEF Accepts, Opened
    <2>4. h[entities[f]] = [r.file EXCEPT !.sublock = Plain]
      BY <1>1, <1>3, <2>1 DEF MapsOK
    <2>5. entities'[f] = entities[f] /\ heap'[entities[f]] = Opened(q) /\ f \in decrypted'
      BY <1>2, <1>3, <1>8, <1>11, <2>2, <2>3, <2>4
    <2>6. QED
      BY <1>5, <1>12, <2>2, <2>3, <2>5 DEF ChangeStory
  <1>14. QED
    BY <1>2, <1>3, <1>5, <1>12, <1>13 DEF Story, UnlockStory

(* There are more names of objects than what may refer to one when LoadKey  *)
(* gives up what a fingerprint stood for.                                   *)
LEMMA FreeObject ==
    ASSUME entities \in [Fps -> Ids \cup {None, Virtual, Public}], NEW f \in Fps
    PROVE  \E i \in Ids : i \notin Used([entities EXCEPT ![f] = None], Calls)
  <1> DEFINE S    == Ids \ {f}
             h    == [x \in S |-> IF x \in Fps THEN entities[x] ELSE call[x].ent]
             g    == [i \in Ids |-> CHOOSE x \in S : h[x] = i]
  <1> SUFFICES ASSUME \A i \in Ids : i \in Used([entities EXCEPT ![f] = None], Calls)
               PROVE  FALSE
    OBVIOUS
  <1>1. ASSUME NEW i \in Ids PROVE \E x \in S : h[x] = i
    <2>1. CASE \E x \in Fps : i = [entities EXCEPT ![f] = None][x]
      BY <2>1, Values DEF Ids
    <2>2. CASE \E c \in Calls : i = call[c].ent
      BY <2>2, PointerAssumption DEF Ids
    <2>3. QED
      BY <2>1, <2>2 DEF Used
  <1>2. g \in [Ids -> S] /\ \A i \in Ids : h[g[i]] = i
    BY <1>1
  <1>3. IsFiniteSet(Ids) /\ IsFiniteSet(S) /\ Cardinality(S) < Cardinality(Ids)
    <2>1. IsFiniteSet(Ids) /\ f \in Ids
      BY PoolAssumption, FS_Union DEF Ids
    <2>2. IsFiniteSet(S) /\ Cardinality(S) = Cardinality(Ids) - 1
      BY <2>1, FS_RemoveElement
    <2>3. Cardinality(Ids) \in Nat
      BY <2>1, FS_CardinalityType
    <2> HIDE DEF S
    <2>4. QED
      BY <2>1, <2>2, <2>3
  <1>4. \E x, y \in Ids : x # y /\ g[x] = g[y]
    <2> HIDE DEF S, h, g
    <2>1. QED
      BY <1>2, <1>3, FS_PigeonHole
  <1>5. QED
    BY <1>2, <1>4

LEMMA LoadKeyStep ==
    ASSUME IInv, NEW d \in Calls, LoadKey(d)
    PROVE  StepOK(d)
  <1> DEFINE r == call[d]
             f == call[d].fp
  <1>0. PICK q : q = [r EXCEPT !.at = "subkeys"]
    OBVIOUS
  <1>1. /\ r.at = "load" /\ f # None /\ UNCHANGED <<decrypted, subKeyToKey, queue, alive>>
        /\ call' = [call EXCEPT ![d] = q]
    BY <1>0 DEF LoadKey, At, Goto
  <1>2. /\ r \in CallType /\ ShapeOK(r) /\ CallOK(d) /\ Story(r) /\ MapsOK
        /\ r.op \in {"loadKey", "changeKeyPassword"}
        /\ r.file \in Files /\ f = r.file.fp /\ f \in Fps
    BY <1>1, CallIs, Values DEF ShapeOK, IInv
  <1>3. PICK i \in Ids :
            /\ i \notin Used([entities EXCEPT ![f] = None], Calls)
            /\ entities' = [entities EXCEPT ![f] = i]
            /\ heap' = Swept([heap EXCEPT ![i] = r.file], [entities EXCEPT ![f] = i], Calls)
    <2> DEFINE free == Ids \ Used([entities EXCEPT ![f] = None], Calls)
               i    == IF f \in free THEN f ELSE CHOOSE x \in free : TRUE
    <2>1. i \in free
      BY <1>2, FreeObject DEF MapsOK
    <2>2. QED
      BY <2>1 DEF LoadKey
  <1>4. \A x \in Fps \ {f} : entities[x] # i /\ entities'[x] = entities[x]
    BY <1>2, <1>3 DEF Used, MapsOK
  <1>5. entities' \in [Fps -> Ids \cup {None, Virtual, Public}] /\ entities'[f] = i
    BY <1>2, <1>3 DEF MapsOK
  <1>6. \A c \in Calls : call[c].ent # i
    BY <1>3 DEF Used
  <1>7. /\ heap' \in [Ids -> Keys \cup {None}]
        /\ \A j \in Ids \cap Used(entities', Calls) : heap'[j] = IF j = i THEN r.file ELSE heap[j]
    <2>1. PICK h : h = [heap EXCEPT ![i] = r.file]
      OBVIOUS
    <2>2. /\ h \in [Ids -> Keys \cup {None}]
          /\ \A j \in Ids : h[j] = IF j = i THEN r.file ELSE heap[j]
      BY <1>2, <2>1, Values DEF MapsOK
    <2>3. heap' = Swept(h, entities', Calls)
      BY <1>3, <2>1
    <2>4. QED
      BY <2>2, <2>3, SweptIs
  <1>8. \A x \in Fps : entities'[x] \in Ids
            => heap'[entities'[x]] = IF x = f THEN r.file ELSE heap[entities[x]]
    BY <1>4, <1>5, <1>7 DEF Used
  <1>9. IsKeyOf(r.file, Primary(f))
    BY <1>2, PrimaryIs, Values DEF IsKeyOf
  <1>10. MapsOK'
    <2>1. \A x \in Fps : entities'[x] \in Ids => IsKeyOf(heap'[entities'[x]], Primary(x))
      BY <1>2, <1>4, <1>8, <1>9 DEF MapsOK
    <2>2. \A file \in Files : entities'[file.fp] # Virtual
      BY <1>2, <1>4, <1>5, Values DEF MapsOK
    <2>3. QED
      BY <1>1, <1>2, <1>5, <1>7, <2>1, <2>2 DEF MapsOK
  <1>11. Owes(d)
    <2>1. ASSUME NEW c \in Calls, call[c].ent # None
          PROVE  IsKeyOf(heap'[call[c].ent], call[c].fp)
      <3>1. call[c].ent \in Ids /\ IsKeyOf(heap[call[c].ent], call[c].fp)
        BY <2>1 DEF IInv, CallOK, CallType
      <3>2. heap'[call[c].ent] = heap[call[c].ent]
        BY <1>6, <1>7, <3>1 DEF Used
      <3>3. QED
        BY <3>1, <3>2
    <2>2. \A x \in Fps \ {f} : Keeps(x)
      BY <1>1, <1>4, <1>8 DEF Keeps
    <2>3. \A file \in Files : entities[file.fp] \in Ids => entities'[file.fp] \in Ids
      BY <1>4, <1>5, Values
    <2>4. Changes(r)
      BY <1>2 DEF Changes
    <2>5. QED
      BY <1>1, <1>10, <2>1, <2>2, <2>3, <2>4 DEF Owes
  <1>12. /\ q \in CallType /\ ShapeOK(q) /\ q.ent = None /\ q.at = "subkeys"
         /\ q.op = r.op /\ q.fp = f /\ q.quiet = r.quiet
         /\ q.file = r.file /\ q.open = r.open
    BY <1>0, <1>1, <1>2 DEF CallType, ShapeOK, Steps
  <1>13. call'[d] = q /\ (Story(call[d])' => StepOK(d))
    BY <1>1, <1>2, <1>5, <1>11, <1>12, FromTo
  <1>14. ASSUME r.quiet, r.op = "changeKeyPassword" PROVE ChangeStory(call[d])'
    <2>1. f \in decrypted' <=> q.open
      BY <1>1, <1>2, <1>12, <1>14 DEF Story, ChangeStory
    <2>2. heap'[entities'[f]] = q.file
      BY <1>2, <1>5, <1>8, <1>12
    <2>3. QED
      BY <1>12, <1>13, <2>1, <2>2 DEF ChangeStory
  <1>15. QED
    BY <1>2, <1>12, <1>13, <1>14 DEF Story

(* Entering the subkeys leaves everything a story is about.                 *)
LEMMA LoadSubkeysStep ==
    ASSUME IInv, NEW d \in Calls, LoadSubkeys(d)
    PROVE  StepOK(d)
  <1> DEFINE r == call[d]
             f == call[d].fp
  <1>0. PICK q : q = IF r.op = "loadKey" THEN [r EXCEPT !.at = "done", !.out = "ok"]
                     ELSE IF r.file.private THEN [r EXCEPT !.at = "unlock"]
                     ELSE [r EXCEPT !.at = "done", !.out = "error"]
    OBVIOUS
  <1>1. /\ r.at = "subkeys" /\ call' = [call EXCEPT ![d] = q]
        /\ UNCHANGED <<heap, entities, decrypted, queue, alive>>
        /\ subKeyToKey' = [x \in Fps |-> IF r.file.private /\ x \in r.file.subs
                                         THEN f ELSE subKeyToKey[x]]
    BY <1>0 DEF LoadSubkeys, At, Finish, Goto
  <1>2. /\ r \in CallType /\ ShapeOK(r) /\ CallOK(d) /\ Story(r) /\ MapsOK
        /\ r.op \in {"loadKey", "changeKeyPassword"}
        /\ r.file \in Files /\ f = r.file.fp /\ f \in Fps
    BY <1>1, CallIs, Values DEF ShapeOK, IInv
  <1>3. MapsOK'
    <2>1. /\ subKeyToKey' \in [Fps -> Fps \cup {None}]
          /\ \A x \in Fps : subKeyToKey'[x] # None =>
                \E file \in Files : subKeyToKey'[x] = file.fp /\ x \in file.subs
      BY <1>1, <1>2 DEF MapsOK
    <2>2. QED
      BY <1>1, <1>2, <2>1 DEF MapsOK
  <1>4. Owes(d)
    <2>1. \A c \in Calls : call[c].ent # None => IsKeyOf(heap'[call[c].ent], call[c].fp)
      BY <1>1 DEF IInv, CallOK
    <2>2. \A x \in Fps : Keeps(x)
      BY <1>1 DEF Keeps
    <2>3. QED
      BY <1>1, <1>3, <2>1, <2>2 DEF Owes
  <1>5. /\ q \in CallType /\ ShapeOK(q) /\ q.ent = None /\ q.at \in {"done", "unlock"}
        /\ q.op = r.op /\ q.fp = f /\ q.quiet = r.quiet
        /\ q.file = r.file /\ q.current = r.current /\ q.open = r.open
    BY <1>0, <1>1, <1>2 DEF CallType, ShapeOK, Steps
  <1>6. HasKey(q) => entities'[q.fp] \in Ids
    BY <1>1, <1>2, <1>5 DEF HasKey, CallOK
  <1>7. call'[d] = q /\ (Story(call[d])' => StepOK(d))
    BY <1>1, <1>2, <1>4, <1>5, <1>6, FromTo
  <1>8. ASSUME r.quiet, r.op = "changeKeyPassword" PROVE ChangeStory(call[d])'
    <2>1. (f \in decrypted <=> r.open) /\ heap[entities[f]] = r.file
      BY <1>1, <1>2, <1>8 DEF Story, ChangeStory
    <2>2. CASE r.file.private
      <3>1. q.at = "unlock"
        BY <1>0, <1>2, <1>8, <2>2 DEF CallType
      <3>2. QED
        BY <1>1, <1>5, <1>7, <2>1, <3>1 DEF ChangeStory
    <2>3. CASE ~r.file.private
      <3>1. q.at = "done" /\ q.out = "error"
        BY <1>0, <1>2, <1>8, <2>3 DEF CallType
      <3>2. ~Accepts(q)
        BY <1>5, <2>3 DEF Accepts
      <3>3. QED
        BY <1>1, <1>5, <1>7, <2>1, <3>1, <3>2 DEF ChangeStory
    <2>4. QED
      BY <2>2, <2>3
  <1>9. QED
    BY <1>2, <1>5, <1>7, <1>8 DEF Story

-----------------------------------------------------------------------------
(* The maps are the same for every call that is still what it was, up to    *)
(* whether it is quiet.                                                     *)
LEMMA StoryQueued ==
    ASSUME UNCHANGED manager, NEW c \in Calls, call[c] \in CallType,
           CallOK(c), Story(call[c]),
           NEW b \in BOOLEAN, call[c] = Idle => b,
           call'[c] = [call[c] EXCEPT !.quiet = @ /\ b]
    PROVE  CallOK(c)' /\ Story(call[c])'
  <1>1. /\ heap' = heap /\ entities' = entities /\ decrypted' = decrypted
    BY DEF manager
  <1>2. PICK r, q : r = call[c] /\ q = call'[c]
    OBVIOUS
  <1>3. /\ q.at = r.at /\ q.op = r.op /\ q.fp = r.fp /\ q.file = r.file /\ q.ent = r.ent
        /\ q.current = r.current /\ q.new = r.new /\ q.out = r.out /\ q.result = r.result
        /\ q.open = r.open /\ (q.quiet => r.quiet) /\ (r = Idle => q = Idle)
    BY <1>2 DEF CallType, Idle
  <1>4. CallOK(c)'
    <2>1. ShapeOK(r) => ShapeOK(q)
      BY <1>3 DEF ShapeOK
    <2>2. HasKey(q) => HasKey(r)
      BY <1>3 DEF HasKey
    <2>3. QED
      BY <1>1, <1>2, <1>3, <2>1, <2>2 DEF CallOK
  <1>5. ASSUME q.quiet, q.at # "idle" PROVE Story(call[c])'
    <2>1. /\ Accepts(q) <=> Accepts(r)
          /\ Opened(q) = Opened(r) /\ Changed(q) = Changed(r)
      BY <1>3 DEF Accepts, Opened, Changed
    <2>2. q.op = "signData" => SignStory(call[c])'
      BY <1>1, <1>2, <1>3, <1>5 DEF Story, SignStory
    <2>3. q.op = "unlockKey" => UnlockStory(call[c])'
      BY <1>1, <1>2, <1>3, <1>5 DEF Story, UnlockStory
    <2>4. ASSUME q.op = "changeKeyPassword" PROVE ChangeStory(call[c])'
      <3>1. ChangeStory(r)
        BY <1>2, <1>3, <1>5, <2>4 DEF Story
      <3>2. QED
        BY <1>1, <1>2, <1>3, <2>1, <3>1 DEF ChangeStory
    <2>5. QED
      BY <1>2, <2>2, <2>3, <2>4 DEF Story
  <1>6. QED
    BY <1>2, <1>4, <1>5 DEF Story

LEMMA QueueStep ==
    ASSUME IInv, NEW c \in Calls, NEW r \in Requests, Queue(c, r)
    PROVE  IInv'
  <1>0. PICK apart \in [Calls -> BOOLEAN] :
            \A d \in Calls : apart[d] = ~(Meets(r, call[d]) /\ Changes(r))
    <2>1. \A d \in Calls : (~(Meets(r, call[d]) /\ Changes(r))) \in BOOLEAN
      BY Zenon
    <2>2. [d \in Calls |-> ~(Meets(r, call[d]) /\ Changes(r))] \in [Calls -> BOOLEAN]
      BY <2>1
    <2>3. QED
      BY <2>2
  <1>1. PICK q : q = [r EXCEPT !.at = "queued", !.open = r.fp \in decrypted,
                               !.quiet = \A x \in Calls : Meets(r, call[x]) => ~Changes(call[x])]
    OBVIOUS
  <1>2. /\ call[c].at = "idle" /\ queue' = Append(queue, c) /\ UNCHANGED <<manager, alive>>
        /\ call' = [d \in Calls |-> IF d = c THEN q
                                    ELSE [call[d] EXCEPT !.quiet = @ /\ apart[d]]]
    BY <1>0, <1>1 DEF Queue, At
  <1>3. /\ q \in CallType /\ ShapeOK(q) /\ q.fp = r.fp /\ q.op = r.op /\ q.ent = None
        /\ q.at = "queued" /\ (q.open <=> r.fp \in decrypted)
        /\ q.quiet <=> \A x \in Calls : Meets(r, call[x]) => ~Changes(call[x])
    <2>1. (r.fp \in decrypted) = TRUE \/ (r.fp \in decrypted) = FALSE
      OBVIOUS
    <2>2. PICK open \in BOOLEAN : open = (r.fp \in decrypted)
      BY <2>1, Zenon
    <2>3. PICK quiet \in BOOLEAN :
              quiet = (\A x \in Calls : Meets(r, call[x]) => ~Changes(call[x]))
      OBVIOUS
    <2>4. q = Queued(r, open, quiet)
      BY <1>1, <2>2, <2>3, Zenon DEF Queued
    <2>5. /\ q \in CallType /\ ShapeOK(q) /\ q.fp = r.fp /\ q.op = r.op /\ q.ent = None
          /\ q.at = "queued" /\ q.open = open /\ q.quiet = quiet
      BY <2>4, RequestIs
    <2>6. QED
      BY <2>2, <2>3, <2>5, Zenon
  <1>4. call'[c] = q /\ \A d \in Calls \ {c} : call'[d] = [call[d] EXCEPT !.quiet = @ /\ apart[d]]
    BY <1>2
  <1>5. /\ heap' = heap /\ entities' = entities /\ decrypted' = decrypted
        /\ subKeyToKey' = subKeyToKey
    BY <1>2 DEF manager
  <1>6. MapsOK'
    BY <1>5 DEF IInv, MapsOK
  <1>7. ASSUME NEW d \in Calls \ {c}
        PROVE  /\ call'[d] \in CallType /\ (call'[d].quiet => call[d].quiet /\ apart[d])
               /\ call'[d].at = call[d].at /\ call'[d].op = call[d].op /\ call'[d].fp = call[d].fp
    <2>1. call[d] \in CallType
      BY DEF IInv
    <2>2. (call[d].quiet /\ apart[d]) \in BOOLEAN
      BY Zenon
    <2>3. PICK quiet \in BOOLEAN : quiet = (call[d].quiet /\ apart[d])
      BY <2>2, Zenon
    <2>4. call'[d] = [call[d] EXCEPT !.quiet = quiet]
      BY <1>4, <2>3, Zenon
    <2>5. /\ call'[d] \in CallType /\ call'[d].quiet = quiet
          /\ call'[d].at = call[d].at /\ call'[d].op = call[d].op /\ call'[d].fp = call[d].fp
      BY <2>1, <2>4 DEF CallType
    <2>6. QED
      BY <2>3, <2>5, Zenon
  <1>8. call' \in [Calls -> CallType]
    <2>1. \A d \in Calls : call'[d] \in CallType
      BY <1>3, <1>4, <1>7
    <2>2. QED
      BY <1>2, <2>1
  <1>9. ASSUME NEW d \in Calls PROVE CallOK(d)' /\ Story(call[d])'
    <2>1. CASE d = c
      <3>1. CallOK(c)'
        BY <1>3, <1>4 DEF CallOK, HasKey
      <3>2. q.op = "signData" => SignStory(call[c])'
        BY <1>3, <1>4, <1>5 DEF SignStory
      <3>3. UnlockStory(call[c])'
        BY <1>3, <1>4 DEF UnlockStory
      <3>4. ChangeStory(call[c])'
        BY <1>3, <1>4, <1>5 DEF ChangeStory
      <3>5. QED
        BY <1>4, <2>1, <3>1, <3>2, <3>3, <3>4 DEF Story
    <2>2. CASE d # c
      <3>1. call[d] = Idle => apart[d]
        BY <1>0 DEF Meets, Idle
      <3>2. call[d] \in CallType /\ CallOK(d) /\ Story(call[d])
        BY DEF IInv
      <3>3. call'[d] = [call[d] EXCEPT !.quiet = @ /\ apart[d]]
        BY <1>4, <2>2
      <3>4. QED
        BY <1>2, <3>1, <3>2, <3>3, StoryQueued
    <2>3. QED
      BY <2>1, <2>2
  <1>10. QueueOK'
    <2>1. /\ queue \in Seq(Calls) /\ (\A i \in 1 .. Len(queue) : call[queue[i]].at = "queued")
          /\ \A i, j \in 1 .. Len(queue) : queue[i] = queue[j] => i = j
      BY DEF IInv, QueueOK
    <2>2. /\ queue' \in Seq(Calls) /\ Len(queue') = Len(queue) + 1 /\ Len(queue) \in Nat
          /\ \A i \in 1 .. Len(queue') : queue'[i] = IF i = Len(queue) + 1 THEN c ELSE queue[i]
      BY <1>2, <2>1, AppendProperties
    <2>3. \A i \in 1 .. Len(queue) : queue[i] \in Calls \ {c}
      BY <1>2, <2>1, ElementOfSeq
    <2>4. \A i \in 1 .. Len(queue') : call'[queue'[i]].at = "queued"
      <3>1. \A i \in 1 .. Len(queue) : call'[queue[i]].at = "queued"
        BY <1>7, <2>1, <2>3
      <3>2. QED
        BY <1>3, <1>4, <2>2, <3>1
    <2>5. \A i, j \in 1 .. Len(queue') : queue'[i] = queue'[j] => i = j
      BY <2>1, <2>2, <2>3
    <2>6. QED
      BY <2>2, <2>4, <2>5 DEF QueueOK
  <1>11. Exclusive'
    <2> SUFFICES ASSUME NEW a \in Calls, NEW b \in Calls, a # b, call'[a].quiet,
                        Meets(call'[a], call'[b])
                 PROVE  ~Changes(call'[b])
      BY DEF Exclusive, Meets, Changes
    <2>1. CASE a = c
      <3>1. Meets(r, call[b]) /\ Changes(call'[b]) = Changes(call[b])
        BY <1>3, <1>4, <1>7, <2>1 DEF Meets, Changes
      <3>2. QED
        BY <1>3, <1>4, <2>1, <3>1
    <2>2. CASE b = c
      <3>1. Meets(r, call[a]) /\ ~Changes(r)
        BY <1>0, <1>3, <1>4, <1>7, <2>2 DEF Meets
      <3>2. QED
        BY <1>3, <1>4, <2>2, <3>1 DEF Changes
    <2>3. CASE a # c /\ b # c
      <3>1. call[a].quiet /\ Meets(call[a], call[b])
        BY <1>7, <2>3 DEF Meets
      <3>2. ~Changes(call[b])
        BY <3>1 DEF IInv, Exclusive
      <3>3. QED
        BY <1>7, <2>3, <3>2 DEF Changes
    <2>4. QED
      BY <2>1, <2>2, <2>3
  <1>12. QED
    BY <1>2, <1>6, <1>8, <1>9, <1>10, <1>11 DEF IInv

LEMMA ExecuteStep ==
    ASSUME IInv, Execute
    PROVE  IInv'
  <1>1. PICK c \in Calls : c = Head(queue) /\ queue # <<>> /\ queue \in Seq(Calls)
    BY HeadTailProperties DEF Execute, IInv, QueueOK
  <1>2. PICK r, q : r = call[c] /\ q = [call[c] EXCEPT !.at = FirstStep[call[c].op]]
    OBVIOUS
  <1>3. call' = [call EXCEPT ![c] = q] /\ queue' = Tail(queue) /\ UNCHANGED <<manager, alive>>
    BY <1>1, <1>2 DEF Execute
  <1>4. /\ heap' = heap /\ entities' = entities /\ decrypted' = decrypted
        /\ subKeyToKey' = subKeyToKey
    BY <1>3 DEF manager
  <1>5. /\ Len(queue) \in Nat /\ c = queue[1]
        /\ Len(queue') = Len(queue) - 1 /\ queue' \in Seq(Calls)
        /\ \A i \in 1 .. Len(queue') : queue'[i] = queue[i + 1] /\ i + 1 \in 1 .. Len(queue)
        /\ 1 \in 1 .. Len(queue)
    BY <1>1, <1>3, HeadTailProperties, EmptySeq
  <1>6. /\ \A i \in 1 .. Len(queue) : call[queue[i]].at = "queued"
        /\ \A i, j \in 1 .. Len(queue) : queue[i] = queue[j] => i = j
    BY DEF IInv, QueueOK
  <1>7. r.at = "queued"
    BY <1>2, <1>5, <1>6
  <1>8. r \in CallType /\ ShapeOK(r) /\ Story(r)
    BY <1>2, <1>7, CallIs
  <1>9. /\ q \in CallType /\ ShapeOK(q) /\ q.ent = None
        /\ q.at \in {"load", "unlock", "look", "verify", "generate"}
        /\ q.op = r.op /\ q.fp = r.fp /\ q.quiet = r.quiet /\ q.open = r.open
        /\ r.op = "changeKeyPassword" => q.at = "load"
    BY <1>2, <1>7, <1>8 DEF CallType, ShapeOK, Steps, Ops, FirstStep
  <1>10. /\ call'[c] = q /\ (\A d \in Calls \ {c} : call'[d] = call[d])
         /\ call' \in [Calls -> CallType]
    BY <1>3, <1>9 DEF IInv
  <1>11. MapsOK'
    BY <1>4 DEF IInv, MapsOK
  <1>12. ASSUME NEW d \in Calls PROVE CallOK(d)' /\ Story(call[d])'
    <2>1. CASE d = c
      <3>1. CallOK(c)'
        BY <1>9, <1>10 DEF CallOK, HasKey
      <3>2. q.op = "signData" /\ q.quiet => SignStory(call[c])'
        BY <1>4, <1>7, <1>8, <1>9, <1>10 DEF Story, SignStory
      <3>3. UnlockStory(call[c])'
        BY <1>9, <1>10 DEF UnlockStory
      <3>4. q.op = "changeKeyPassword" /\ q.quiet => ChangeStory(call[c])'
        BY <1>4, <1>7, <1>8, <1>9, <1>10 DEF Story, ChangeStory
      <3>5. QED
        BY <1>10, <2>1, <3>1, <3>2, <3>3, <3>4 DEF Story
    <2>2. CASE d # c
      <3>1. CallOK(d)'
        BY <1>4, <1>10, <2>2 DEF IInv, CallOK
      <3>2. call'[d] = call[d] /\ (call[d].fp \in Fps => Keeps(call[d].fp))
        BY <1>4, <1>10, <2>2 DEF Keeps
      <3>3. Story(call[d])'
        <4>1. CASE call[d].fp \in Fps
          BY <3>2, <4>1, StoryKept
        <4>2. CASE call[d].fp \notin Fps
          BY <3>2, <4>2 DEF IInv, CallOK, ShapeOK, Story, Idle
        <4>3. QED
          BY <4>1, <4>2
      <3>4. QED
        BY <3>1, <3>3
    <2>3. QED
      BY <2>1, <2>2
  <1>13. QueueOK'
    <2>1. ASSUME NEW i \in 1 .. Len(queue') PROVE call'[queue'[i]].at = "queued"
      <3>1. queue'[i] \in Calls /\ queue'[i] # c /\ call[queue'[i]].at = "queued"
        BY <1>1, <1>5, <1>6, ElementOfSeq
      <3>2. QED
        BY <1>10, <3>1
    <2>2. \A i, j \in 1 .. Len(queue') : queue'[i] = queue'[j] => i = j
      BY <1>5, <1>6
    <2>3. QED
      BY <1>5, <2>1, <2>2 DEF QueueOK
  <1>14. Exclusive'
    <2>1. \A d \in Calls : Same(d)
      BY <1>2, <1>9, <1>10 DEF Same
    <2>2. QED
      BY <2>1 DEF IInv, Exclusive, Meets, Changes, Same
  <1>15. QED
    BY <1>3, <1>10, <1>11, <1>12, <1>13, <1>14 DEF IInv

LEMMA GetPublicKeyStep ==
    ASSUME IInv, NEW f \in Fps, getPublicKey(f)
    PROVE  IInv'
  <1>1. PICK o \in Found(f) : GetPublicKey(f, o)
    BY DEF getPublicKey
  <1>2. /\ MapsOK' /\ heap' = heap /\ (\A x \in Fps : Keeps(x))
        /\ \A file \in Files : entities[file.fp] \in Ids => entities'[file.fp] \in Ids
    BY <1>1, GetPublicKeyKeeps
  <1>3. call' = call /\ queue' = queue /\ alive' = alive
    BY <1>1 DEF getPublicKey, GetPublicKey
  <1>4. ASSUME NEW c \in Calls PROVE CallOK(c)' /\ Story(call[c])'
    <2>1. CallOK(c) /\ Story(call[c])
      BY DEF IInv
    <2>2. CASE call[c] = Idle
      BY <1>3, <2>2 DEF CallOK, HasKey, Story, Idle
    <2>3. CASE ShapeOK(call[c])
      <3>1. HasKey(call[c]) => entities'[call[c].fp] \in Ids
        BY <1>2, <2>1, <2>3 DEF CallOK, HasKey, ShapeOK
      <3>2. CallOK(c)'
        BY <1>2, <1>3, <2>1, <3>1 DEF CallOK
      <3>3. CASE call[c].fp \in Fps
        BY <1>2, <1>3, <3>2, <3>3, StoryKept
      <3>4. CASE call[c].fp \notin Fps
        <4>1. Story(call[c])'
          BY <1>3, <2>3, <3>4 DEF ShapeOK, Story
        <4>2. QED
          BY <3>2, <4>1
      <3>5. QED
        BY <3>3, <3>4
    <2>4. QED
      BY <2>1, <2>2, <2>3 DEF CallOK
  <1>5. QED
    BY <1>2, <1>3, <1>4 DEF IInv, QueueOK, Exclusive

LEMMA CrashStep == Crash => IInv'
  <1> SUFFICES ASSUME Crash PROVE IInv'
    OBVIOUS
  <1>1. MapsOK'
    BY Values DEF Crash, MapsOK
  <1>2. call' \in [Calls -> CallType] /\ \A c \in Calls : CallOK(c)' /\ Story(call[c])'
    BY DEF Crash, Idle, CallType, CallOK, Story, HasKey
  <1>3. QueueOK'
    BY EmptySeq DEF Crash, QueueOK
  <1>4. Exclusive'
    BY DEF Crash, Exclusive, Idle, Meets
  <1>5. QED
    BY <1>1, <1>2, <1>3, <1>4 DEF Crash, IInv

LEMMA NextOK == IInv /\ [Next]_vars => IInv'
  <1> SUFFICES ASSUME IInv, [Next]_vars PROVE IInv'
    OBVIOUS
  <1>1. ASSUME NEW d \in Calls, Step(d) PROVE IInv'
    <2>1. StepOK(d)
      BY <1>1, LoadKeyStep, LoadSubkeysStep, UnlockFailsStep, AlreadyUnlockedStep, UnlockKeyStep, SignStep,
         VerifyStep, PlainStep, GetKeyStep, DecryptStep, EncryptStep, SerializeStep,
         DeleteKeyStep DEF Step
    <2>2. QED
      BY <2>1, OneStep
  <1>2. ASSUME NEW c \in Calls, NEW r \in Requests, Queue(c, r) PROVE IInv'
    BY <1>2, QueueStep
  <1>3. CASE Execute
    BY <1>3, ExecuteStep
  <1>4. ASSUME NEW f \in Fps, getPublicKey(f) PROVE IInv'
    BY <1>4, GetPublicKeyStep
  <1>5. CASE Crash
    BY <1>5, CrashStep
  <1>6. CASE UNCHANGED vars
    BY <1>6 DEF vars, manager, IInv, MapsOK, CallOK, HasKey, Story, SignStory, UnlockStory,
                ChangeStory, QueueOK, Exclusive
  <1>7. QED
    BY <1>1, <1>2, <1>3, <1>4, <1>5, <1>6 DEF Next

(* What the stories rest on holds in every state.                           *)
THEOREM Invariance == Spec => []IInv
  BY InitOK, NextOK, PTL DEF Spec

(* The key manager of the library and the calls are what they are typed.    *)
THEOREM TypeCorrect == Spec => []TypeOK
  <1>1. IInv => TypeOK
    BY DEF IInv, MapsOK, QueueOK, TypeOK
  <1>2. QED
    BY <1>1, Invariance, PTL

(* Signing works with exactly the keys that were unlocked, and a key whose  *)
(* unlocking is reported is unlocked, whatever the calls about other keys   *)
(* and those that only use this one do meanwhile.                           *)
THEOREM SigningIsExact == Spec => []UnlockedSigns
  <1>1. ASSUME IInv PROVE UnlockedSigns
    BY <1>1 DEF IInv, Story, SignStory, UnlockStory, UnlockedSigns, Quiet
  <1>2. QED
    BY <1>1, Invariance, PTL

(* changeKeyPassword succeeds exactly with the password of the key that is  *)
(* passed in, whatever its fingerprint stood for, and returns a key that    *)
(* opens with the new one unless it was unlocked before.                    *)
THEOREM ChangeIsExact == Spec => []ChangeAnswers
  <1>1. ASSUME IInv, NEW c \in Calls, Quiet(c, "changeKeyPassword")
        PROVE  LET r == call[c]
               IN  /\ r.out = "ok" <=> Accepts(r)
                   /\ r.out = "ok" => r.result.lock = r.new
                   /\ r.out = "ok" /\ ~r.open /\ r.result.subs # {}
                         => Decrypts(r.result.sublock, r.new)
    <2> DEFINE r == call[c]
    <2>1. ShapeOK(r) /\ ChangeStory(r) /\ r.at = "done" /\ r.op = "changeKeyPassword"
      BY <1>1, CallIs DEF Quiet, IInv, Story
    <2>2. (r.out = "ok" <=> Accepts(r)) /\ (r.out = "ok" => r.result = Changed(r))
      BY <2>1 DEF ChangeStory
    <2>3. r.file \in Keys
      BY <2>1, FilesAssumption DEF ShapeOK
    <2>4. Changed(r).lock = r.new /\ (~r.open => Changed(r).sublock = Plain)
      BY <2>3 DEF Changed, Opened, Keys
    <2>5. QED
      BY <2>2, <2>4 DEF Decrypts
  <1>2. IInv => ChangeAnswers
    BY <1>1 DEF ChangeAnswers, Accepts
  <1>3. QED
    BY <1>2, Invariance, PTL

(* changeKeyPassword leaves the key loaded and locked with the new password *)
(* or, if it fails, locked or unlocked as it was.                           *)
THEOREM ChangeLocksAgain == Spec => []ChangeLocks
  <1>1. ASSUME IInv, NEW c \in Calls, Quiet(c, "changeKeyPassword")
        PROVE  LET r == call[c]
               IN  IF r.out = "ok" THEN r.fp \notin decrypted /\ Entity(r.fp).lock = r.new
                   ELSE r.fp \in decrypted <=> r.open
    <2>1. call[c].fp \in Fps /\ ChangeStory(call[c]) /\ call[c].at = "done"
      BY <1>1, CallIs DEF Quiet, IInv, Story, ShapeOK
    <2>2. QED
      BY <2>1, EntityIs DEF ChangeStory
  <1>2. IInv => ChangeLocks
    BY <1>1 DEF ChangeLocks
  <1>3. QED
    BY <1>2, Invariance, PTL

=============================================================================
