-------------------------- MODULE KeyBackendProofs --------------------------
(***************************************************************************)
(* Proofs about the two key backends.  On the disk, for any number of       *)
(* clients, names and values, an acknowledged change of a key stays.  With  *)
(* Vault, for any number of goroutines and any times that leave room for    *)
(* two logins, a request and the rounding in the minute validTokenTTL takes *)
(* off, no request carries an expired token.                                *)
(***************************************************************************)
EXTENDS DiskBackend, VaultManager, TLAPS

-----------------------------------------------------------------------------
(* The disk key backend.                                                    *)

(* What every step keeps.  The middle conjuncts are the reason: a client    *)
(* that is still alone has its name to itself, so that its files are as its *)
(* own calls left them, and nothing it has open was removed.                *)
InFlux(c) == pc[c] \notin {"idle", "readData", "readMeta"}
RequestsOK ==
    \A c \in Clients :
        /\ pc[c] # "idle" => request[c] \in Requests
        /\ pc[c] \in {"openData", "writeData"} => request[c] \in SaveOps
        /\ pc[c] \in {"openMeta", "writeMeta"} => request[c] \in SaveOps /\ request[c].op = "saveMeta"
        /\ pc[c] = "readMeta" => got[c] # None
OrphanOK == \A c \in orphan : pc[c] \in {"writeData", "writeMeta"}
AloneAt(c) ==
    /\ InFlux(c) /\ c \notin orphan
    /\ \A d \in Clients \ {c} : InFlux(d) => name(d) # name(c)
    /\ settled[name(c)] = Unknown
    /\ pc[c] = "writeData" => files[name(c)] = Cut
    /\ pc[c] = "writeMeta" => metas[name(c)] = Cut
    /\ pc[c] \in {"openMeta", "writeMeta"} => files[name(c)] = request[c].data
    /\ pc[c] = "removeMeta" => files[name(c)] = Missing
AloneOK == \A c \in alone : AloneAt(c)
IInv == TypeOK /\ RequestsOK /\ OrphanOK /\ AloneOK /\ AcknowledgedStays /\ NothingPending

-----------------------------------------------------------------------------
LEMMA InitOK == Init => IInv
<1>. SUFFICES ASSUME Init PROVE IInv
  OBVIOUS
<1>1. TypeOK
  BY DEF Init, TypeOK, Steps
<1>2. RequestsOK /\ OrphanOK /\ AloneOK /\ AcknowledgedStays /\ NothingPending
  BY DEF Init, RequestsOK, OrphanOK, AloneOK, AcknowledgedStays, NothingPending
<1>. QED
  BY <1>1, <1>2 DEF IInv

(* The parts of a request.                                                  *)
LEMMA RequestParts ==
    ASSUME NEW r \in Requests
    PROVE  /\ r.name \in Names
           /\ r \in SaveOps => r.data \in Datas /\ (r.op = "saveMeta" => r.meta \in Metas)
BY DEF Requests, SaveOps, DeleteOps, ReadOps

LEMMA TypeStep == IInv /\ [Next]_vars => TypeOK' /\ RequestsOK'
<1>. SUFFICES ASSUME IInv, [Next]_vars PROVE TypeOK' /\ RequestsOK'
  OBVIOUS
<1>. USE DEF IInv
<1>1. ASSUME NEW c \in Clients, NEW n \in Names, Change(c, n) PROVE TypeOK' /\ RequestsOK'
  <2>1. ASSUME NEW r \in Requests, NEW step \in {"openData", "find"}, StartChange(c, r.name, step),
               request' = [request EXCEPT ![c] = r], step = "openData" => r \in SaveOps
        PROVE  TypeOK' /\ RequestsOK'
    <3>1. r.name \in Names
      BY RequestParts
    <3>2. TypeOK'
      BY <2>1, <3>1 DEF StartChange, Goto, TypeOK, Steps
    <3>3. RequestsOK'
      BY <2>1 DEF StartChange, Goto, TypeOK, RequestsOK
    <3>. QED
      BY <3>2, <3>3
  <2>0. CASE AnswersOnly(c)
    BY <2>0 DEF AnswersOnly, TypeOK, RequestsOK
  <2>2. ASSUME NEW d \in Datas, Save(c, n, d) PROVE TypeOK' /\ RequestsOK'
    <3>1. [op |-> "save", name |-> n, data |-> d, meta |-> None] \in SaveOps
      BY DEF SaveOps
    <3>. QED
      BY <3>1, <2>0, <2>1, <2>2 DEF Save, Requests
  <2>3. ASSUME NEW d \in Datas, NEW m \in Metas, SaveWithMetadata(c, n, d, m)
        PROVE  TypeOK' /\ RequestsOK'
    <3>1. [op |-> "saveMeta", name |-> n, data |-> d, meta |-> m] \in SaveOps
      BY DEF SaveOps
    <3>. QED
      BY <3>1, <2>1, <2>3 DEF SaveWithMetadata, Requests
  <2>4. CASE Delete(c, n)
    <3>1. [op |-> "delete", name |-> n] \in Requests
      BY DEF DeleteOps, Requests
    <3>. QED
      BY <3>1, <2>1, <2>4 DEF Delete
  <2>. QED
    BY <1>1, <2>2, <2>3, <2>4 DEF Change
<1>2. ASSUME NEW c \in Clients, NEW n \in Names, Read(c, n) PROVE TypeOK' /\ RequestsOK'
  <2>1. [op |-> "read", name |-> n] \in Requests
    BY DEF ReadOps, Requests
  <2>. QED
    BY <1>2, <2>1 DEF Read, Goto, TypeOK, Steps, RequestsOK
<1>3. ASSUME NEW c \in Clients, Work(c) PROVE TypeOK' /\ RequestsOK'
  <2>1. /\ pc[c] # "idle" => name(c) \in Names
        /\ pc[c] \in {"openData", "writeData"} => request[c].data \in Datas
        /\ pc[c] \in {"openMeta", "writeMeta"} =>
               request[c].data \in Datas /\ request[c].meta \in Metas
    BY RequestParts DEF RequestsOK, name
  <2>2. ASSUME NEW p \in Outcomes, Acknowledge(c, p) \/ Fail(c), pc[c] # "idle",
               \A d \in Clients \ {c} : got'[d] = got[d]
        PROVE  /\ pc' \in [Clients -> Steps] /\ request' \in [Clients -> Requests \cup {None}]
               /\ orphan' \in SUBSET Clients /\ alone' \in SUBSET Clients
               /\ settled' \in [Names -> Outcomes \cup {Unknown}]
               /\ RequestsOK'
    BY <2>1, <2>2 DEF Acknowledge, Fail, Return, TypeOK, Steps, RequestsOK
  <2>3. ASSUME NEW step \in Steps \ {"idle"}, pc[c] # "idle", Goto(c, step),
               UNCHANGED <<request, settled>>, orphan' \in SUBSET Clients, alone' \in SUBSET alone,
               step = "writeData" => pc[c] = "openData",
               step \in {"openMeta", "writeMeta"} =>
                   request[c] \in SaveOps /\ request[c].op = "saveMeta",
               step # "openData",
               \A d \in Clients \ {c} : got'[d] = got[d], step = "readMeta" => got'[c] # None
        PROVE  /\ pc' \in [Clients -> Steps] /\ request' \in [Clients -> Requests \cup {None}]
               /\ orphan' \in SUBSET Clients /\ alone' \in SUBSET Clients
               /\ settled' \in [Names -> Outcomes \cup {Unknown}]
               /\ RequestsOK'
    BY <2>3 DEF Goto, TypeOK, Steps, RequestsOK
  <2>4. CASE OpenData(c)
    <3>1. [data |-> Cut, meta |-> Cut] \in Outcomes
      BY DEF Outcomes, Contents
    <3>2. CASE Fail(c) /\ UNCHANGED <<files, metas, got>>
      BY <3>1, <3>2, <2>2, <2>4 DEF OpenData, TypeOK
    <3>3. CASE /\ files' = [files EXCEPT ![name(c)] = Cut] /\ Goto(c, "writeData")
               /\ UNCHANGED <<request, orphan, alone, settled, metas, got>>
      <4>1. "writeData" \in Steps \ {"idle"} /\ pc[c] = "openData"
        BY <2>4 DEF Steps, OpenData
      <4>. QED
        BY <3>3, <2>1, <2>3, <4>1 DEF TypeOK
    <3>. QED
      BY <2>4, <3>2, <3>3 DEF OpenData
  <2>5. CASE WriteData(c)
    <3>1. pc[c] = "writeData" /\ request[c] \in SaveOps /\ request[c].data \in Datas
      BY <2>5, <2>1 DEF WriteData, RequestsOK
    <3>2. [data |-> request[c].data, meta |-> Unknown] \in Outcomes
      BY <3>1 DEF Outcomes, Contents
    <3>3. files' \in [Names -> Datas \cup {Missing, Cut}] /\ UNCHANGED <<metas, got>>
      BY <2>5, <2>1, <3>1 DEF WriteData, Written, Damaged, TypeOK
    <3>4. CASE Fail(c) \/ Acknowledge(c, [data |-> request[c].data, meta |-> Unknown])
      BY <3>1, <3>2, <3>3, <3>4, <2>2 DEF TypeOK
    <3>5. CASE /\ request[c].op # "save" /\ Goto(c, "openMeta") /\ orphan' = orphan \ {c}
               /\ UNCHANGED <<request, alone, settled>>
      <4>1. "openMeta" \in Steps \ {"idle"} /\ request[c].op = "saveMeta"
        BY <3>1, <3>5 DEF Steps, SaveOps
      <4>2. orphan' \in SUBSET Clients
        BY <3>5 DEF TypeOK
      <4>. QED
        BY <3>1, <3>3, <3>5, <4>1, <4>2, <2>3 DEF TypeOK
    <3>. QED
      BY <2>5, <3>4, <3>5 DEF WriteData
  <2>6. CASE OpenMeta(c)
    <3>1. pc[c] = "openMeta" /\ request[c] \in SaveOps /\ request[c].op = "saveMeta"
      BY <2>6 DEF OpenMeta, RequestsOK
    <3>2. [data |-> Cut, meta |-> Cut] \in Outcomes
      BY DEF Outcomes, Contents
    <3>3. CASE Fail(c) /\ UNCHANGED <<files, metas, got>>
      BY <3>1, <3>2, <3>3, <2>2 DEF TypeOK
    <3>4. CASE /\ metas' = [metas EXCEPT ![name(c)] = Cut] /\ Goto(c, "writeMeta")
               /\ UNCHANGED <<request, orphan, alone, settled, files, got>>
      <4>1. "writeMeta" \in Steps \ {"idle"}
        BY DEF Steps
      <4>. QED
        BY <3>1, <3>4, <2>1, <2>3, <4>1 DEF TypeOK
    <3>. QED
      BY <2>6, <3>3, <3>4 DEF OpenMeta
  <2>7. CASE WriteMeta(c)
    <3>1. pc[c] = "writeMeta" /\ request[c].data \in Datas /\ request[c].meta \in Metas
      BY <2>7, <2>1 DEF WriteMeta
    <3>2. [data |-> request[c].data, meta |-> request[c].meta] \in Outcomes
      BY <3>1 DEF Outcomes, Contents
    <3>3. metas' \in [Names -> Metas \cup {Missing, Cut}] /\ UNCHANGED <<files, got>>
      BY <2>7, <2>1, <3>1 DEF WriteMeta, Written, Damaged, TypeOK
    <3>4. Fail(c) \/ Acknowledge(c, [data |-> request[c].data, meta |-> request[c].meta])
      BY <2>7 DEF WriteMeta
    <3>. QED
      BY <3>1, <3>2, <3>3, <3>4, <2>2 DEF TypeOK
  <2>8. CASE Find(c)
    <3>1. [data |-> Cut, meta |-> Cut] \in Outcomes /\ pc[c] = "find"
      BY <2>8 DEF Outcomes, Contents, Find
    <3>2. CASE Fail(c) /\ UNCHANGED <<files, metas, got>>
      BY <3>1, <3>2, <2>2 DEF TypeOK
    <3>3. CASE Goto(c, "removeData") /\ UNCHANGED <<request, orphan, alone, settled, files, metas, got>>
      <4>1. "removeData" \in Steps \ {"idle"}
        BY DEF Steps
      <4>. QED
        BY <3>1, <3>3, <2>3, <4>1 DEF TypeOK
    <3>. QED
      BY <2>8, <3>2, <3>3 DEF Find
  <2>9. CASE RemoveData(c)
    <3>1. /\ pc[c] = "removeData" /\ "removeMeta" \in Steps \ {"idle"}
          /\ files' \in [Names -> Datas \cup {Missing, Cut}] /\ UNCHANGED <<metas, got>>
          /\ orphan' \in SUBSET Clients /\ alone' \in SUBSET alone
          /\ Goto(c, "removeMeta") /\ UNCHANGED <<request, settled>>
      BY <2>9, <2>1 DEF RemoveData, Unlinked, TypeOK, Steps
    <3>. QED
      BY <3>1, <2>3 DEF TypeOK
  <2>10. CASE RemoveMeta(c)
    <3>1. /\ metas' \in [Names -> Metas \cup {Missing, Cut}] /\ UNCHANGED <<files, got>>
          /\ orphan' \in SUBSET Clients
      BY <2>10, <2>1 DEF RemoveMeta, Unlinked, TypeOK
    <3>2. /\ alone' \in SUBSET Clients /\ pc' \in [Clients -> Steps]
          /\ request' \in [Clients -> Requests \cup {None}]
      BY <2>10 DEF RemoveMeta, TypeOK, Steps
    <3>3. [data |-> Missing, meta |-> Unknown] \in Outcomes
      BY DEF Outcomes, Contents
    <3>4. settled' \in [Names -> Outcomes \cup {Unknown}]
      BY <2>10, <3>3 DEF RemoveMeta, TypeOK
    <3>5. RequestsOK'
      BY <2>10 DEF RemoveMeta, RequestsOK, TypeOK
    <3>. QED
      BY <3>1, <3>2, <3>4, <3>5 DEF TypeOK
  <2>11. CASE ReadData(c)
    <3>1. [data |-> Cut, meta |-> Cut] \in Outcomes /\ pc[c] = "readData" /\ name(c) \in Names
      BY <2>11, <2>1 DEF Outcomes, Contents, ReadData
    <3>2. CASE Fail(c) /\ UNCHANGED <<files, metas, got>>
      BY <3>1, <3>2, <2>2 DEF TypeOK
    <3>3. CASE /\ got' = [got EXCEPT ![c] = [data |-> files[name(c)], meta |-> Missing]]
               /\ Goto(c, "readMeta") /\ UNCHANGED <<request, orphan, alone, settled, files, metas>>
      <4>1. "readMeta" \in Steps \ {"idle"}
        BY DEF Steps
      <4>2. [data |-> files[name(c)], meta |-> Missing] \in Pairs
        BY <3>1 DEF TypeOK, Pairs, Contents
      <4>3. (\A d \in Clients \ {c} : got'[d] = got[d]) /\ got'[c] # None
        BY <3>3, <4>2, UnknownAssumption DEF TypeOK
      <4>. QED
        BY <3>1, <3>3, <2>3, <4>1, <4>2, <4>3 DEF TypeOK
    <3>. QED
      BY <2>11, <3>2, <3>3 DEF ReadData
  <2>12. CASE ReadMeta(c)
    <3>1. [data |-> Cut, meta |-> Cut] \in Outcomes /\ pc[c] = "readMeta" /\ name(c) \in Names
      BY <2>12, <2>1 DEF Outcomes, Contents, ReadMeta
    <3>2. got' \in [Clients -> Pairs \cup {None}]
      <4>1. PICK m \in Contents : got' = [got EXCEPT ![c].meta = m]
        BY <3>1, <2>12 DEF ReadMeta, TypeOK, Contents
      <4>2. got[c] \in Pairs => [got[c] EXCEPT !.meta = m] \in Pairs
        BY <4>1 DEF Pairs
      <4>. QED
        BY <3>1, <4>1, <4>2, <2>12 DEF ReadMeta, TypeOK, RequestsOK
    <3>3. \A d \in Clients \ {c} : got'[d] = got[d]
      BY <2>12 DEF ReadMeta, TypeOK
    <3>. QED
      BY <3>1, <3>2, <3>3, <2>2, <2>12 DEF ReadMeta, TypeOK
  <2>. QED
    BY <1>3, <2>4, <2>5, <2>6, <2>7, <2>8, <2>9, <2>10, <2>11, <2>12 DEF Work
<1>4. CASE Crash
  BY <1>4 DEF Crash, TypeOK, Steps, RequestsOK
<1>5. CASE UNCHANGED vars
  BY <1>5 DEF vars, TypeOK, RequestsOK
<1>. QED
  BY <1>1, <1>2, <1>3, <1>4, <1>5 DEF Next

(* What is known of a name, stated without the set Changing: it is so, and  *)
(* nobody is changing it.                                                   *)
SettledAt(n) ==
    settled[n] # Unknown =>
        /\ files[n] = settled[n].data /\ settled[n].meta \in {metas[n], Unknown}
        /\ \A c \in Clients : InFlux(c) => name(c) # n
SettledOK == \A n \in Names : SettledAt(n)

LEMMA SettledMeans == SettledOK <=> AcknowledgedStays /\ NothingPending
BY DEF SettledOK, SettledAt, AcknowledgedStays, NothingPending, Changing, InFlux

(* A call of one client on the files of a name leaves everything that is    *)
(* about other clients and other names as it was; what remains to be shown  *)
(* of it is what it does to its own.                                        *)
OwnName(c) ==
    /\ \A d \in Clients \ {c} : pc'[d] = pc[d] /\ request'[d] = request[d]
    /\ InFlux(c)' => request'[c] = request[c]
    /\ \A n \in Names \ {name(c)} :
           files'[n] = files[n] /\ metas'[n] = metas[n] /\ settled'[n] = settled[n]
    /\ alone' \in SUBSET alone
    /\ \A d \in orphan' : d \in orphan \/ (d # c /\ InFlux(d) /\ name(d) = name(c))

LEMMA OthersKeep ==
    ASSUME TypeOK, RequestsOK, AloneOK, SettledOK,
           NEW c \in Clients, InFlux(c), OwnName(c),
           c \in alone' => AloneAt(c)',
           \A n \in Names : n = name(c) => SettledAt(n)'
    PROVE  AloneOK' /\ SettledOK'
<1>0. alone \in SUBSET Clients /\ \A d \in Clients : InFlux(d) => name(d) \in Names
  BY RequestParts DEF TypeOK, RequestsOK, InFlux, name
<1>1. /\ \A d \in Clients \ {c} : (InFlux(d)' <=> InFlux(d)) /\ name(d)' = name(d)
      /\ InFlux(c)' => name(c)' = name(c)
  BY DEF OwnName, InFlux, name
<1>2. ASSUME NEW d \in alone' PROVE AloneAt(d)'
  <2>1. CASE d = c
    BY <2>1
  <2>2. CASE d # c
    <3>1. d \in alone /\ d \in Clients \ {c} /\ AloneAt(d)
      BY <1>0, <2>2 DEF OwnName, AloneOK
    <3>2. name(d) \in Names \ {name(c)}
      BY <1>0, <3>1 DEF AloneAt
    <3>3. InFlux(d)' /\ d \notin orphan'
      BY <1>1, <3>1, <3>2 DEF AloneAt, OwnName
    <3>4. \A e \in Clients \ {d} : InFlux(e)' => name(e)' # name(d)'
      BY <1>1, <3>1 DEF AloneAt
    <3>. QED
      BY <1>1, <3>1, <3>2, <3>3, <3>4 DEF AloneAt, OwnName
  <2>. QED
    BY <2>1, <2>2
<1>3. ASSUME NEW n \in Names PROVE SettledAt(n)'
  <2>1. CASE n = name(c)
    BY <2>1
  <2>2. CASE n # name(c)
    BY <1>1, <2>2 DEF SettledOK, SettledAt, OwnName
  <2>. QED
    BY <2>1, <2>2
<1>. QED
  BY <1>2, <1>3 DEF AloneOK, SettledOK

(* Who changes a name has the settled value of it forgotten.                *)
LEMMA InFluxMeans ==
    ASSUME TypeOK, RequestsOK, SettledOK, NEW c \in Clients, InFlux(c)
    PROVE  name(c) \in Names /\ settled[name(c)] = Unknown
BY RequestParts DEF RequestsOK, InFlux, name, SettledOK, SettledAt

(* A request that fails.                                                    *)
LEMMA FailStep ==
    ASSUME TypeOK, RequestsOK, AloneOK, SettledOK, NEW c \in Clients,
           Fail(c),
           \A n \in Names : \/ files'[n] = files[n] /\ metas'[n] = metas[n]
                            \/ InFlux(c) /\ n = name(c)
    PROVE  AloneOK' /\ SettledOK'
<1>1. \A d \in Clients : InFlux(d)' => d # c /\ InFlux(d) /\ name(d)' = name(d)
  BY DEF Fail, Return, InFlux, name, TypeOK
<1>2. \A d \in Clients \ {c} : pc'[d] = pc[d] /\ request'[d] = request[d] /\ name(d)' = name(d)
                               /\ (InFlux(d)' <=> InFlux(d))
  BY DEF Fail, Return, InFlux, name, TypeOK
<1>3. alone' = alone \ {c} /\ orphan' = orphan \ {c} /\ alone \in SUBSET Clients
  BY DEF Fail, Return, TypeOK
<1>4. ASSUME NEW d \in alone' PROVE AloneAt(d)'
  <2>1. d \in alone /\ d \in Clients \ {c} /\ AloneAt(d)
    BY <1>3 DEF AloneOK
  <2>2. name(d) \in Names /\ (InFlux(c) => name(d) # name(c))
    BY <2>1, InFluxMeans DEF AloneAt
  <2>. QED
    BY <1>1, <1>2, <1>3, <2>1, <2>2 DEF AloneAt, Fail
<1>5. ASSUME NEW n \in Names PROVE SettledAt(n)'
  <2>1. InFlux(c) => settled[name(c)] = Unknown
    BY InFluxMeans
  <2>. QED
    BY <1>1, <2>1 DEF SettledOK, SettledAt, Fail
<1>. QED
  BY <1>4, <1>5 DEF AloneOK, SettledOK

(* A request that is answered, when what it answers for is so.              *)
LEMMA AcknowledgeStep ==
    ASSUME TypeOK, RequestsOK, AloneOK, SettledOK, NEW c \in Clients, InFlux(c), NEW p,
           pc' = [pc EXCEPT ![c] = "idle"], request' = [request EXCEPT ![c] = None],
           alone' = alone \ {c},
           \A d \in orphan' : d \in orphan \/ (d # c /\ InFlux(d) /\ name(d) = name(c)),
           settled' = IF c \in alone THEN [settled EXCEPT ![name(c)] = p] ELSE settled,
           \A n \in Names \ {name(c)} : files'[n] = files[n] /\ metas'[n] = metas[n],
           c \in alone => files'[name(c)] = p.data /\ p.meta \in {metas'[name(c)], Unknown}
    PROVE  AloneOK' /\ SettledOK'
<1>0. name(c) \in Names /\ settled[name(c)] = Unknown
  BY InFluxMeans
<1>1. OwnName(c) /\ c \notin alone' /\ ~InFlux(c)'
  BY DEF OwnName, InFlux, TypeOK
<1>2. ASSUME NEW n \in Names, n = name(c) PROVE SettledAt(n)'
  <2>1. CASE c \notin alone
    BY <1>0, <1>2, <2>1 DEF SettledAt
  <2>2. CASE c \in alone
    <3>1. settled'[n] = p
      BY <1>2, <2>2 DEF TypeOK
    <3>2. AloneAt(c)
      BY <2>2 DEF AloneOK
    <3>3. \A d \in Clients : InFlux(d)' => d # c /\ InFlux(d) /\ name(d)' = name(d)
      BY <1>1 DEF InFlux, name, TypeOK
    <3>4. \A d \in Clients : InFlux(d)' => name(d)' # n
      BY <1>2, <3>2, <3>3 DEF AloneAt
    <3>. QED
      BY <1>2, <2>2, <3>1, <3>4 DEF SettledAt
  <2>. QED
    BY <2>1, <2>2
<1>. QED
  BY <1>1, <1>2, OthersKeep

LEMMA OrphanStep == IInv /\ [Next]_vars => OrphanOK'
<1>. SUFFICES ASSUME IInv, [Next]_vars PROVE OrphanOK'
  OBVIOUS
<1>. USE DEF IInv, OrphanOK
<1>1. ASSUME NEW c \in Clients, NEW n \in Names, Change(c, n) \/ Read(c, n) PROVE OrphanOK'
  BY <1>1 DEF Change, Save, AnswersOnly, SaveWithMetadata, Delete, StartChange, Goto, Read, TypeOK
<1>2. ASSUME NEW c \in Clients, Fail(c) PROVE OrphanOK'
  BY <1>2 DEF Fail, Return, TypeOK
<1>3. ASSUME NEW c \in Clients, NEW p, Acknowledge(c, p) PROVE OrphanOK'
  BY <1>3 DEF Acknowledge, Return, TypeOK
<1>4. ASSUME NEW c \in Clients, Work(c) PROVE OrphanOK'
  <2>1. CASE OpenData(c) \/ OpenMeta(c) \/ Find(c) \/ ReadData(c)
    BY <1>2, <2>1 DEF OpenData, OpenMeta, Find, ReadData, Goto, TypeOK
  <2>2. CASE WriteData(c) \/ WriteMeta(c) \/ ReadMeta(c)
    BY <1>2, <1>3, <2>2 DEF WriteData, WriteMeta, ReadMeta, Goto, TypeOK
  <2>3. CASE RemoveData(c) \/ RemoveMeta(c)
    BY <2>3 DEF RemoveData, RemoveMeta, Unlinked, Goto, TypeOK
  <2>. QED
    BY <1>4, <2>1, <2>2, <2>3 DEF Work
<1>. QED
  BY <1>1, <1>4 DEF Next, Crash, vars

LEMMA StartStep ==
    ASSUME TypeOK, RequestsOK, OrphanOK, AloneOK, SettledOK, NEW c \in Clients,
           NEW r \in Requests, NEW step \in {"openData", "find"}, StartChange(c, r.name, step),
           request' = [request EXCEPT ![c] = r]
    PROVE  AloneOK' /\ SettledOK'
<1>0. r.name \in Names /\ c \notin alone /\ pc[c] = "idle" /\ alone \in SUBSET Clients
  BY RequestParts DEF StartChange, AloneOK, AloneAt, InFlux, TypeOK
<1>1. /\ \A d \in Clients \ {c} : pc'[d] = pc[d] /\ request'[d] = request[d]
      /\ pc'[c] = step /\ request'[c] = r /\ UNCHANGED <<files, metas, orphan>>
      /\ settled' = [settled EXCEPT ![r.name] = Unknown]
  BY DEF StartChange, Goto, TypeOK
<1>2. /\ \A d \in Clients \ {c} : (InFlux(d)' <=> InFlux(d)) /\ name(d)' = name(d)
      /\ InFlux(c)' /\ name(c)' = r.name
  BY <1>1 DEF InFlux, name
<1>3. Changing(r.name) = {d \in Clients : InFlux(d) /\ name(d) = r.name}
  BY DEF Changing, InFlux
<1>4. settled'[r.name] = Unknown /\ \A n \in Names \ {r.name} : settled'[n] = settled[n]
  BY <1>0, <1>1 DEF TypeOK
<1>5. c \notin orphan
  BY <1>0 DEF OrphanOK
<1>6. ASSUME NEW d \in alone' PROVE AloneAt(d)'
  <2>1. CASE d = c
    <3>1. \A e \in Clients \ {c} : InFlux(e) => name(e) # r.name
      BY <1>0, <1>3, <2>1 DEF StartChange
    <3>. QED
      BY <1>1, <1>2, <1>4, <1>5, <2>1, <3>1 DEF AloneAt
  <2>2. CASE d # c
    <3>1. d \in alone /\ d \in Clients /\ AloneAt(d)
      BY <1>0, <2>2 DEF StartChange, AloneOK
    <3>2. name(d) # r.name
      BY <1>3, <2>2, <3>1 DEF StartChange, AloneAt
    <3>3. name(d) \in Names
      BY <3>1, InFluxMeans DEF AloneAt
    <3>. QED
      BY <1>1, <1>2, <1>4, <2>2, <3>1, <3>2, <3>3 DEF AloneAt
  <2>. QED
    BY <2>1, <2>2
<1>7. ASSUME NEW n \in Names PROVE SettledAt(n)'
  BY <1>1, <1>2, <1>4 DEF SettledOK, SettledAt
<1>. QED
  BY <1>6, <1>7 DEF AloneOK, SettledOK

LEMMA SettledStep == IInv /\ [Next]_vars => AloneOK' /\ SettledOK'
<1>. SUFFICES ASSUME IInv, [Next]_vars PROVE AloneOK' /\ SettledOK'
  OBVIOUS
<1>0. TypeOK /\ RequestsOK /\ OrphanOK /\ AloneOK /\ SettledOK
  BY SettledMeans DEF IInv
<1>1. ASSUME NEW c \in Clients, NEW n \in Names, Change(c, n) PROVE AloneOK' /\ SettledOK'
  <2>1. CASE AnswersOnly(c)
    BY <1>0, <2>1 DEF AnswersOnly, AloneOK, AloneAt, SettledOK, SettledAt, InFlux, name
  <2>2. CASE ~AnswersOnly(c)
    <3>1. PICK r \in Requests, step \in {"openData", "find"} :
              StartChange(c, r.name, step) /\ request' = [request EXCEPT ![c] = r]
      BY <1>1, <2>2 DEF Change, Save, SaveWithMetadata, Delete, Requests, SaveOps, DeleteOps
    <3>. QED
      BY <1>0, <3>1, StartStep
  <2>. QED
    BY <2>1, <2>2
<1>2. ASSUME NEW c \in Clients, InFlux(c), Goto(c, "writeData") \/ Goto(c, "openMeta") \/ Goto(c, "writeMeta")
                                           \/ Goto(c, "removeData") \/ Goto(c, "removeMeta"),
             UNCHANGED <<request, settled>>, alone' \in SUBSET alone,
             \A d \in orphan' : d \in orphan \/ (d # c /\ InFlux(d) /\ name(d) = name(c)),
             \A n \in Names \ {name(c)} : files'[n] = files[n] /\ metas'[n] = metas[n],
             c \in alone' =>
                 /\ pc'[c] = "writeData" => files'[name(c)] = Cut
                 /\ pc'[c] = "writeMeta" => metas'[name(c)] = Cut
                 /\ pc'[c] \in {"openMeta", "writeMeta"} => files'[name(c)] = request[c].data
                 /\ pc'[c] = "removeMeta" => files'[name(c)] = Missing
      PROVE  AloneOK' /\ SettledOK'
  <2>1. name(c) \in Names /\ settled[name(c)] = Unknown
    BY <1>0, <1>2, InFluxMeans
  <2>2. OwnName(c) /\ InFlux(c)' /\ name(c)' = name(c)
    BY <1>0, <1>2 DEF OwnName, Goto, InFlux, name, TypeOK
  <2>3. ASSUME c \in alone' PROVE AloneAt(c)'
    <3>1. AloneAt(c)
      BY <1>0, <1>2, <2>3 DEF AloneOK
    <3>2. \A d \in Clients \ {c} : InFlux(d)' => name(d)' # name(c)
      BY <2>2, <3>1 DEF AloneAt, OwnName, InFlux, name
    <3>3. c \notin orphan' /\ settled'[name(c)] = Unknown
      BY <1>2, <2>1, <3>1 DEF AloneAt
    <3>. QED
      BY <1>2, <2>2, <2>3, <3>2, <3>3 DEF AloneAt
  <2>4. ASSUME NEW n \in Names, n = name(c) PROVE SettledAt(n)'
    BY <1>2, <2>1, <2>4 DEF SettledAt
  <2>. QED
    BY <1>0, <1>2, <2>2, <2>3, <2>4, OthersKeep
<1>3. ASSUME NEW c \in Clients, OpenData(c) PROVE AloneOK' /\ SettledOK'
  <2>1. CASE Fail(c) /\ UNCHANGED <<files, metas>>
    BY <1>0, <2>1, FailStep
  <2>2. CASE /\ files' = [files EXCEPT ![name(c)] = Cut] /\ Goto(c, "writeData")
             /\ UNCHANGED <<request, orphan, alone, settled, metas>>
    <3>1. InFlux(c)
      BY <1>3 DEF OpenData, InFlux
    <3>2. files'[name(c)] = Cut /\ pc'[c] = "writeData"
      BY <1>0, <2>2, <3>1, InFluxMeans DEF TypeOK, Goto
    <3>. QED
      BY <1>0, <1>2, <2>2, <3>1, <3>2 DEF TypeOK
  <2>. QED
    BY <1>3, <2>1, <2>2 DEF OpenData
<1>4. ASSUME NEW c \in Clients, WriteData(c) PROVE AloneOK' /\ SettledOK'
  <2>1. pc[c] = "writeData" /\ InFlux(c) /\ UNCHANGED metas
    BY <1>4 DEF WriteData, InFlux
  <2>2. CASE Fail(c) /\ \E x \in Damaged(c, files[name(c)]) : files' = [files EXCEPT ![name(c)] = x]
    <3>1. name(c) \in Names /\ \A n \in Names \ {name(c)} : files'[n] = files[n] /\ metas'[n] = metas[n]
      BY <1>0, <2>1, <2>2, InFluxMeans DEF TypeOK
    <3>. QED
      BY <1>0, <2>1, <2>2, <3>1, FailStep
  <2>3. CASE \E x \in Written(c, files[name(c)], request[c].data) : files' = [files EXCEPT ![name(c)] = x]
    <3>1. name(c) \in Names /\ \A n \in Names \ {name(c)} : files'[n] = files[n] /\ metas'[n] = metas[n]
      BY <1>0, <2>1, <2>3, InFluxMeans DEF TypeOK
    <3>2. c \in alone => files'[name(c)] = request[c].data
      BY <1>0, <2>1, <2>3, <3>1 DEF AloneOK, AloneAt, Written, TypeOK
    <3>3. CASE Acknowledge(c, [data |-> request[c].data, meta |-> Unknown])
      BY <1>0, <2>1, <3>1, <3>2, <3>3, AcknowledgeStep DEF Acknowledge, Return
    <3>4. CASE Goto(c, "openMeta") /\ orphan' = orphan \ {c} /\ UNCHANGED <<request, alone, settled>>
      <4>1. pc'[c] = "openMeta"
        BY <1>0, <3>4 DEF Goto, TypeOK
      <4>. QED
        BY <1>2, <2>1, <3>1, <3>2, <3>4, <4>1
    <3>. QED
      BY <1>4, <2>2, <3>3, <3>4 DEF WriteData
  <2>. QED
    BY <1>4, <2>2, <2>3 DEF WriteData
<1>5. ASSUME NEW c \in Clients, OpenMeta(c) PROVE AloneOK' /\ SettledOK'
  <2>1. CASE Fail(c) /\ UNCHANGED <<files, metas>>
    BY <1>0, <2>1, FailStep
  <2>2. CASE /\ metas' = [metas EXCEPT ![name(c)] = Cut] /\ Goto(c, "writeMeta")
             /\ UNCHANGED <<request, orphan, alone, settled, files>>
    <3>1. InFlux(c) /\ pc[c] = "openMeta"
      BY <1>5 DEF OpenMeta, InFlux
    <3>2. metas'[name(c)] = Cut /\ pc'[c] = "writeMeta"
      BY <1>0, <2>2, <3>1, InFluxMeans DEF TypeOK, Goto
    <3>3. c \in alone => files[name(c)] = request[c].data
      BY <1>0, <3>1 DEF AloneOK, AloneAt
    <3>. QED
      BY <1>0, <1>2, <2>2, <3>1, <3>2, <3>3 DEF TypeOK
  <2>. QED
    BY <1>5, <2>1, <2>2 DEF OpenMeta
<1>6. ASSUME NEW c \in Clients, WriteMeta(c) PROVE AloneOK' /\ SettledOK'
  <2>1. pc[c] = "writeMeta" /\ InFlux(c) /\ UNCHANGED files
    BY <1>6 DEF WriteMeta, InFlux
  <2>2. CASE Fail(c) /\ \E x \in Damaged(c, metas[name(c)]) : metas' = [metas EXCEPT ![name(c)] = x]
    <3>1. name(c) \in Names /\ \A n \in Names \ {name(c)} : files'[n] = files[n] /\ metas'[n] = metas[n]
      BY <1>0, <2>1, <2>2, InFluxMeans DEF TypeOK
    <3>. QED
      BY <1>0, <2>1, <2>2, <3>1, FailStep
  <2>3. CASE /\ \E x \in Written(c, metas[name(c)], request[c].meta) : metas' = [metas EXCEPT ![name(c)] = x]
             /\ Acknowledge(c, [data |-> request[c].data, meta |-> request[c].meta])
    <3>1. name(c) \in Names /\ \A n \in Names \ {name(c)} : files'[n] = files[n] /\ metas'[n] = metas[n]
      BY <1>0, <2>1, <2>3, InFluxMeans DEF TypeOK
    <3>2. c \in alone => files'[name(c)] = request[c].data /\ metas'[name(c)] = request[c].meta
      BY <1>0, <2>1, <2>3, <3>1 DEF AloneOK, AloneAt, Written, TypeOK
    <3>. QED
      BY <1>0, <2>1, <2>3, <3>1, <3>2, AcknowledgeStep DEF Acknowledge, Return
  <2>. QED
    BY <1>6, <2>2, <2>3 DEF WriteMeta
<1>7. ASSUME NEW c \in Clients, Find(c) PROVE AloneOK' /\ SettledOK'
  <2>1. CASE Fail(c) /\ UNCHANGED <<files, metas>>
    BY <1>0, <2>1, FailStep
  <2>2. CASE Goto(c, "removeData") /\ UNCHANGED <<files, metas, request, orphan, alone, settled>>
    <3>1. InFlux(c) /\ pc'[c] = "removeData"
      BY <1>0, <1>7, <2>2 DEF Find, InFlux, Goto, TypeOK
    <3>. QED
      BY <1>2, <2>2, <3>1
  <2>. QED
    BY <1>7, <2>1, <2>2 DEF Find
<1>8. ASSUME NEW c \in Clients, RemoveData(c) PROVE AloneOK' /\ SettledOK'
  <2>1. /\ pc[c] = "removeData" /\ InFlux(c) /\ pc'[c] = "removeMeta"
        /\ Goto(c, "removeMeta") /\ UNCHANGED <<metas, request, settled>>
    BY <1>0, <1>8 DEF RemoveData, InFlux, Goto, TypeOK
  <2>2. CASE /\ files' = [files EXCEPT ![name(c)] = Missing]
             /\ orphan' = orphan \cup Unlinked(c, "writeData") /\ UNCHANGED alone
    <3>1. name(c) \in Names /\ files'[name(c)] = Missing
      BY <1>0, <2>1, <2>2, InFluxMeans DEF TypeOK
    <3>2. \A d \in orphan' : d \in orphan \/ (d # c /\ InFlux(d) /\ name(d) = name(c))
      BY <2>2 DEF Unlinked, InFlux
    <3>. QED
      BY <1>0, <1>2, <2>1, <2>2, <3>1, <3>2 DEF TypeOK
  <2>3. CASE alone' = alone \ {c} /\ UNCHANGED <<files, orphan>>
    BY <1>2, <2>1, <2>3
  <2>. QED
    BY <1>8, <2>2, <2>3 DEF RemoveData
<1>9. ASSUME NEW c \in Clients, RemoveMeta(c) PROVE AloneOK' /\ SettledOK'
  <2>1. pc[c] = "removeMeta" /\ InFlux(c) /\ UNCHANGED files
    BY <1>9 DEF RemoveMeta, InFlux
  <2>2. name(c) \in Names /\ (c \in alone => files[name(c)] = Missing)
    BY <1>0, <2>1, InFluxMeans DEF AloneOK, AloneAt
  <2>3. \A d \in orphan' : d \in orphan \/ (d # c /\ InFlux(d) /\ name(d) = name(c))
    BY <1>9 DEF RemoveMeta, Unlinked, InFlux
  <2>4. \A n \in Names \ {name(c)} : files'[n] = files[n] /\ metas'[n] = metas[n]
    BY <1>0, <1>9, <2>1 DEF RemoveMeta, TypeOK
  <2>. DEFINE p == [data |-> Missing, meta |-> Unknown]
  <2>5. /\ pc' = [pc EXCEPT ![c] = "idle"] /\ request' = [request EXCEPT ![c] = None]
        /\ alone' = alone \ {c}
        /\ settled' = IF c \in alone THEN [settled EXCEPT ![name(c)] = p] ELSE settled
    BY <1>9 DEF RemoveMeta
  <2>. QED
    BY <1>0, <2>1, <2>2, <2>3, <2>4, <2>5, AcknowledgeStep
<1>10. ASSUME NEW c \in Clients, (\E n \in Names : Read(c, n)) \/ ReadData(c) \/ ReadMeta(c)
       PROVE  AloneOK' /\ SettledOK'
  <2>1. CASE Fail(c) /\ UNCHANGED <<files, metas>>
    BY <1>0, <2>1, FailStep
  <2>2. CASE ~Fail(c)
    <3>1. /\ ~InFlux(c) /\ ~InFlux(c)' /\ UNCHANGED <<files, metas, orphan, alone, settled>>
          /\ \A d \in Clients \ {c} : pc'[d] = pc[d] /\ request'[d] = request[d]
      BY <1>0, <1>10, <2>2 DEF Read, ReadData, ReadMeta, Goto, InFlux, TypeOK
    <3>2. \A d \in Clients : (InFlux(d)' <=> InFlux(d)) /\ (InFlux(d) => name(d)' = name(d) /\ d # c)
      BY <3>1 DEF InFlux, name
    <3>3. alone \in SUBSET Clients
      BY <1>0 DEF TypeOK
    <3>. QED
      BY <1>0, <3>1, <3>2, <3>3 DEF AloneOK, AloneAt, SettledOK, SettledAt
  <2>. QED
    BY <1>10, <2>1, <2>2 DEF Read, ReadData, ReadMeta
<1>11. CASE Crash
  BY <1>0, <1>11 DEF Crash, AloneOK, SettledOK, SettledAt, InFlux
<1>12. CASE UNCHANGED vars
  BY <1>0, <1>12 DEF vars, AloneOK, AloneAt, SettledOK, SettledAt, InFlux, name
<1>. QED
  BY <1>1, <1>3, <1>4, <1>5, <1>6, <1>7, <1>8, <1>9, <1>10, <1>11, <1>12 DEF Next, Work

LEMMA NextOK == IInv /\ [Next]_vars => IInv'
<1>1. SettledOK' => AcknowledgedStays' /\ NothingPending'
  BY DEF SettledOK, SettledAt, AcknowledgedStays, NothingPending, Changing, InFlux
<1>. QED
  BY <1>1, TypeStep, OrphanStep, SettledStep DEF IInv

(* Every variable keeps its type.                                           *)
THEOREM TypeCorrect == Spec => []TypeOK
BY InitOK, NextOK, PTL DEF Spec, IInv

(* What a save or delete that nobody overlapped has acknowledged is there   *)
(* until the next change of that name starts, through any failure, crash or *)
(* work on other names.                                                     *)
THEOREM AcknowledgedIsDurable == Spec => []AcknowledgedStays
BY InitOK, NextOK, PTL DEF Spec, IInv

(* No write to a name is still to come once its last change is settled.     *)
THEOREM NothingIsPending == Spec => []NothingPending
BY InitOK, NextOK, PTL DEF Spec, IInv

-----------------------------------------------------------------------------
(* The token of the Vault key backend.                                      *)

(* A login under way is within its time, and what it has set is at most one  *)
(* login older than what it got itself.                                      *)
LoginOK == \A c \in Goroutines :
    /\ at[c] \in {"set", "stamp"} => issued[c] <= clock /\ clock <= issued[c] + MaxLogin
    /\ at[c] = "stamp" => issued[c] <= token + MaxLogin

(* How long before its expiry a token was looked at: the whole minute less   *)
(* two logins and the rounding.                                              *)
Fresh(now, t) == now + Margin < t + TTL + 2 * MaxLogin + Second

RequestOK == \A c \in Goroutines :
    /\ at[c] \in {"test", "ready", "sent"} =>
          checked[c] <= clock /\ clock <= checked[c] + MaxSend
    /\ at[c] = "ready" => Fresh(checked[c], token)
    /\ at[c] = "sent" => Fresh(checked[c], carry[c])

PastOK == token <= clock /\ getTime <= clock

VaultIInv == VaultTypeOK /\ PastOK /\ StampFollowsToken /\ LoginOK /\ RequestOK

-----------------------------------------------------------------------------
(* What a valid token is in ticks: the comparison of seconds is off by less  *)
(* than one of them.                                                         *)
LEMMA ValidMeans ==
    ASSUME NEW now \in Nat, getTime \in Nat, validTokenTTL(now)
    PROVE  now + Margin < getTime + TTL + Second
<1>. DEFINE x == getTime + TTL - Margin
            a == now \div Second
            b == x \div Second
<1>1. x \in Int /\ now \in Int /\ Second \in Nat \ {0} /\ Margin \in Nat /\ TTL \in Nat
  BY TimeAssumption
<1>2. a \in Int /\ Second * a <= now /\ now < Second * a + Second
  BY <1>1, Z3
<1>3. b \in Int /\ Second * b <= x
  BY <1>1, Z3
<1>4. a <= b
  BY DEF validTokenTTL
<1>5. Second * a <= Second * b
  BY <1>1, <1>2, <1>3, <1>4, Z3
<1>6. now < x + Second
  <2>. HIDE DEF x, a, b
  <2>. QED
    BY <1>1, <1>2, <1>3, <1>5
<1>. QED
  BY <1>1, <1>6

-----------------------------------------------------------------------------
LEMMA VaultInitOK == VaultInit => VaultIInv
<1>. SUFFICES ASSUME VaultInit PROVE VaultIInv
  OBVIOUS
<1>1. /\ clock \in 0 .. MaxLogin /\ token = 0 /\ getTime = clock
      /\ MaxLogin \in Nat /\ MaxTime \in Nat /\ MaxLogin <= MaxTime
  BY TimeAssumption DEF VaultInit
<1>2. VaultTypeOK
  BY <1>1 DEF VaultInit, VaultTypeOK, Times
<1>3. PastOK /\ StampFollowsToken
  BY <1>1 DEF PastOK, StampFollowsToken
<1>4. LoginOK /\ RequestOK
  BY DEF VaultInit, LoginOK, RequestOK
<1>. QED
  BY <1>2, <1>3, <1>4 DEF VaultIInv

(* The numbers that a step computes with.                                    *)
LEMMA Numbers ==
    ASSUME VaultTypeOK
    PROVE  /\ clock \in Int /\ token \in Int /\ getTime \in Nat
           /\ TTL \in Int /\ Margin \in Int /\ Second \in Int
           /\ MaxLogin \in Nat /\ MaxSend \in Nat /\ MaxTime \in Nat
           /\ \A c \in Goroutines : issued[c] \in Int /\ checked[c] \in Nat /\ carry[c] \in Int
BY TimeAssumption DEF VaultTypeOK, Times

(* Every step preserves the invariant: one step below per action.            *)
LEMMA VaultNextOK == VaultIInv /\ [VaultNext]_vaultVars => VaultIInv'
<1>. SUFFICES ASSUME VaultIInv, [VaultNext]_vaultVars PROVE VaultIInv'
  OBVIOUS
<1>. USE DEF VaultIInv
<1>0. /\ clock \in Int /\ token \in Int /\ getTime \in Nat
      /\ TTL \in Int /\ Margin \in Int /\ Second \in Nat \ {0}
      /\ MaxLogin \in Nat /\ MaxSend \in Nat /\ MaxTime \in Nat
      /\ \A c \in Goroutines : issued[c] \in Int /\ checked[c] \in Nat /\ carry[c] \in Int
  BY Numbers, TimeAssumption
<1>1. ASSUME NEW c \in Goroutines, GetClient(c)
      PROVE  VaultIInv'
  <2>1. VaultTypeOK'
    BY <1>1 DEF GetClient, Moves, VaultTypeOK
  <2>2. PastOK' /\ StampFollowsToken'
    BY <1>1 DEF GetClient, PastOK, StampFollowsToken
  <2>3. LoginOK'
    BY <1>1 DEF GetClient, Moves, LoginOK, VaultTypeOK
  <2>4. RequestOK'
    BY <1>0, <1>1 DEF GetClient, Moves, RequestOK, Fresh, VaultTypeOK
  <2>. QED
    BY <2>1, <2>2, <2>3, <2>4
<1>2. ASSUME NEW c \in Goroutines, Valid(c)
      PROVE  VaultIInv'
  <2>1. VaultTypeOK'
    BY <1>2 DEF Valid, Moves, VaultTypeOK
  <2>2. PastOK' /\ StampFollowsToken'
    BY <1>2 DEF Valid, PastOK, StampFollowsToken
  <2>3. LoginOK'
    BY <1>2 DEF Valid, Moves, LoginOK, VaultTypeOK
  <2>4. checked[c] + Margin < getTime + TTL + Second
    BY <1>0, <1>2, ValidMeans DEF Valid
  <2>5. Fresh(checked[c], token)
    BY <1>0, <2>4 DEF Fresh, StampFollowsToken
  <2>6. RequestOK'
    BY <1>0, <1>2, <2>5 DEF Valid, Moves, RequestOK, Fresh, VaultTypeOK
  <2>. QED
    BY <2>1, <2>2, <2>3, <2>6
<1>3. ASSUME NEW c \in Goroutines, Expired(c)
      PROVE  VaultIInv'
  <2>1. VaultTypeOK'
    BY <1>0, <1>3 DEF Expired, Moves, VaultTypeOK, Times
  <2>2. PastOK' /\ StampFollowsToken'
    BY <1>3 DEF Expired, PastOK, StampFollowsToken
  <2>3. LoginOK'
    BY <1>3 DEF Expired, Moves, LoginOK, VaultTypeOK
  <2>4. RequestOK'
    BY <1>0, <1>3 DEF Expired, Moves, RequestOK, Fresh, VaultTypeOK
  <2>. QED
    BY <2>1, <2>2, <2>3, <2>4
<1>4. ASSUME NEW c \in Goroutines, Login(c)
      PROVE  VaultIInv'
  <2>1. VaultTypeOK'
    BY <1>4 DEF Login, Moves, VaultTypeOK
  <2>2. PastOK' /\ StampFollowsToken'
    BY <1>4 DEF Login, PastOK, StampFollowsToken
  <2>3. LoginOK'
    BY <1>0, <1>4 DEF Login, Moves, LoginOK, VaultTypeOK
  <2>4. RequestOK'
    BY <1>4 DEF Login, Moves, RequestOK, Fresh, VaultTypeOK
  <2>. QED
    BY <2>1, <2>2, <2>3, <2>4
<1>5. ASSUME NEW c \in Goroutines, LoginFails(c)
      PROVE  VaultIInv'
  <2>1. VaultTypeOK'
    BY <1>5 DEF LoginFails, Moves, VaultTypeOK
  <2>2. PastOK' /\ StampFollowsToken'
    BY <1>5 DEF LoginFails, PastOK, StampFollowsToken
  <2>3. LoginOK' /\ RequestOK'
    BY <1>5 DEF LoginFails, Moves, LoginOK, RequestOK, Fresh, VaultTypeOK
  <2>. QED
    BY <2>1, <2>2, <2>3
(* The token may be older than the one before, but not by more than a login: *)
(* every other goroutine that has set its own still finds a recent one, and  *)
(* whoever has looked at the clock did so before now.                        *)
<1>6. ASSUME NEW c \in Goroutines, SetToken(c)
      PROVE  VaultIInv'
  <2>0. at[c] = "set" /\ token' = issued[c] /\ issued[c] <= clock /\ clock <= issued[c] + MaxLogin
    BY <1>6 DEF SetToken, Moves, LoginOK
  <2>1. VaultTypeOK'
    BY <1>6 DEF SetToken, Moves, VaultTypeOK
  <2>2. PastOK' /\ StampFollowsToken'
    BY <1>0, <1>6, <2>0 DEF SetToken, PastOK, StampFollowsToken
  <2>3. LoginOK'
    BY <1>0, <1>6, <2>0 DEF SetToken, Moves, LoginOK, VaultTypeOK
  <2>4. ASSUME NEW d \in Goroutines, checked[d] <= clock
        PROVE  Fresh(checked[d], token')
    <3>1. checked[d] \in Int /\ issued[c] \in Int
      BY <1>0, <1>6
    <3>2. checked[d] + Margin < issued[c] + TTL + 2 * MaxLogin + Second
      BY <1>0, <2>0, <2>4, <3>1, TimeAssumption
    <3>. QED
      BY <2>0, <3>2 DEF Fresh
  <2>5. RequestOK'
    BY <1>0, <1>6, <2>4 DEF SetToken, Moves, RequestOK, Fresh, VaultTypeOK
  <2>. QED
    BY <2>1, <2>2, <2>3, <2>5
<1>7. ASSUME NEW c \in Goroutines, Stamp(c)
      PROVE  VaultIInv'
  <2>a. /\ at[c] = "stamp"
        /\ clock <= issued[c] + MaxLogin /\ issued[c] <= token + MaxLogin
    BY <1>7 DEF Stamp, Moves, LoginOK
  <2>0. at[c] = "stamp" /\ clock <= token + 2 * MaxLogin
    BY <1>0, <2>a
  <2>1. VaultTypeOK'
    BY <1>0, <1>7 DEF Stamp, Moves, VaultTypeOK, Times
  <2>2. PastOK' /\ StampFollowsToken'
    BY <1>0, <1>7, <2>0 DEF Stamp, PastOK, StampFollowsToken
  <2>3. LoginOK'
    BY <1>0, <1>7 DEF Stamp, Moves, LoginOK, VaultTypeOK
  <2>4. Fresh(clock, token)
    BY <1>0, <2>0, TimeAssumption DEF Fresh
  <2>5. RequestOK'
    BY <1>0, <1>7, <2>4 DEF Stamp, Moves, RequestOK, Fresh, VaultTypeOK
  <2>. QED
    BY <2>1, <2>2, <2>3, <2>5
<1>8. ASSUME NEW c \in Goroutines, NewRequest(c)
      PROVE  VaultIInv'
  <2>1. VaultTypeOK'
    BY <1>8 DEF NewRequest, Moves, VaultTypeOK
  <2>2. PastOK' /\ StampFollowsToken'
    BY <1>8 DEF NewRequest, PastOK, StampFollowsToken
  <2>3. LoginOK'
    BY <1>8 DEF NewRequest, Moves, LoginOK, VaultTypeOK
  <2>4. RequestOK'
    BY <1>0, <1>8 DEF NewRequest, Moves, RequestOK, Fresh, VaultTypeOK
  <2>. QED
    BY <2>1, <2>2, <2>3, <2>4
<1>9. ASSUME NEW c \in Goroutines, Answered(c)
      PROVE  VaultIInv'
  <2>1. VaultTypeOK'
    BY <1>0, <1>9 DEF Answered, Moves, VaultTypeOK, Times
  <2>2. PastOK' /\ StampFollowsToken'
    BY <1>9 DEF Answered, PastOK, StampFollowsToken
  <2>3. LoginOK'
    BY <1>9 DEF Answered, Moves, LoginOK, VaultTypeOK
  <2>4. RequestOK'
    BY <1>0, <1>9 DEF Answered, Moves, RequestOK, Fresh, VaultTypeOK
  <2>. QED
    BY <2>1, <2>2, <2>3, <2>4
<1>10. ASSUME Tick
       PROVE  VaultIInv'
  <2>1. VaultTypeOK'
    BY <1>0, <1>10 DEF Tick, VaultTypeOK, Times
  <2>2. PastOK' /\ StampFollowsToken'
    BY <1>0, <1>10 DEF Tick, PastOK, StampFollowsToken
  <2>3. LoginOK'
    BY <1>0, <1>10 DEF Tick, LoginOK
  <2>4. RequestOK'
    BY <1>0, <1>10 DEF Tick, RequestOK, Fresh
  <2>. QED
    BY <2>1, <2>2, <2>3, <2>4
<1>11. CASE UNCHANGED vaultVars
  BY <1>11 DEF vaultVars, VaultTypeOK, PastOK, StampFollowsToken, LoginOK, RequestOK, Fresh
<1>. QED
  BY <1>1, <1>2, <1>3, <1>4, <1>5, <1>6, <1>7, <1>8, <1>9, <1>10, <1>11 DEF VaultNext

THEOREM Invariance == VaultSpec => []VaultIInv
BY VaultInitOK, VaultNextOK, PTL DEF VaultSpec

-----------------------------------------------------------------------------
(* Every variable of the Vault backend keeps its type.                       *)
THEOREM VaultTypeCorrect == VaultSpec => []VaultTypeOK
BY Invariance, PTL DEF VaultIInv

(* However logins overlap, the time kept is at most two logins later than    *)
(* the issue of the token it is kept for.                                    *)
THEOREM StampIsRecent == VaultSpec => []StampFollowsToken
BY Invariance, PTL DEF VaultIInv

(* If a minute has room for two logins, a request and the rounding, no       *)
(* request carries a token that the server does not honour any more.         *)
THEOREM TokensAreHonoured == VaultSpec => []NeverExpired
<1>1. ASSUME VaultIInv, NEW c \in Goroutines, at[c] = "sent"
      PROVE  clock < carry[c] + TTL
  <2>1. Fresh(checked[c], carry[c]) /\ clock <= checked[c] + MaxSend
    BY <1>1 DEF VaultIInv, RequestOK
  <2>2. /\ clock \in Int /\ carry[c] \in Int /\ checked[c] \in Int
        /\ TTL \in Int /\ Margin \in Int /\ Second \in Int
        /\ MaxLogin \in Int /\ MaxSend \in Int
    BY <1>1, Numbers DEF VaultIInv
  <2>. QED
    BY <2>1, <2>2, MarginAssumption DEF Fresh
<1>2. VaultIInv => NeverExpired
  BY <1>1 DEF NeverExpired
<1>. QED
  BY <1>2, Invariance, PTL

=============================================================================
