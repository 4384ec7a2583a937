----------------------------- MODULE DiskBackend -----------------------------
(***************************************************************************)
(* The key backend of internal/keybackend/SaveToDisk.go: a file for a key   *)
(* and a file for its metadata.  Nothing locks them: requests save, delete  *)
(* and read at once, any system call may fail, and the process may stop     *)
(* between two of them.                                                     *)
(*                                                                         *)
(* ioutil.WriteFile opens the file, which empties it, and then writes; a    *)
(* client that has it open goes on writing to it after it is removed.       *)
(***************************************************************************)
EXTENDS FiniteSets

CONSTANTS
    Clients,        \* goroutines of the process
    Names,          \* fingerprints, each saved as prefix and fingerprint
    Datas,          \* armored keys
    Metas,          \* metadata, the empty one included
    saveEnabled,    \* cleared if READONLY_KEYPATH cannot be copied
    Missing,        \* there is no such file
    Cut,            \* the file is empty or partly written
    Unknown,        \* see settled
    None

ASSUME SaveAssumption == saveEnabled \in BOOLEAN
ASSUME ValueAssumption ==
    /\ {Missing, Cut} \cap (Datas \cup Metas) = {} /\ Missing # Cut
    /\ None \notin Names /\ None \notin Metas

Contents == Datas \cup Metas \cup {Missing, Cut}
Pairs    == [data : Contents, meta : Contents]

(* What is known of a name after a change: the metadata may stay unknown.   *)
Outcomes == [data : Contents, meta : Contents \cup {Unknown}]
ASSUME UnknownAssumption ==
    Unknown \notin Contents /\ Unknown \notin Outcomes /\ None \notin Pairs

(* A request: saving with or without metadata, deleting or reading a name.  *)
SaveOps   == [op : {"save"}, name : Names, data : Datas, meta : {None}]
               \cup [op : {"saveMeta"}, name : Names, data : Datas, meta : Metas]
DeleteOps == [op : {"delete"}, name : Names]
ReadOps   == [op : {"read"}, name : Names]
Requests  == SaveOps \cup DeleteOps \cup ReadOps

VARIABLES
    files,     \* name -> content of the key file
    metas,     \* name -> content of the metadata file
    pc,        \* client -> its next system call
    request,   \* client -> what it was asked to do
    orphan,    \* clients whose open file was removed under them
    got,       \* client -> what its last finished Read returned, or None
    alone,     \* history: clients whose change of a name nobody overlapped
    settled    \* history: name -> what the last change, if it was made alone
               \* and acknowledged, must have left; Unknown otherwise

vars == <<files, metas, pc, request, orphan, got, alone, settled>>

Steps == {"idle", "openData", "writeData", "openMeta", "writeMeta",
          "find", "removeData", "removeMeta", "readData", "readMeta"}

TypeOK ==
    /\ files \in [Names -> Datas \cup {Missing, Cut}]
    /\ metas \in [Names -> Metas \cup {Missing, Cut}]
    /\ pc \in [Clients -> Steps]
    /\ request \in [Clients -> Requests \cup {None}]
    /\ orphan \in SUBSET Clients
    /\ got \in [Clients -> Pairs \cup {None}]
    /\ alone \in SUBSET Clients
    /\ settled \in [Names -> Outcomes \cup {Unknown}]

(* The files a fresh process finds: keys with or without metadata.          *)
Init ==
    /\ files \in [Names -> Datas \cup {Missing}]
    /\ metas \in [Names -> Metas \cup {Missing}]
    /\ \A n \in Names : files[n] = Missing => metas[n] = Missing
    /\ pc = [c \in Clients |-> "idle"]
    /\ request = [c \in Clients |-> None]
    /\ orphan = {}
    /\ got = [c \in Clients |-> None]
    /\ alone = {}
    /\ settled = [n \in Names |-> Unknown]

name(c) == request[c].name
Changing(n) == {c \in Clients : /\ pc[c] \notin {"idle", "readData", "readMeta"}
                                /\ name(c) = n}

-----------------------------------------------------------------------------
Goto(c, step) == pc' = [pc EXCEPT ![c] = step]

(* A request that changes a name overlaps those under way for that name.    *)
StartChange(c, n, step) ==
    /\ pc[c] = "idle"
    /\ Goto(c, step)
    /\ alone' = IF Changing(n) = {} THEN alone \cup {c} ELSE alone \ Changing(n)
    /\ settled' = [settled EXCEPT ![n] = Unknown]
    /\ got' = [got EXCEPT ![c] = None]
    /\ UNCHANGED <<files, metas, orphan>>

Return(c) == /\ pc' = [pc EXCEPT ![c] = "idle"]
             /\ request' = [request EXCEPT ![c] = None]
             /\ orphan' = orphan \ {c}
             /\ alone' = alone \ {c}
Fail(c)   == Return(c) /\ UNCHANGED settled
Acknowledge(c, p) ==
    /\ Return(c)
    /\ settled' = IF c \in alone THEN [settled EXCEPT ![name(c)] = p] ELSE settled

(* With saving disabled Save answers as if it had saved, and changes no      *)
(* file; SaveWithMetadata does not look at the flag.                        *)
AnswersOnly(c) ==
    /\ pc[c] = "idle"
    /\ got' = [got EXCEPT ![c] = None]
    /\ UNCHANGED <<files, metas, pc, request, orphan, alone, settled>>

Save(c, n, d) ==
    IF saveEnabled
    THEN /\ StartChange(c, n, "openData")
         /\ request' = [request EXCEPT ![c] =
                [op |-> "save", name |-> n, data |-> d, meta |-> None]]
    ELSE AnswersOnly(c)

SaveWithMetadata(c, n, d, m) ==
    /\ StartChange(c, n, "openData")
    /\ request' = [request EXCEPT ![c] = [op |-> "saveMeta", name |-> n, data |-> d, meta |-> m]]

(* What a file holds after a write through a handle: nothing changes for a  *)
(* removed file, and if somebody else has written since this client emptied *)
(* it, the longer text may show behind the shorter.                         *)
Written(c, old, new) ==
    IF c \in orphan THEN {old} ELSE IF old = Cut THEN {new} ELSE {new, Cut}

(* A write that fails may have written a part.                              *)
Damaged(c, old) == IF c \in orphan THEN {old} ELSE {old, Cut}

OpenData(c) ==
    /\ pc[c] = "openData"
    /\ \/ /\ files' = [files EXCEPT ![name(c)] = Cut]
          /\ Goto(c, "writeData")
          /\ UNCHANGED <<request, orphan, alone, settled>>
       \/ Fail(c) /\ UNCHANGED files
    /\ UNCHANGED <<metas, got>>

(* Mutant: the answer is given before the metadata is written.              *)
WriteDataAnswers(c) ==
    /\ pc[c] = "writeData"
    /\ files' = [files EXCEPT ![name(c)] = request[c].data]
    /\ settled' = IF c \in alone
                  THEN [settled EXCEPT ![name(c)] = [data |-> request[c].data, meta |-> Unknown]]
                  ELSE settled
    /\ Goto(c, "openMeta")
    /\ UNCHANGED <<metas, request, orphan, alone, got>>

WriteData(c) ==
    /\ pc[c] = "writeData"
    /\ \/ /\ \E x \in Written(c, files[name(c)], request[c].data) :
                 files' = [files EXCEPT ![name(c)] = x]
          /\ IF request[c].op = "save"
             THEN Acknowledge(c, [data |-> request[c].data, meta |-> Unknown])
             ELSE Goto(c, "openMeta") /\ orphan' = orphan \ {c}
                  /\ UNCHANGED <<request, alone, settled>>
       \/ /\ \E x \in Damaged(c, files[name(c)]) : files' = [files EXCEPT ![name(c)] = x]
          /\ Fail(c)
    /\ UNCHANGED <<metas, got>>

(* Mutant: the metadata file is emptied and its error is not looked at.     *)
OpenMetaIgnoresError(c) ==
    /\ pc[c] = "openMeta"
    /\ \/ metas' = [metas EXCEPT ![name(c)] = Cut] /\ Goto(c, "writeMeta")
          /\ UNCHANGED <<request, orphan, alone, settled>>
       \/ /\ Acknowledge(c, [data |-> request[c].data, meta |-> request[c].meta])
          /\ UNCHANGED metas
    /\ UNCHANGED <<files, got>>

OpenMeta(c) ==
    /\ pc[c] = "openMeta"
    /\ \/ /\ metas' = [metas EXCEPT ![name(c)] = Cut]
          /\ Goto(c, "writeMeta")
          /\ UNCHANGED <<request, orphan, alone, settled>>
       \/ Fail(c) /\ UNCHANGED metas
    /\ UNCHANGED <<files, got>>

WriteMeta(c) ==
    /\ pc[c] = "writeMeta"
    /\ \/ /\ \E x \in Written(c, metas[name(c)], request[c].meta) :
                 metas' = [metas EXCEPT ![name(c)] = x]
          /\ Acknowledge(c, [data |-> request[c].data, meta |-> request[c].meta])
       \/ /\ \E x \in Damaged(c, metas[name(c)]) : metas' = [metas EXCEPT ![name(c)] = x]
          /\ Fail(c)
    /\ UNCHANGED <<files, got>>

-----------------------------------------------------------------------------
(* Delete: the key must be readable; then both files are removed, whatever  *)
(* becomes of the first removal, whose error is the one returned.           *)
Delete(c, n) ==
    /\ StartChange(c, n, "find")
    /\ request' = [request EXCEPT ![c] = [op |-> "delete", name |-> n]]

Find(c) ==
    /\ pc[c] = "find"
    /\ \/ /\ files[name(c)] # Missing
          /\ Goto(c, "removeData")
          /\ UNCHANGED <<request, orphan, alone, settled>>
       \/ Fail(c)
    /\ UNCHANGED <<files, metas, got>>

Unlinked(c, step) == {d \in Clients \ {c} : pc[d] = step /\ name(d) = name(c)}

(* A request whose first removal failed is not alone: it answers an error.  *)
RemoveData(c) ==
    /\ pc[c] = "removeData"
    /\ \/ /\ files[name(c)] # Missing
          /\ files' = [files EXCEPT ![name(c)] = Missing]
          /\ orphan' = orphan \cup Unlinked(c, "writeData")
          /\ UNCHANGED alone
       \/ alone' = alone \ {c} /\ UNCHANGED <<files, orphan>>
    /\ Goto(c, "removeMeta")
    /\ UNCHANGED <<metas, request, got, settled>>

(* The error of the second removal is dropped.                              *)
RemoveMeta(c) ==
    /\ pc[c] = "removeMeta"
    /\ \/ /\ metas' = [metas EXCEPT ![name(c)] = Missing]
          /\ orphan' = orphan \cup Unlinked(c, "writeMeta")
       \/ UNCHANGED <<metas, orphan>>
    /\ pc' = [pc EXCEPT ![c] = "idle"]
    /\ request' = [request EXCEPT ![c] = None]
    /\ alone' = alone \ {c}
    /\ settled' = IF c \in alone
                  THEN [settled EXCEPT ![name(c)] = [data |-> Missing, meta |-> Unknown]]
                  ELSE settled
    /\ UNCHANGED <<files, got>>

-----------------------------------------------------------------------------
(* Read: the key file, then the metadata file, which may be missing and      *)
(* counts as missing if it cannot be read.                                  *)
Read(c, n) ==
    /\ pc[c] = "idle"
    /\ Goto(c, "readData")
    /\ request' = [request EXCEPT ![c] = [op |-> "read", name |-> n]]
    /\ got' = [got EXCEPT ![c] = None]
    /\ UNCHANGED <<files, metas, orphan, alone, settled>>

ReadData(c) ==
    /\ pc[c] = "readData"
    /\ \/ /\ files[name(c)] # Missing
          /\ got' = [got EXCEPT ![c] = [data |-> files[name(c)], meta |-> Missing]]
          /\ Goto(c, "readMeta")
          /\ UNCHANGED <<request, orphan, alone, settled>>
       \/ Fail(c) /\ UNCHANGED got
    /\ UNCHANGED <<files, metas>>

ReadMeta(c) ==
    /\ pc[c] = "readMeta"
    /\ \E m \in {metas[name(c)], Missing} : got' = [got EXCEPT ![c].meta = m]
    /\ Fail(c)
    /\ UNCHANGED <<files, metas>>

(* The names List returns: what has a key file.                             *)
List == {n \in Names : files[n] # Missing}

-----------------------------------------------------------------------------
(* The process stops and is started again; the files stay as they are.      *)
Crash ==
    /\ pc' = [c \in Clients |-> "idle"]
    /\ request' = [c \in Clients |-> None]
    /\ orphan' = {}
    /\ got' = [c \in Clients |-> None]
    /\ alone' = {}
    /\ UNCHANGED <<files, metas, settled>>

Change(c, n) ==
    \/ \E d \in Datas : Save(c, n, d) \/ \E m \in Metas : SaveWithMetadata(c, n, d, m)
    \/ Delete(c, n)
Work(c) ==
    \/ OpenData(c) \/ WriteData(c) \/ OpenMeta(c) \/ WriteMeta(c)
    \/ Find(c) \/ RemoveData(c) \/ RemoveMeta(c)
    \/ ReadData(c) \/ ReadMeta(c)
Next ==
    \/ \E c \in Clients : Work(c) \/ \E n \in Names : Change(c, n) \/ Read(c, n)
    \/ Crash

Spec == Init /\ [][Next]_vars

-----------------------------------------------------------------------------
(* Properties *)

(* A change that nobody overlapped and that was acknowledged (with saving    *)
(* disabled Save makes none) is there until                                  *)
(* somebody starts to change that name again, whatever fails, is read, is    *)
(* done to other names or crashes in between.                                *)
AcknowledgedStays ==
    \A n \in Names : settled[n] # Unknown =>
        /\ files[n] = settled[n].data
        /\ settled[n].meta \in {metas[n], Unknown}

(* Nobody writes to a name between its acknowledged change and the next one: *)
(* no write of an earlier request is still to come.                          *)
NothingPending == \A n \in Names : settled[n] # Unknown => Changing(n) = {}

(* pkg/interfaces/StorageBackend.go:11, "Read reads a key from the backend": *)
(* what Read returns was saved, not cut off in the middle.  The code does    *)
(* not keep it, see section 5 of README.md.                                  *)
ReadsWhatWasSaved ==
    \A c \in Clients : pc[c] = "idle" /\ got[c] # None => Cut \notin {got[c].data, got[c].meta}
=============================================================================
