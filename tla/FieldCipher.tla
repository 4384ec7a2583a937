----------------------------- MODULE FieldCipher -----------------------------
(***************************************************************************)
(* The field cipher: pkg/fieldcipher with its endpoints                     *)
(* (internal/server/jsonFieldCipher.go).  cipher encrypts the fields of a   *)
(* JSON document one by one, each together with its path, and the key for   *)
(* some recipients; whoever carries the document may move fields; decipher  *)
(* opens it and reports the fields that are not where they were.            *)
(*                                                                         *)
(* A document maps paths to nodes.  The elements of an array have the names *)
(* of Index, "0", "1", ..., as they have in the paths of the code.  There a *)
(* name is in base64; what a report makes of it is in Blocks.               *)
(***************************************************************************)
EXTENDS Sequences, Naturals, FiniteSets

CONSTANTS
    Paths,              \* of the fields, each a sequence of names
    Index,              \* the names of the elements of an array in their order
    Blocks,             \* name -> what CipherPathUnmangle makes of it: the pieces
                        \* between slashes, its own or those of its base64
    Texts,
    FirstLine,          \* what is left of a text: up to a newline or a NUL
    MagicTexts,         \* texts that begin with "FCMN"
    Values,             \* numbers and booleans
    Null, Object, Array,
    Absent,             \* no field at a path
    Fps, Known, Open,   \* fingerprints, those found, those of unlocked keys
    Recipients,         \* sets of keys that openpgp.Encrypt can encrypt for: each
                        \* has a key to encrypt with, and they share algorithms
    None, Failed,
    MaxMoves            \* bound: changes to a document on its way

Leaves    == Texts \cup Values \cup {Null}
Nodes     == Leaves \cup {Object, Array, Absent}
Encrypted == [path : Paths, leaf : Leaves]
Names     == UNION {{p[i] : i \in DOMAIN p} : p \in Paths}
Pieces    == UNION {{Blocks[n][i] : i \in DOMAIN Blocks[n]} : n \in Names}

ASSUME PathsAssumption ==
    \A p \in Paths : /\ p \in Seq(Names) /\ p # <<>>
                     /\ Len(p) = 1 \/ SubSeq(p, 1, Len(p) - 1) \in Paths
ASSUME NodesAssumption ==
    /\ Leaves \cap {Object, Array, Absent} = {} /\ Encrypted \cap Nodes = {}
    /\ None \notin [Paths -> Nodes \cup Encrypted] /\ Failed \notin [Paths -> Nodes]
ASSUME TextsAssumption == FirstLine \in [Texts -> Texts] /\ MagicTexts \subseteq Texts
ASSUME BlocksAssumption == \A n \in Names : Blocks[n] \in Seq(Pieces) /\ Blocks[n] # <<>>
ASSUME KeysAssumption  == Recipients \subseteq SUBSET Known /\ {} \notin Recipients /\ Open \subseteq Known /\ Known \subseteq Fps /\ MaxMoves \in Nat

VARIABLES
    doc,         \* the document
    skip,        \* the paths of skipFields
    packet,      \* the encrypted document, or None
    keys,        \* the keys it is to be encrypted for
    origin,      \* history: where each of its fields was
    moves,       \* changes on its way
    result,      \* the deciphered document, or Failed
    reader,      \* history: whose key the last decipher was asked to use
    unmatched    \* reported field -> the expected and the real path as reported

vars == <<doc, skip, packet, keys, origin, moves, result, reader, unmatched>>

Parent(p)      == SubSeq(p, 1, Len(p) - 1)
InArray(d, p)  == Len(p) > 1 /\ d[Parent(p)] = Array
IndexOf(p)     == CHOOSE i \in DOMAIN Index : Index[i] = p[Len(p)]

WellFormed(d) ==
    \A p \in Paths : d[p] # Absent =>
        /\ Len(p) > 1 => d[Parent(p)] \in {Object, Array}
        /\ InArray(d, p) =>
               \E i \in DOMAIN Index :
                   /\ p[Len(p)] = Index[i]
                   /\ i > 1 => d[Append(Parent(p), Index[i - 1])] # Absent

Documents == {d \in [Paths -> Nodes] : WellFormed(d)}

TypeOK ==
    /\ doc \in [Paths -> Nodes]
    /\ skip \subseteq Paths
    /\ keys \subseteq Fps /\ (packet # None => keys \in Recipients)
    /\ packet \in [Paths -> Nodes \cup Encrypted] \cup {None}
    /\ origin \in [Paths -> Paths] /\ moves \in 0 .. MaxMoves
    /\ result \in [Paths -> Nodes] \cup {None, Failed}
    /\ reader \in Fps \cup {None}
    /\ DOMAIN unmatched \subseteq Paths

Init ==
    /\ doc \in Documents
    /\ skip \in SUBSET Paths
    /\ packet = None /\ keys = {} /\ origin = [p \in Paths |-> p] /\ moves = 0
    /\ result = None /\ reader = None /\ unmatched = <<>>

-----------------------------------------------------------------------------
(* Mutant: only fields, and no objects and arrays, are skipped.             *)
ReachedLeaf(p) == p \notin skip \/ doc[p] \in {Object, Array}

(* The walk does not go on below a field that is skipped.                   *)
Reached(p) ==
    LET reached[n \in 1 .. Len(p)] ==
            SubSeq(p, 1, n) \notin skip /\ (n = 1 \/ reached[n - 1])
    IN  reached[Len(p)]

(* The path that a field is encrypted with.                                 *)
nodePath(p) == IF InArray(doc, p) THEN Append(Parent(p), Index[IndexOf(p)]) ELSE p

(* Mutant: an element is refused although it is skipped.                    *)
RefusedSkipped(p) == InArray(doc, p) /\ doc[p] \in {Null, Array} /\ Reached(Parent(p))

(* encryptArray knows no null and no array.                                 *)
Refused(p) == InArray(doc, p) /\ doc[p] \in {Null, Array} /\ Reached(p)

(* Mutant: keys that are not found are passed over.                         *)
SomeFound(fps) == fps \cap Known \in Recipients

(* All keys that are asked for are found, and the key of the fields can be  *)
(* encrypted for them.                                                      *)
Found(fps) == fps \subseteq Known /\ fps \in Recipients

cipher(fps) ==
    /\ packet = None
    /\ IF ~Found(fps) \/ \E p \in Paths : Refused(p)
       THEN result' = Failed /\ UNCHANGED packet
       ELSE /\ packet' = [p \in Paths |-> IF doc[p] \in Leaves /\ Reached(p)
                                          THEN [path |-> nodePath(p), leaf |-> doc[p]]
                                          ELSE doc[p]]
            /\ result' = None
    /\ keys' = fps
    /\ UNCHANGED <<doc, skip, origin, moves, reader, unmatched>>

(* On its way, fields of the document are exchanged or copied.              *)
IsField(p) == packet # None /\ packet[p] \notin {Object, Array, Absent}
Carry(there) ==
    /\ moves < MaxMoves
    /\ packet' = [p \in Paths |-> packet[there[p]]]
    /\ origin' = [p \in Paths |-> origin[there[p]]]
    /\ moves' = moves + 1
    /\ result' = None /\ reader' = None /\ unmatched' = <<>>
    /\ UNCHANGED <<doc, skip, keys>>

Here == [p \in Paths |-> p]
Move == \E p, q \in Paths :
    /\ p # q /\ IsField(p) /\ IsField(q)
    /\ Carry([Here EXCEPT ![q] = p]) \/ Carry([Here EXCEPT ![q] = p, ![p] = q])

-----------------------------------------------------------------------------
Opened(x) ==
    IF x \in Nodes THEN x
    ELSE IF x.leaf \in Texts THEN FirstLine[x.leaf] ELSE x.leaf

(* Mutant: what the walk below an object or an array reports is lost.       *)
ReportedOnTop(p) == Len(p) = 1 /\ IsField(p) /\ packet[p] \notin Leaves /\ packet[p].path # p

(* A field is reported by comparing its path with the one in it.            *)
Reported(p) == IsField(p) /\ packet[p] \notin Leaves /\ packet[p].path # p

(* The path of a report: its blocks one after another.                      *)
CipherPathUnmangle(p) ==
    LET blocks[n \in 0 .. Len(p)] == IF n = 0 THEN <<>> ELSE blocks[n - 1] \o Blocks[p[n]]
    IN  blocks[Len(p)]

(* A text that was skipped and looks encrypted makes all of it fail.        *)
decipher(f) ==
    /\ packet # None
    /\ IF f \notin Open \/ f \notin keys \/ \E p \in Paths : packet[p] \in MagicTexts
       THEN result' = Failed /\ unmatched' = <<>>
       ELSE /\ result' = [p \in Paths |-> Opened(packet[p])]
            /\ unmatched' = [p \in {q \in Paths : Reported(q)} |->
                                 <<CipherPathUnmangle(packet[p].path), CipherPathUnmangle(p)>>]
    /\ reader' = f
    /\ UNCHANGED <<doc, skip, packet, keys, origin, moves>>

Next == (\E fps \in SUBSET Fps : cipher(fps)) \/ Move \/ (\E f \in Fps : decipher(f))

Spec == Init /\ [][Next]_vars

-----------------------------------------------------------------------------
(* The fields that are in, or below, a path of skipFields.                  *)
IsSkipped(p) == \E q \in skip : Len(q) <= Len(p) /\ SubSeq(p, 1, Len(q)) = q

(* What leaves cipher shows the skipped fields and no other: a field is     *)
(* encrypted unless it or an object or array around it is skipped.          *)
OnlySkippedShown ==
    packet # None =>
        \A p \in Paths : IsField(p) =>
            (packet[p] \in Leaves <=> IsSkipped(origin[p]))

(* cipher and decipher are inverse up to the rest of a text after its first *)
(* line, wherever the field is by then.                                     *)
RoundTrip ==
    result \notin {None, Failed} =>
        \A p \in Paths :
            LET was == doc[origin[p]]
            IN  result[p] = IF was \in Texts /\ ~IsSkipped(origin[p]) THEN FirstLine[was] ELSE was

(* UnmatchedFields has exactly one report for each encrypted field that is  *)
(* not where it was: JSONChanged is true when there is one, and a document  *)
(* that nobody changed has none.  A report shows the two paths, name by     *)
(* name, if unmangling leaves their names as they are, which it does unless *)
(* a name or its base64 has a slash.                                        *)
Clear(p) == \A i \in DOMAIN p : Blocks[p[i]] = <<p[i]>>
Moved    == {p \in Paths : origin[p] # p /\ doc[origin[p]] \in Leaves /\ ~IsSkipped(origin[p])}
MovesReported ==
    result \notin {None, Failed} =>
        /\ DOMAIN unmatched = Moved
        /\ \A p \in Moved : Clear(p) /\ Clear(origin[p]) => unmatched[p] = <<origin[p], p>>

(* cipher fails exactly if there is no key, one is not known, the keys      *)
(* cannot be encrypted for, or an array outside the skipped parts holds a   *)
(* null or an array.                                                        *)
RefusedExactly ==
    packet = None <=>
        \/ keys \notin Recipients
        \/ \E p \in Paths : InArray(doc, p) /\ doc[p] \in {Null, Array} /\ ~IsSkipped(p)

(* decipher fails exactly without an unlocked key of a recipient, or if one *)
(* of the texts that were skipped begins with "FCMN", wherever it is.       *)
FailsExactly ==
    packet # None /\ reader # None =>
        (result = Failed <=>
            \/ reader \notin Open \cap keys
            \/ \E p \in Paths : doc[origin[p]] \in MagicTexts /\ IsSkipped(origin[p]))

=============================================================================
