-------------------------- MODULE FieldCipherProofs --------------------------
(***************************************************************************)
(* Proofs, for all documents, paths and keys and any number of moves, of    *)
(* what FieldCipher claims.  The walk of cipher is a recursive function on  *)
(* the prefixes of a path; what it computes is proved with the least prefix *)
(* at which it would differ.                                                *)
(***************************************************************************)
EXTENDS FieldCipher, FiniteSetTheorems, SequenceTheorems, WellFoundedInduction, TLAPS

(* A field after cipher.                                                    *)
Cipher(q) == IF doc[q] \in Leaves /\ ~IsSkipped(q)
             THEN [path |-> q, leaf |-> doc[q]] ELSE doc[q]

Deciphered ==
    /\ packet # None
    /\ result = [p \in Paths |-> Opened(packet[p])]
    /\ unmatched = [p \in {q \in Paths : Reported(q)} |->
                        <<CipherPathUnmangle(packet[p].path), CipherPathUnmangle(p)>>]

(* The carried document is the encrypted one, each field with its origin.   *)
IInv ==
    /\ doc \in Documents /\ skip \subseteq Paths
    /\ keys \subseteq Fps /\ moves \in 0 .. MaxMoves
    /\ origin \in [Paths -> Paths]
    /\ packet = None \/ moves = 0 => origin = [p \in Paths |-> p]
    /\ packet # None => keys \in Recipients /\ packet = [p \in Paths |-> Cipher(origin[p])]
    /\ reader \in Fps \cup {None} /\ (packet = None => reader = None)
    /\ (result \in {None, Failed} /\ unmatched = <<>>) \/ Deciphered
    /\ RefusedExactly /\ FailsExactly

-----------------------------------------------------------------------------
(* A nonempty set of positions has a first one.                             *)
LEMMA First ==
    ASSUME NEW n \in Nat, NEW B \in SUBSET (1 .. n), B # {}
    PROVE  \E m \in B : \A k \in B : m <= k
  <1> DEFINE Below(m) == 1 .. m
             T == {Below(m) : m \in B}
             S == 1 .. n
  <1>1. T \subseteq FiniteSubsetsOf(S)
    <2> SUFFICES ASSUME NEW m \in B PROVE Below(m) \in FiniteSubsetsOf(S)
      OBVIOUS
    <2>1. IsFiniteSet(1 .. m)
      BY FS_Interval
    <2>2. QED
      BY <2>1 DEF FiniteSubsetsOf
  <1>2. IsWellFoundedOn(StrictSubsetOrdering(S), FiniteSubsetsOf(S))
    BY FS_StrictSubsetOrderingWellFounded
  <1>3. PICK x \in T : \A y \in T : <<y, x>> \notin StrictSubsetOrdering(S)
    <2> HIDE DEF S, T
    <2>1. T # {}
      BY DEF T
    <2>2. QED
      BY <1>1, <1>2, <2>1, WFMin
  <1>4. PICK m \in B : x = Below(m)
    OBVIOUS
  <1>5. ASSUME NEW k \in B, k < m PROVE FALSE
    <2>1. Below(k) \in SUBSET S /\ Below(m) \in SUBSET S /\ Below(k) \subseteq Below(m)
      BY <1>5
    <2>2. m \in Below(m) /\ m \notin Below(k)
      BY <1>5
    <2>3. <<Below(k), Below(m)>> \in StrictSubsetOrdering(S)
      BY <2>1, <2>2 DEF StrictSubsetOrdering
    <2>4. QED
      BY <1>3, <1>4, <2>3
  <1>6. QED
    BY <1>5

(* The walk reaches a field unless it, or something around it, is skipped.  *)
THEOREM ReachedIs ==
    ASSUME NEW p \in Paths, skip \subseteq Paths
    PROVE  Reached(p) <=> ~IsSkipped(p)
  <1> DEFINE N == 1 .. Len(p)
             Shown(n) == SubSeq(p, 1, n) \notin skip
             Walk(g) == g = [n \in N |-> Shown(n) /\ (n = 1 \/ g[n - 1])]
             all == [n \in N |-> \A m \in 1 .. n : Shown(m)]
             reached == CHOOSE g : Walk(g)
  <1>1. Len(p) \in Nat /\ Len(p) > 0 /\ p \in Seq(Names)
    BY PathsAssumption, EmptySeq
  <1>2. Walk(all)
    <2> HIDE DEF Shown
    <2>1. ASSUME NEW n \in N
          PROVE  all[n] = (Shown(n) /\ (n = 1 \/ all[n - 1]))
      <3>1. CASE n = 1
        <4>1. 1 .. n = {n}
          BY <3>1
        <4>2. QED
          BY <4>1, <3>1, Zenon
      <3>2. CASE n # 1
        <4>1. n - 1 \in N /\ 1 .. n = (1 .. n - 1) \cup {n}
          BY <1>1, <3>2
        <4>2. QED
          BY <4>1, <3>2, Zenon
      <3>3. QED
        BY <3>1, <3>2
    <2>2. QED
      BY <2>1, Zenon
  <1>3. Walk(reached)
    BY <1>2, Zenon
  <1>4. reached[Len(p)] = all[Len(p)]
    <2> HIDE DEF reached, Shown, all
    <2>1. ASSUME NEW n \in N PROVE reached[n] = (Shown(n) /\ (n = 1 \/ reached[n - 1]))
      BY <1>3, Zenon
    <2>2. ASSUME NEW n \in N PROVE all[n] = (Shown(n) /\ (n = 1 \/ all[n - 1]))
      BY <1>2, Zenon
    <2> DEFINE B == {n \in N : reached[n] # all[n]}
    <2>3. ASSUME NEW m \in B, \A k \in B : m <= k PROVE FALSE
      <3>1. CASE m = 1
        BY <2>1, <2>2, <3>1, Zenon
      <3>2. CASE m # 1
        <4>1. m - 1 \in N /\ ~(m <= m - 1)
          BY <1>1, <3>2
        <4>2. reached[m - 1] = all[m - 1]
          BY <2>3, <4>1, Zenon
        <4>3. QED
          BY <2>1, <2>2, <4>2, Zenon
      <3>3. QED
        BY <3>1, <3>2
    <2>4. B = {}
      <3> HIDE DEF B
      <3>1. B \in SUBSET N
        BY DEF B
      <3>2. QED
        BY <1>1, <2>3, <3>1, First
    <2>5. Len(p) \in N
      BY <1>1
    <2>6. QED
      BY <2>4, <2>5, Zenon
  <1>5. IsSkipped(p) <=> \E n \in N : ~Shown(n)
    <2>1. ASSUME NEW q \in skip, Len(q) <= Len(p), SubSeq(p, 1, Len(q)) = q
          PROVE  Len(q) \in N /\ ~Shown(Len(q))
      <3>1. q \in Seq(Names) /\ q # <<>>
        BY PathsAssumption
      <3>2. Len(q) \in Nat \ {0}
        BY <3>1, EmptySeq
      <3>3. Len(q) \in N
        BY <1>1, <2>1, <3>2
      <3>4. QED
        BY <2>1, <3>3, Zenon
    <2>2. ASSUME NEW n \in N, ~Shown(n)
          PROVE  IsSkipped(p)
      <3>1. \A i \in 1 .. n : p[i] \in Names
        BY <1>1, ElementOfSeq
      <3>2. Len(SubSeq(p, 1, n)) = n
        BY <1>1, <3>1, SubSeqProperties
      <3>3. n <= Len(p)
        BY <1>1
      <3>4. QED
        BY <2>2, <3>2, <3>3, Zenon DEF IsSkipped
    <2>3. QED
      BY <2>1, <2>2 DEF IsSkipped
  <1>6. Reached(p) = reached[Len(p)]
    BY Zenon DEF Reached
  <1>7. all[Len(p)] = \A m \in N : Shown(m)
    <2>1. Len(p) \in N
      BY <1>1
    <2>2. QED
      BY <2>1, Zenon
  <1>8. QED
    <2> HIDE DEF reached, all, N, Shown
    <2>1. QED
      BY <1>4, <1>5, <1>6, <1>7, Zenon

-----------------------------------------------------------------------------
(* Names that unmangling leaves alone: the recursion gives the path back,   *)
(* again since there is no first prefix at which it would not.              *)
THEOREM UnmangledIs ==
    ASSUME NEW p \in Paths, Clear(p)
    PROVE  CipherPathUnmangle(p) = p
  <1> DEFINE N == 0 .. Len(p)
             Walk(g) == g = [n \in N |-> IF n = 0 THEN <<>> ELSE g[n - 1] \o Blocks[p[n]]]
             all == [n \in N |-> SubSeq(p, 1, n)]
             blocks == CHOOSE g : Walk(g)
  <1>1. Len(p) \in Nat /\ p \in Seq(Names)
    BY PathsAssumption
  <1>2. ASSUME NEW n \in N
        PROVE  SubSeq(p, 1, n) = IF n = 0 THEN <<>> ELSE SubSeq(p, 1, n - 1) \o Blocks[p[n]]
    <2>1. CASE n = 0
      BY <1>1, <2>1
    <2>2. CASE n # 0
      <3>1. n \in 1 .. Len(p) /\ n \in DOMAIN p
        BY <1>1, <2>2
      <3>2. Blocks[p[n]] = <<p[n]>>
        BY <3>1 DEF Clear
      <3>3. p[n] \in Names
        BY <1>1, <3>1, ElementOfSeq
      <3>4. SubSeq(p, 1, n) = SubSeq(p, 1, n - 1) \o <<p[n]>>
        <4> DEFINE s == SubSeq(p, 1, n)
                   t == SubSeq(p, 1, n - 1)
                   u == <<p[n]>>
        <4>1. n \in Int /\ 1 \in Int /\ n - 1 \in Int /\ \A i \in 1 .. n : p[i] \in Names
          BY <1>1, <3>1, ElementOfSeq
        <4>2. s \in Seq(Names) /\ Len(s) = n /\ \A i \in 1 .. n : s[i] = p[i]
          BY <3>1, <4>1, SubSeqProperties
        <4>3. t \in Seq(Names) /\ Len(t) = n - 1 /\ \A i \in 1 .. n - 1 : t[i] = p[i]
          BY <3>1, <4>1, SubSeqProperties
        <4>4. u \in Seq(Names) /\ Len(u) = 1 /\ u[1] = p[n]
          BY <3>3
        <4> HIDE DEF s, t, u
        <4>5. /\ t \o u \in Seq(Names) /\ Len(t \o u) = n
              /\ \A i \in 1 .. n : (t \o u)[i] = p[i]
          <5>1. /\ t \o u \in Seq(Names) /\ Len(t \o u) = Len(t) + Len(u)
                /\ \A i \in 1 .. Len(t) + Len(u) :
                       (t \o u)[i] = IF i <= Len(t) THEN t[i] ELSE u[i - Len(t)]
            BY <4>3, <4>4, ConcatProperties
          <5>2. ASSUME NEW i \in 1 .. n PROVE (t \o u)[i] = p[i]
            <6>1. CASE i <= n - 1
              BY <3>1, <4>3, <4>4, <5>1, <6>1
            <6>2. CASE ~(i <= n - 1)
              <7>1. i = n /\ i - (n - 1) = 1
                BY <3>1, <6>2
              <7>2. i \in 1 .. Len(t) + Len(u) /\ ~(i <= Len(t)) /\ i - Len(t) = 1
                BY <3>1, <4>3, <4>4, <6>2, <7>1
              <7>3. (t \o u)[i] = u[i - Len(t)]
                BY <5>1, <7>2, Zenon
              <7>4. QED
                BY <4>4, <7>1, <7>2, <7>3
            <6>3. QED
              BY <6>1, <6>2
          <5>3. QED
            BY <3>1, <4>3, <4>4, <5>1, <5>2
        <4>6. s = t \o u
          BY <4>2, <4>5, SeqEqual
        <4>7. QED
          BY <4>6 DEF s, t, u
      <3>5. QED
        BY <2>2, <3>2, <3>4
    <2>3. QED
      BY <2>1, <2>2
  <1>3. Walk(all)
    <2>1. ASSUME NEW n \in N
          PROVE  all[n] = IF n = 0 THEN <<>> ELSE all[n - 1] \o Blocks[p[n]]
      <3>1. n # 0 => n - 1 \in N
        BY <1>1
      <3>2. QED
        BY <1>2, <3>1, Zenon
    <2>2. QED
      BY <2>1, Zenon
  <1>4. Walk(blocks)
    BY <1>3, Zenon
  <1>5. blocks[Len(p)] = all[Len(p)]
    <2> HIDE DEF blocks, all
    <2>1. ASSUME NEW n \in N
          PROVE  blocks[n] = IF n = 0 THEN <<>> ELSE blocks[n - 1] \o Blocks[p[n]]
      BY <1>4, Zenon
    <2>2. ASSUME NEW n \in N
          PROVE  all[n] = IF n = 0 THEN <<>> ELSE all[n - 1] \o Blocks[p[n]]
      BY <1>3, Zenon
    <2> DEFINE B == {n \in N : blocks[n] # all[n]}
    <2>3. 0 \notin B
      BY <1>1, <2>1, <2>2
    <2>4. ASSUME NEW m \in B, \A k \in B : m <= k PROVE FALSE
      <3>1. m \in N /\ m # 0
        BY <2>3
      <3>2. m - 1 \in N /\ ~(m <= m - 1)
        BY <1>1, <3>1
      <3>3. blocks[m - 1] = all[m - 1]
        BY <2>4, <3>2, Zenon
      <3>4. QED
        BY <2>1, <2>2, <3>1, <3>3, Zenon
    <2>5. B = {}
      <3>1. B \in SUBSET (1 .. Len(p))
        BY <1>1, <2>3
      <3> HIDE DEF B
      <3>2. QED
        BY <1>1, <2>4, <3>1, First
    <2>6. Len(p) \in N
      BY <1>1
    <2>7. QED
      BY <2>5, <2>6, Zenon
  <1>6. CipherPathUnmangle(p) = blocks[Len(p)]
    BY Zenon DEF CipherPathUnmangle
  <1>7. all[Len(p)] = p
    BY <1>1
  <1>8. QED
    BY <1>5, <1>6, <1>7, Zenon

-----------------------------------------------------------------------------
(* An element of an array is encrypted with the path it has.                *)
LEMMA nodePathIs ==
    ASSUME NEW p \in Paths, doc \in Documents, doc[p] # Absent
    PROVE  nodePath(p) = p
  <1>1. CASE ~InArray(doc, p)
    BY <1>1 DEF nodePath
  <1>2. CASE InArray(doc, p)
    <2>1. \E i \in DOMAIN Index : Index[i] = p[Len(p)]
      BY <1>2 DEF Documents, WellFormed
    <2>2. Index[IndexOf(p)] = p[Len(p)]
      BY <2>1, Zenon DEF IndexOf
    <2>3. p \in Seq(Names) /\ p # <<>>
      BY PathsAssumption
    <2>4. Append(Parent(p), p[Len(p)]) = p
      <3>1. PICK s \in Seq(Names), e \in Names : p = Append(s, e)
        BY <2>3, SequenceEmptyOrAppend
      <3>2. Len(p) = Len(s) + 1 /\ p[Len(p)] = e /\ Len(s) \in Nat
        BY <3>1, AppendProperties, LenProperties
      <3>3. Parent(p) = SubSeq(p, 1, Len(s))
        BY <3>2 DEF Parent
      <3>4. SubSeq(p, 1, Len(s)) = s
        BY <3>1
      <3>5. QED
        BY <3>1, <3>2, <3>3, <3>4
    <2>5. QED
      BY <1>2, <2>2, <2>4, Zenon DEF nodePath
  <1>3. QED
    BY <1>1, <1>2

(* What cipher makes of a field, and that a field keeps its text's first    *)
(* line when it is opened.                                                  *)
LEMMA CipherIs ==
    ASSUME NEW q \in Paths, doc \in Documents
    PROVE  /\ Cipher(q) \in Nodes \cup Encrypted
           /\ Cipher(q) \in Encrypted <=> doc[q] \in Leaves /\ ~IsSkipped(q)
           /\ Cipher(q) \in Encrypted => Cipher(q).path = q /\ Cipher(q) \notin Nodes
           /\ Cipher(q) \notin Encrypted => Cipher(q) = doc[q]
           /\ Cipher(q) \in {Object, Array, Absent} <=> doc[q] \in {Object, Array, Absent}
           /\ Opened(Cipher(q)) \in Nodes
           /\ Opened(Cipher(q)) = IF doc[q] \in Texts /\ ~IsSkipped(q)
                                  THEN FirstLine[doc[q]] ELSE doc[q]
  <1>1. doc[q] \in Nodes
    BY DEF Documents
  <1>2. CASE doc[q] \in Leaves /\ ~IsSkipped(q)
    <2>1. Cipher(q) = [path |-> q, leaf |-> doc[q]] /\ Cipher(q) \in Encrypted
      BY <1>2 DEF Cipher, Encrypted
    <2>2. Cipher(q) \notin Nodes
      BY <2>1, NodesAssumption
    <2>3. Opened(Cipher(q)) = IF doc[q] \in Texts THEN FirstLine[doc[q]] ELSE doc[q]
      BY <2>1, <2>2 DEF Opened
    <2>4. Opened(Cipher(q)) \in Nodes
      BY <2>3, <1>1, TextsAssumption DEF Nodes, Leaves
    <2>5. QED
      BY <1>2, <2>1, <2>2, <2>3, <2>4, NodesAssumption DEF Nodes
  <1>3. CASE ~(doc[q] \in Leaves /\ ~IsSkipped(q))
    <2>1. Cipher(q) = doc[q] /\ Cipher(q) \notin Encrypted
      BY <1>1, <1>3, NodesAssumption DEF Cipher
    <2>2. Opened(Cipher(q)) = doc[q]
      BY <1>1, <2>1 DEF Opened
    <2>3. QED
      BY <1>1, <1>3, <2>1, <2>2 DEF Leaves
  <1>4. QED
    BY <1>2, <1>3, Zenon

-----------------------------------------------------------------------------
LEMMA InitOK == Init => IInv
  <1> SUFFICES ASSUME Init PROVE IInv
    OBVIOUS
  <1>1. keys \subseteq Fps /\ moves \in 0 .. MaxMoves /\ origin \in [Paths -> Paths]
    BY KeysAssumption DEF Init
  <1>2. RefusedExactly /\ FailsExactly
    BY KeysAssumption DEF Init, RefusedExactly, FailsExactly
  <1>3. QED
    BY <1>1, <1>2 DEF Init, IInv

(* Every encrypted document is one.                                         *)
LEMMA PacketIs ==
    ASSUME IInv, NEW there \in [Paths -> Paths]
    PROVE  /\ [p \in Paths |-> Cipher(there[p])] \in [Paths -> Nodes \cup Encrypted]
           /\ [p \in Paths |-> Cipher(there[p])] # None
  <1>1. ASSUME NEW p \in Paths PROVE Cipher(there[p]) \in Nodes \cup Encrypted
    BY CipherIs DEF IInv
  <1>2. [p \in Paths |-> Cipher(there[p])] \in [Paths -> Nodes \cup Encrypted]
    BY <1>1
  <1>3. QED
    BY <1>2, NodesAssumption

(* The fields that cipher refuses are those of RefusedExactly.              *)
LEMMA RefusedIs ==
    ASSUME NEW p \in Paths, skip \subseteq Paths
    PROVE  Refused(p) <=> InArray(doc, p) /\ doc[p] \in {Null, Array} /\ ~IsSkipped(p)
  BY ReachedIs DEF Refused

LEMMA CipherStep ==
    ASSUME IInv, NEW fps \in SUBSET Fps, cipher(fps)
    PROVE  IInv'
  <1>1. /\ UNCHANGED <<doc, skip, origin, moves, reader, unmatched>> /\ keys' = fps
        /\ packet = None /\ reader = None
    BY DEF cipher, IInv
  <1>2. /\ doc' \in Documents /\ skip' \subseteq Paths
        /\ keys' \subseteq Fps /\ moves' \in 0 .. MaxMoves
        /\ origin' \in [Paths -> Paths]
    BY <1>1 DEF IInv, Documents, WellFormed, InArray
  <1>3. unmatched' = <<>> /\ FailsExactly' /\ reader' = None
    BY <1>1 DEF IInv, Deciphered, FailsExactly
  <1>4. (\E p \in Paths : Refused(p)) <=>
            \E p \in Paths : InArray(doc, p) /\ doc[p] \in {Null, Array} /\ ~IsSkipped(p)
    BY RefusedIs DEF IInv
  <1>5. RefusedExactly' <=>
            (packet' = None <=> fps \notin Recipients \/ \E p \in Paths : Refused(p))
    BY <1>1, <1>4 DEF RefusedExactly, InArray, IsSkipped
  <1>0. Found(fps) <=> fps \in Recipients
    BY KeysAssumption DEF Found
  <1>6. CASE ~Found(fps) \/ \E p \in Paths : Refused(p)
    <2>1. packet' = None /\ result' = Failed
      BY <1>1, <1>6 DEF cipher
    <2>2. origin' = [p \in Paths |-> p]
      BY <1>1 DEF IInv
    <2>3. RefusedExactly'
      BY <1>0, <1>5, <1>6, <2>1
    <2>4. QED
      BY <1>2, <1>3, <2>1, <2>2, <2>3 DEF IInv
  <1>7. CASE Found(fps) /\ ~\E p \in Paths : Refused(p)
    <2>1. /\ result' = None
          /\ packet' = [p \in Paths |-> IF doc[p] \in Leaves /\ Reached(p)
                                        THEN [path |-> nodePath(p), leaf |-> doc[p]]
                                        ELSE doc[p]]
      BY <1>7 DEF cipher
    <2>2. ASSUME NEW p \in Paths
          PROVE  Cipher(p) = IF doc[p] \in Leaves /\ Reached(p)
                             THEN [path |-> nodePath(p), leaf |-> doc[p]]
                             ELSE doc[p]
      <3>1. doc[p] \in Leaves => nodePath(p) = p
        BY nodePathIs, NodesAssumption DEF IInv
      <3>2. Reached(p) <=> ~IsSkipped(p)
        BY ReachedIs DEF IInv
      <3>3. QED
        BY <3>1, <3>2, Zenon DEF Cipher
    <2>3. packet' = [p \in Paths |-> Cipher(origin[p])] /\ origin = [p \in Paths |-> p]
      BY <1>1, <2>1, <2>2 DEF IInv
    <2>4. packet' # None
      BY <2>3, PacketIs DEF IInv
    <2>5. packet' = [p \in Paths |-> Cipher(origin[p])]'
      BY <1>1, <2>3 DEF Cipher, IsSkipped
    <2>6. RefusedExactly'
      BY <1>0, <1>5, <1>7, <2>4
    <2>7. keys' \in Recipients
      BY <1>0, <1>1, <1>7
    <2>8. origin' = [p \in Paths |-> p]
      BY <1>1, <2>3
    <2>9. QED
      BY <1>2, <1>3, <2>1, <2>4, <2>5, <2>6, <2>7, <2>8 DEF IInv
  <1>8. QED
    BY <1>6, <1>7

LEMMA MoveStep ==
    ASSUME IInv, Move
    PROVE  IInv'
  <1>1. PICK there \in [Paths -> Paths] : Carry(there) /\ packet # None
    <2>1. PICK p \in Paths, q \in Paths :
              /\ IsField(p)
              /\ Carry([Here EXCEPT ![q] = p]) \/ Carry([Here EXCEPT ![q] = p, ![p] = q])
      BY DEF Move
    <2>2. /\ [Here EXCEPT ![q] = p] \in [Paths -> Paths]
          /\ [Here EXCEPT ![q] = p, ![p] = q] \in [Paths -> Paths]
      BY DEF Here
    <2>3. QED
      BY <2>1, <2>2 DEF IsField
  <1>2. /\ UNCHANGED <<doc, skip, keys>> /\ moves' \in 0 .. MaxMoves
        /\ packet' = [p \in Paths |-> packet[there[p]]]
        /\ origin' = [p \in Paths |-> origin[there[p]]] /\ moves' # 0
        /\ result' = None /\ reader' = None /\ unmatched' = <<>>
    BY <1>1, KeysAssumption DEF Carry, IInv
  <1>3. origin' \in [Paths -> Paths]
    BY <1>2 DEF IInv
  <1>4. packet' = [p \in Paths |-> Cipher(origin'[p])]
    BY <1>1, <1>2 DEF IInv
  <1>5. packet' # None
    BY <1>3, <1>4, PacketIs
  <1>6. packet' = [p \in Paths |-> Cipher(origin[p])]'
    BY <1>2, <1>4 DEF Cipher, IsSkipped
  <1>7. RefusedExactly' /\ FailsExactly'
    BY <1>1, <1>2, <1>5 DEF IInv, RefusedExactly, FailsExactly, InArray, IsSkipped
  <1>8. /\ doc' \in Documents /\ skip' \subseteq Paths /\ keys' \subseteq Fps
        /\ keys' \in Recipients
    BY <1>1, <1>2 DEF IInv, Documents, WellFormed, InArray
  <1>9. QED
    BY <1>2, <1>3, <1>5, <1>6, <1>7, <1>8 DEF IInv

LEMMA DecipherStep ==
    ASSUME IInv, NEW f \in Fps, decipher(f)
    PROVE  IInv'
  <1>1. /\ UNCHANGED <<doc, skip, packet, keys, origin, moves>> /\ packet # None
        /\ reader' = f
    BY DEF decipher
  <1> DEFINE Fails == f \notin Open \/ f \notin keys \/ \E p \in Paths : packet[p] \in MagicTexts
  <1>2. \/ Fails /\ result' = Failed /\ unmatched' = <<>>
        \/ ~Fails /\ Deciphered' /\ result' # Failed
    <2>1. CASE Fails
      BY <2>1 DEF decipher
    <2>2. CASE ~Fails
      <3>1. /\ result' = [p \in Paths |-> Opened(packet[p])]
            /\ unmatched' = [p \in {q \in Paths : Reported(q)} |->
                    <<CipherPathUnmangle(packet[p].path), CipherPathUnmangle(p)>>]
        BY <2>2 DEF decipher
      <3>2. Deciphered'
        BY <1>1, <3>1 DEF Deciphered, Opened, Reported, IsField
      <3>3. result' \in [Paths -> Nodes]
        BY <1>1, <3>1, CipherIs DEF IInv
      <3>4. QED
        BY <2>2, <3>2, <3>3, NodesAssumption
    <2>3. QED
      BY <2>1, <2>2
  <1>3. packet' # None => keys' \in Recipients /\ packet' = [p \in Paths |-> Cipher(origin[p])]'
    BY <1>1 DEF IInv, Cipher, IsSkipped
  <1>4. RefusedExactly'
    BY <1>1 DEF IInv, RefusedExactly, InArray, IsSkipped
  <1>5. FailsExactly'
    <2>1. ASSUME NEW p \in Paths
          PROVE  packet[p] \in MagicTexts <=> doc[origin[p]] \in MagicTexts /\ IsSkipped(origin[p])
      <3>1. origin[p] \in Paths /\ packet[p] = Cipher(origin[p]) /\ doc \in Documents
        BY <1>1 DEF IInv
      <3>2. MagicTexts \subseteq Leaves /\ Leaves \subseteq Nodes
        BY TextsAssumption DEF Leaves, Nodes
      <3>3. QED
        BY <3>1, <3>2, CipherIs
    <2>2. FailsExactly' <=>
              (f # None => (result' = Failed <=>
                  \/ f \notin Open \cap keys
                  \/ \E p \in Paths : doc[origin[p]] \in MagicTexts /\ IsSkipped(origin[p])))
      BY <1>1 DEF FailsExactly, IsSkipped
    <2>3. QED
      BY <1>2, <2>1, <2>2
  <1>6. QED
    BY <1>1, <1>2, <1>3, <1>4, <1>5 DEF IInv, Documents, WellFormed, InArray

LEMMA StutterStep ==
    ASSUME IInv, UNCHANGED vars
    PROVE  IInv'
  <1>1. Deciphered => Deciphered'
    BY DEF vars, Deciphered, Opened, Reported, IsField
  <1>2. RefusedExactly' /\ FailsExactly'
    BY DEF vars, IInv, RefusedExactly, FailsExactly, InArray, IsSkipped
  <1>3. packet' # None => keys' \in Recipients /\ packet' = [p \in Paths |-> Cipher(origin[p])]'
    BY DEF vars, IInv, Cipher, IsSkipped
  <1>4. QED
    BY <1>1, <1>2, <1>3 DEF vars, IInv, Documents, WellFormed, InArray

LEMMA NextOK == IInv /\ [Next]_vars => IInv'
  <1> SUFFICES ASSUME IInv, [Next]_vars PROVE IInv'
    OBVIOUS
  <1>1. ASSUME NEW fps \in SUBSET Fps, cipher(fps) PROVE IInv'
    BY <1>1, CipherStep
  <1>2. CASE Move
    BY <1>2, MoveStep
  <1>3. ASSUME NEW f \in Fps, decipher(f) PROVE IInv'
    BY <1>3, DecipherStep
  <1>4. CASE UNCHANGED vars
    BY <1>4, StutterStep
  <1>5. QED
    BY <1>1, <1>2, <1>3, <1>4 DEF Next

-----------------------------------------------------------------------------
(* What the invariant says of a field and of what is reported of it.        *)
LEMMA FieldIs ==
    ASSUME IInv, packet # None, NEW p \in Paths
    PROVE  /\ origin[p] \in Paths /\ packet[p] = Cipher(origin[p])
           /\ IsField(p) <=> doc[origin[p]] \in Leaves
           /\ IsField(p) => (packet[p] \in Leaves <=> IsSkipped(origin[p]))
           /\ Reported(p) => packet[p].path = origin[p]
           /\ Reported(p) <=> /\ origin[p] # p /\ doc[origin[p]] \in Leaves
                              /\ ~IsSkipped(origin[p])
  <1> DEFINE q == origin[p]
  <1>1. q \in Paths /\ packet[p] = Cipher(q) /\ doc \in Documents /\ doc[q] \in Nodes
    BY DEF IInv, Documents
  <1>2. /\ Cipher(q) \in Nodes \cup Encrypted
        /\ Cipher(q) \in Encrypted <=> doc[q] \in Leaves /\ ~IsSkipped(q)
        /\ Cipher(q) \in Encrypted => Cipher(q).path = q /\ Cipher(q) \notin Nodes
        /\ Cipher(q) \notin Encrypted => Cipher(q) = doc[q]
        /\ Cipher(q) \in {Object, Array, Absent} <=> doc[q] \in {Object, Array, Absent}
    BY <1>1, CipherIs
  <1> HIDE DEF q
  <1>3. IsField(p) <=> doc[q] \in Leaves
    BY <1>1, <1>2, NodesAssumption DEF IsField, Nodes
  <1>4. doc[q] \in Leaves => (packet[p] \in Leaves <=> IsSkipped(q))
    BY <1>1, <1>2 DEF Nodes
  <1>5. Reported(p) <=> IsField(p) /\ packet[p] \in Encrypted /\ q # p
    BY <1>1, <1>2, <1>3, <1>4 DEF Reported
  <1>6. QED
    BY <1>1, <1>2, <1>3, <1>4, <1>5 DEF q

LEMMA Invariance == Spec => []IInv
  BY InitOK, NextOK, PTL DEF Spec

(* The document, the encrypted one, where its fields were, and the reports  *)
(* are what their types say.                                                *)
THEOREM TypeCorrect == Spec => []TypeOK
  <1>1. IInv => TypeOK
    <2> SUFFICES ASSUME IInv PROVE TypeOK
      OBVIOUS
    <2>1. packet # None => packet \in [Paths -> Nodes \cup Encrypted] /\ keys \in Recipients
      BY PacketIs DEF IInv
    <2>2. result \in [Paths -> Nodes] \cup {None, Failed}
      <3>1. ASSUME Deciphered, NEW p \in Paths PROVE Opened(packet[p]) \in Nodes
        BY <3>1, FieldIs, CipherIs DEF IInv, Deciphered
      <3>2. QED
        BY <3>1 DEF IInv, Deciphered
    <2>3. DOMAIN unmatched \subseteq Paths
      BY DEF IInv, Deciphered
    <2>4. QED
      BY <2>1, <2>2, <2>3 DEF IInv, TypeOK, Documents
  <1>2. QED
    BY <1>1, Invariance, PTL

(* What leaves cipher shows the skipped fields and no other, however the    *)
(* fields are moved then (OnlySkippedShown).                                *)
THEOREM Concealment == Spec => []OnlySkippedShown
  <1>1. IInv => OnlySkippedShown
    BY FieldIs DEF OnlySkippedShown
  <1>2. QED
    BY <1>1, Invariance, PTL

(* What decipher answers is the document, every field where it is by then,  *)
(* and every encrypted text up to the end of its first line (RoundTrip).    *)
THEOREM InverseUpToLines == Spec => []RoundTrip
  <1>1. IInv => RoundTrip
    <2> SUFFICES ASSUME IInv, result \notin {None, Failed}, NEW p \in Paths
                 PROVE  result[p] = IF doc[origin[p]] \in Texts /\ ~IsSkipped(origin[p])
                                    THEN FirstLine[doc[origin[p]]] ELSE doc[origin[p]]
      BY DEF RoundTrip
    <2>1. packet # None /\ result[p] = Opened(packet[p])
      BY DEF IInv, Deciphered
    <2>2. origin[p] \in Paths /\ packet[p] = Cipher(origin[p]) /\ doc \in Documents
      BY <2>1, FieldIs DEF IInv
    <2>3. QED
      BY <2>1, <2>2, CipherIs
  <1>2. QED
    BY <1>1, Invariance, PTL

(* UnmatchedFields has one report for each encrypted field that is not      *)
(* where it was, and nothing else; it shows both paths if unmangling leaves *)
(* their names alone (MovesReported).                                       *)
THEOREM ExactReports == Spec => []MovesReported
  <1>1. IInv => MovesReported
    <2> SUFFICES ASSUME IInv, result \notin {None, Failed} PROVE MovesReported
      BY DEF MovesReported
    <2>1. Deciphered
      BY DEF IInv
    <2>2. {q \in Paths : Reported(q)} = Moved
      BY <2>1, FieldIs DEF Deciphered, Moved
    <2>3. DOMAIN unmatched = Moved
      BY <2>1, <2>2 DEF Deciphered
    <2>4. ASSUME NEW p \in Moved, Clear(p), Clear(origin[p])
          PROVE  unmatched[p] = <<origin[p], p>>
      <3>1. p \in Paths /\ Reported(p) /\ packet[p].path = origin[p] /\ origin[p] \in Paths
        BY <2>1, <2>2, FieldIs DEF Deciphered
      <3>2. unmatched[p] = <<CipherPathUnmangle(origin[p]), CipherPathUnmangle(p)>>
        BY <2>1, <3>1 DEF Deciphered
      <3>3. QED
        BY <2>4, <3>1, <3>2, UnmangledIs
    <2>5. QED
      BY <2>3, <2>4 DEF MovesReported
  <1>2. QED
    BY <1>1, Invariance, PTL

(* What cipher and decipher make of a document that nobody changed.         *)
UntouchedOK ==
    moves = 0 /\ result \notin {None, Failed} =>
        /\ DOMAIN unmatched = {}
        /\ \A p \in Paths : result[p] = IF doc[p] \in Texts /\ ~IsSkipped(p)
                                        THEN FirstLine[doc[p]] ELSE doc[p]

(* A document that nobody changed on its way comes back field by field and  *)
(* without a report: JSONChanged is false.                                  *)
THEOREM Untouched == Spec => []UntouchedOK
  <1>1. IInv /\ RoundTrip /\ MovesReported => UntouchedOK
    BY DEF IInv, RoundTrip, MovesReported, Moved, UntouchedOK
  <1>2. QED
    BY <1>1, Invariance, InverseUpToLines, ExactReports, PTL

(* cipher fails exactly for keys it cannot have or encrypt for, and for a   *)
(* null or an array in an array outside of what is skipped                  *)
(* (RefusedExactly).                                                        *)
THEOREM ExactRefusals == Spec => []RefusedExactly
  <1>1. IInv => RefusedExactly
    BY DEF IInv
  <1>2. QED
    BY <1>1, Invariance, PTL

(* decipher fails exactly without an unlocked key of a recipient, or for a  *)
(* skipped text that begins with "FCMN" (FailsExactly).                     *)
THEOREM ExactFailures == Spec => []FailsExactly
  <1>1. IInv => FailsExactly
    BY DEF IInv
  <1>2. QED
    BY <1>1, Invariance, PTL

=============================================================================
