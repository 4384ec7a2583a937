---------------------------- MODULE AgentProofs ----------------------------
(***************************************************************************)
(* Proofs about Agent: no saved user or password is lost, the file is what  *)
(* the server knows, and every request acts for the owner of its token.     *)
(***************************************************************************)
EXTENDS Agent, TLAPS

(* A file that can be read holds every change that is known to be written.  *)
FileHolds == file \in Credentials => \A u \in Users : saved[u] # None => file[u] = saved[u]

(* There is nothing to lose before the file is there.                       *)
FirstStart == file = Missing \/ process = "creating" => \A u \in Users : saved[u] = None
Loading    == process \in {"creating", "loading", "up"} => file # Missing
Writing    == saving # None => process = "up"

(* The tokens a request holds, and those that are stored.                   *)
HoldsToken == \A r \in Requests : at[r] \in {"verified", "logged"} => tok[r] # None
HasUser    == \A r \in Requests : at[r] \in {"issue", "logged"} => who[r] # None
OwnerKnown == \A k \in Tokens : tokens[k] # None => issuedTo[k] = tokens[k].user

FileInv  == FileHolds /\ FirstStart /\ Loading /\ Writing /\ SavedStays /\ FileIsCurrent
TokenInv == HoldsToken /\ HasUser /\ OwnerKnown /\ ActsForOwner
IInv == TypeOK /\ FileInv /\ TokenInv

-----------------------------------------------------------------------------
(* The initial states.                                                      *)
LEMMA Initially == Init => IInv
  <1> SUFFICES ASSUME Init PROVE IInv
    OBVIOUS
  <1> USE UserAssumption, TimeAssumption, NoneAssumption, FileAssumption DEF Init, NoUsers, Credentials
  <1>1. TypeOK
    <2>1. users \in Credentials /\ saved \in Credentials /\ file \in Credentials \cup {Missing, Cut}
      OBVIOUS
    <2>2. clock \in 0 .. MaxTime /\ faults \in 0 .. MaxFaults
      BY SMT
    <2>4. stale \in BOOLEAN
      BY Zenon
    <2>3. /\ tokens \in [Tokens -> [user : Users, expires : Nat] \cup {None}]
          /\ at \in [Requests -> {"idle", "issue", "verified", "logged"}]
          /\ tok \in [Requests -> Tokens \cup {None}] /\ who \in [Requests -> Users \cup {None}]
          /\ issuedTo \in [Tokens -> Users \cup {None}]
      OBVIOUS
    <2> QED
      BY <2>1, <2>2, <2>3, <2>4 DEF TypeOK
  <1>2. FileInv
    BY DEF FileInv, FileHolds, FirstStart, Loading, Writing, SavedStays, FileIsCurrent
  <1>3. TokenInv
    BY DEF TokenInv, HoldsToken, HasUser, OwnerKnown, ActsForOwner
  <1> QED
    BY <1>1, <1>2, <1>3 DEF IInv

-----------------------------------------------------------------------------
(* The two actions that write a credential: what they leave.                *)
LEMMA FlushStarts ==
  ASSUME TypeOK, NEW u \in Users, flushFile(u)
  PROVE  /\ saved' = [saved EXCEPT ![u] = None] /\ saved' \in Credentials
         /\ stale' \in BOOLEAN /\ faults' \in 0 .. MaxFaults
         /\ \/ file' = Cut /\ saving' = u
            \/ file' = file /\ saving' = saving /\ stale' = TRUE
  <1>1. saved' = [saved EXCEPT ![u] = None] /\ saved' \in Credentials
    BY DEF TypeOK, flushFile, Credentials
  <1>2. stale' \in BOOLEAN
    BY Zenon DEF TypeOK, flushFile
  <1>3. faults' \in 0 .. MaxFaults
    BY TimeAssumption DEF TypeOK, flushFile, Fault
  <1>4. \/ file' = Cut /\ saving' = u
        \/ file' = file /\ saving' = saving /\ stale' = TRUE
    BY Zenon DEF flushFile
  <1> QED
    BY <1>1, <1>2, <1>3, <1>4

(* Every step leaves the variables in their types.                          *)
LEMMA TypeStep == IInv /\ [Next]_vars => TypeOK'
  <1> SUFFICES ASSUME IInv, [Next]_vars PROVE TypeOK'
    OBVIOUS
  <1> USE TimeAssumption, NoneAssumption, UserAssumption DEF IInv
  <1>1. CASE Boot
    <2>1. CASE loadFile
      <3>1. CASE file = NoUsers
        <4>1. users' \in Credentials
          BY <2>1, <3>1 DEF loadFile, addDefaultAdmin, NoUsers, Credentials
        <4>2. flushFile(Admin)
          BY <2>1, <3>1 DEF loadFile
        <4> QED
          BY <2>1, <4>1, <4>2, FlushStarts DEF TypeOK, loadFile, tokenVars, requests
      <3>2. CASE file # NoUsers
        BY <2>1, <3>2 DEF TypeOK, loadFile, FileInv, Loading, tokenVars, requests
      <3> QED
        BY <3>1, <3>2
    <2>2. CASE CreateFile \/ FileCreated \/ ReadFile \/ Refuse
      BY <2>2 DEF TypeOK, CreateFile, FileCreated, ReadFile, Refuse, Fault, NoUsers,
                  Credentials, tokenVars, requests
    <2> QED
      BY <1>1, <2>1, <2>2 DEF Boot
  <1>2. CASE FlushDone
    <2>1. faults' \in 0 .. MaxFaults
      BY <1>2 DEF TypeOK, FlushDone, Fault
    <2>2. file' \in Credentials \cup {Missing, Cut} /\ saved' \in Credentials
      BY <1>2 DEF TypeOK, FlushDone
    <2>3. stale' \in BOOLEAN
      BY <1>2, Zenon DEF TypeOK, FlushDone
    <2> QED
      BY <1>2, <2>1, <2>2, <2>3 DEF TypeOK, FlushDone, tokenVars, requests
  <1>3. CASE Crash
    <2>1. faults' \in 0 .. MaxFaults
      BY <1>3 DEF TypeOK, Crash, Fault
    <2>2. users' \in Credentials
      BY <1>3 DEF Crash, NoUsers, Credentials
    <2>3. process' \in {"down", "creating", "loading", "up"} /\ stale' \in BOOLEAN
      BY <1>3 DEF Crash
    <2>4. /\ tokens' \in [Tokens -> [user : Users, expires : Nat] \cup {None}]
          /\ at' \in [Requests -> {"idle", "issue", "verified", "logged"}]
          /\ tok' \in [Requests -> Tokens \cup {None}] /\ who' \in [Requests -> Users \cup {None}]
      BY <1>3 DEF Crash
    <2> QED
      BY <1>3, <2>1, <2>2, <2>3, <2>4 DEF TypeOK, Crash
  <1>4. ASSUME NEW r \in Requests, Serve(r) PROVE TypeOK'
    <2> USE DEF Goto, Return, AsAdmin
    <2>1. ASSUME NEW u \in Users, NEW pw \in Passwords, LoginAuth(r, u, pw) PROVE TypeOK'
      BY <2>1 DEF TypeOK, LoginAuth, userVars, tokenVars
    <2>2. ASSUME NEW u \in Users, NEW pw \in Passwords, LoginAdd(r, u, pw) PROVE TypeOK'
      <3>1. CASE users[u] = None
        <4>1. users' \in Credentials
          BY <2>2, <3>1 DEF LoginAdd, TypeOK, Credentials
        <4> QED
          BY <2>2, <3>1, <4>1, FlushStarts DEF LoginAdd, TypeOK, tokenVars
      <3>2. CASE users[u] # None
        BY <2>2, <3>2 DEF LoginAdd, TypeOK, tokenVars
      <3> QED
        BY <3>1, <3>2
    <2>3. ASSUME NEW pw \in Passwords, ChangePassword(r, pw) PROVE TypeOK'
      <3>1. who[r] \in Users
        BY <2>3 DEF ChangePassword, TypeOK, TokenInv, HasUser
      <3>2. CASE users[who[r]] # None
        <4>1. users' \in Credentials
          BY <2>3, <3>1, <3>2 DEF ChangePassword, TypeOK, Credentials
        <4> QED
          BY <2>3, <3>1, <3>2, <4>1, FlushStarts DEF ChangePassword, TypeOK, tokenVars
      <3>3. CASE users[who[r]] = None
        BY <2>3, <3>3 DEF ChangePassword, TypeOK, tokenVars
      <3> QED
        BY <3>2, <3>3
    <2>4. ASSUME NEW k \in Tokens, Verify(r, k) PROVE TypeOK'
      BY <2>4 DEF TypeOK, Verify, userVars
    <2>5. ASSUME NEW k \in Tokens, NEW life \in Lifetimes \cup {AgentTokenExpiration},
                 AddUserWithExpiration(r, k, life)
          PROVE TypeOK'
      <3>1. who[r] \in Users /\ clock + life \in Nat
        BY <2>5 DEF AddUserWithExpiration, TypeOK, TokenInv, HasUser
      <3> QED
        BY <2>5, <3>1 DEF TypeOK, AddUserWithExpiration, Store, userVars
    <2>6. ASSUME NEW k \in Tokens, NEW u \in Users, NEW life \in Lifetimes \cup {AgentTokenExpiration},
                 GenerateToken(r, k, u, life)
          PROVE TypeOK'
      <3>1. clock + (IF life = 0 THEN AgentTokenExpiration ELSE life) \in Nat
        BY DEF TypeOK
      <3> QED
        BY <2>6, <3>1 DEF TypeOK, GenerateToken, Store, userVars
    <2>7. CASE GetUserData(r)
      BY <2>7 DEF TypeOK, GetUserData, TokenInv, HoldsToken, userVars, tokenVars
    <2>8. CASE Answer(r)
      BY <2>8 DEF TypeOK, Answer, userVars, tokenVars
    <2> QED
      BY <1>4, <2>1, <2>2, <2>3, <2>4, <2>5, <2>6, <2>7, <2>8 DEF Serve
  <1>5. ASSUME NEW k \in Tokens, InvalidateToken(k) PROVE TypeOK'
    BY <1>5 DEF TypeOK, InvalidateToken, userVars, requests
  <1>6. CASE Tick
    BY <1>6 DEF TypeOK, Tick, userVars, requests
  <1>7. CASE UNCHANGED vars
    BY <1>7 DEF TypeOK, vars, userVars, tokenVars, requests
  <1> QED
    BY <1>1, <1>2, <1>3, <1>4, <1>5, <1>6, <1>7 DEF Next

-----------------------------------------------------------------------------
(* A change of one user: the others stay as they were saved.                *)
LEMMA Written ==
  ASSUME IInv, process = "up", process' = "up", saving = None,
         NEW u \in Users, NEW pw \in Passwords,
         users' = [users EXCEPT ![u] = pw], flushFile(u)
  PROVE  FileInv'
  <1> USE FileAssumption, NoneAssumption DEF IInv, FileInv
  <1>1. SavedStays'
    <2>1. \A v \in Users : saved'[v] # None => v # u /\ saved'[v] = saved[v]
      <3>1. saved' = [saved EXCEPT ![u] = None] /\ saved \in Credentials
        BY FlushStarts DEF TypeOK
      <3> QED
        BY <3>1 DEF Credentials
    <2>2. \A v \in Users : v # u => users'[v] = users[v]
      BY DEF TypeOK, Credentials
    <2> QED
      BY <2>1, <2>2 DEF SavedStays
  <1>2. FileHolds' /\ Loading' /\ FirstStart'
    BY FlushStarts DEF FileHolds, Loading, FirstStart, TypeOK, Credentials
  <1>3. Writing' /\ FileIsCurrent'
    BY FlushStarts DEF Writing, FileIsCurrent, TypeOK
  <1> QED
    BY <1>1, <1>2, <1>3

(* Every step keeps what is said of the users and their file.               *)
LEMMA FileStep == IInv /\ [Next]_vars => FileInv'
  <1> SUFFICES ASSUME IInv, [Next]_vars PROVE FileInv'
    OBVIOUS
  <1> USE FileAssumption, NoneAssumption, UserAssumption
      DEF IInv, FileInv, FileHolds, FirstStart, Loading, Writing, SavedStays, FileIsCurrent
  <1>1. CASE Boot
    <2>1. CASE loadFile
      <3>1. CASE file = NoUsers
        <4>1. \A u \in Users : saved[u] = None
          BY <3>1 DEF NoUsers, Credentials
        <4>2. flushFile(Admin) /\ process = "loading" /\ process' = "up" /\ saving = None
          BY <2>1, <3>1 DEF loadFile
        <4>3. \A u \in Users : saved'[u] = None
          BY <4>1, <4>2, FlushStarts DEF TypeOK, Credentials
        <4> QED
          BY <4>2, <4>3, FlushStarts DEF TypeOK
      <3>2. CASE file # NoUsers
        BY <2>1, <3>2 DEF TypeOK, loadFile
      <3> QED
        BY <3>1, <3>2
    <2>2. CASE FileCreated
      BY <2>2 DEF TypeOK, FileCreated, NoUsers, Credentials
    <2>3. CASE CreateFile \/ ReadFile \/ Refuse
      BY <2>3 DEF TypeOK, CreateFile, ReadFile, Refuse
    <2> QED
      BY <1>1, <2>1, <2>2, <2>3 DEF Boot
  <1>2. CASE FlushDone
    BY <1>2 DEF TypeOK, FlushDone
  <1>3. CASE Crash
    BY <1>3 DEF TypeOK, Crash
  <1>4. ASSUME NEW r \in Requests, Serve(r) PROVE FileInv'
    <2>1. ASSUME NEW u \in Users, NEW pw \in Passwords, LoginAdd(r, u, pw) PROVE FileInv'
      <3>1. CASE users[u] = None
        BY <2>1, <3>1, Written DEF LoginAdd, AsAdmin, Return, Goto
      <3>2. CASE users[u] # None
        BY <2>1, <3>2 DEF LoginAdd
      <3> QED
        BY <3>1, <3>2
    <2>2. ASSUME NEW pw \in Passwords, ChangePassword(r, pw) PROVE FileInv'
      <3>1. who[r] \in Users
        BY <2>2 DEF ChangePassword, Return, Goto, TypeOK, TokenInv, HasUser
      <3>2. CASE users[who[r]] # None
        BY <2>2, <3>1, <3>2, Written DEF ChangePassword, Return, Goto
      <3>3. CASE users[who[r]] = None
        BY <2>2, <3>3 DEF ChangePassword
      <3> QED
        BY <3>2, <3>3
    <2>3. CASE UNCHANGED userVars
      BY <2>3 DEF userVars
    <2> QED
      BY <1>4, <2>1, <2>2, <2>3
      DEF Serve, LoginAuth, Verify, AddUserWithExpiration, GenerateToken, GetUserData, Answer
  <1>5. CASE UNCHANGED userVars
    BY <1>5 DEF userVars
  <1> QED
    BY <1>1, <1>2, <1>3, <1>4, <1>5 DEF Next, InvalidateToken, Tick, vars

-----------------------------------------------------------------------------
(* A new token belongs to nobody's request.                                 *)
LEMMA Stored ==
  ASSUME IInv, NEW r \in Requests, NEW from \in {"issue", "logged"}, Return(r, from),
         NEW k \in Tokens, New(k), NEW u \in Users, NEW life \in Nat, Store(k, u, life)
  PROVE  TokenInv'
  BY NoneAssumption
  DEF IInv, TypeOK, TokenInv, HoldsToken, HasUser, OwnerKnown, ActsForOwner, Return, Goto, New, Store

(* Every step keeps the requests with the owners of their tokens.           *)
LEMMA TokenStep == IInv /\ [Next]_vars => TokenInv'
  <1> SUFFICES ASSUME IInv, [Next]_vars PROVE TokenInv'
    OBVIOUS
  <1> USE NoneAssumption, TimeAssumption
      DEF IInv, TypeOK, TokenInv, HoldsToken, HasUser, OwnerKnown, ActsForOwner
  <1>1. CASE Crash
    BY <1>1 DEF Crash
  <1>2. ASSUME NEW r \in Requests, Serve(r) PROVE TokenInv'
    <2> USE DEF Goto, Return, AsAdmin
    <2>1. ASSUME NEW u \in Users, NEW pw \in Passwords, LoginAuth(r, u, pw) PROVE TokenInv'
      BY <2>1 DEF LoginAuth, tokenVars
    <2>2. ASSUME NEW u \in Users, NEW pw \in Passwords, LoginAdd(r, u, pw) PROVE TokenInv'
      BY <2>2 DEF LoginAdd, tokenVars
    <2>3. ASSUME NEW pw \in Passwords, ChangePassword(r, pw) PROVE TokenInv'
      BY <2>3 DEF ChangePassword, tokenVars
    <2>4. ASSUME NEW k \in Tokens, Verify(r, k) PROVE TokenInv'
      BY <2>4 DEF Verify
    <2>5. ASSUME NEW k \in Tokens, NEW life \in Lifetimes \cup {AgentTokenExpiration},
                 AddUserWithExpiration(r, k, life)
          PROVE TokenInv'
      BY <2>5, Stored DEF AddUserWithExpiration
    <2>6. ASSUME NEW k \in Tokens, NEW u \in Users, NEW life \in Lifetimes \cup {AgentTokenExpiration},
                 GenerateToken(r, k, u, life)
          PROVE TokenInv'
      BY <2>6, Stored DEF GenerateToken
    <2>7. CASE GetUserData(r)
      BY <2>7 DEF GetUserData, tokenVars
    <2>8. CASE Answer(r)
      BY <2>8 DEF Answer, tokenVars
    <2> QED
      BY <1>2, <2>1, <2>2, <2>3, <2>4, <2>5, <2>6, <2>7, <2>8 DEF Serve
  <1>3. ASSUME NEW k \in Tokens, InvalidateToken(k) PROVE TokenInv'
    BY <1>3 DEF InvalidateToken, requests
  <1>4. CASE UNCHANGED <<tokens, issuedTo, requests>>
    BY <1>4 DEF requests
  <1> QED
    BY <1>1, <1>2, <1>3, <1>4
    DEF Next, Boot, CreateFile, FileCreated, ReadFile, loadFile, Refuse, FlushDone, Tick, tokenVars, vars

-----------------------------------------------------------------------------
(* The invariant holds in every reachable state.                            *)
THEOREM Invariant == Spec => []IInv
  <1>1. IInv /\ [Next]_vars => IInv'
    BY TypeStep, FileStep, TokenStep DEF IInv
  <1> QED
    BY Initially, <1>1, PTL DEF Spec

(* Every variable of the agent keeps its type.                              *)
THEOREM TypeCorrect == Spec => []TypeOK
  <1>1. IInv => TypeOK
    BY DEF IInv
  <1> QED
    BY Invariant, <1>1, PTL

(* No user or password that was written is forgotten or undone, whatever     *)
(* crashes and failing writes come between (JSONAuthManager.go).             *)
THEOREM NothingUndone == Spec => []SavedStays
  <1>1. IInv => SavedStays
    BY DEF IInv, FileInv
  <1> QED
    BY Invariant, <1>1, PTL

(* A server that is not saving has in users.json what it knows, unless the   *)
(* last write failed (JSONAuthManager.go:81).                                *)
THEOREM MayStop == Spec => []FileIsCurrent
  <1>1. IInv => FileIsCurrent
    BY DEF IInv, FileInv
  <1> QED
    BY Invariant, <1>1, PTL

(* A request acts for the user its token was issued to, whatever other       *)
(* requests do between its two look-ups (agentProxy.go:135, 147).            *)
THEOREM RightOwner == Spec => []ActsForOwner
  <1>1. IInv => ActsForOwner
    BY DEF IInv, TokenInv
  <1> QED
    BY Invariant, <1>1, PTL
=============================================================================
