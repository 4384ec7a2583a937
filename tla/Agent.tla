-------------------------------- MODULE Agent --------------------------------
(***************************************************************************)
(* The agent: its users, kept in users.json by JSONAuthManager, its tokens, *)
(* kept in memory by MemoryTokenManager (both internal/agent), and the      *)
(* requests that use them (internal/server/agentProxy.go,                   *)
(* agentAdminEndpoint.go and agent/graphql.go).                             *)
(*                                                                         *)
(* Both managers have a mutex.  The one of the users is held while the file *)
(* is written, the one of the tokens for a single step; a request takes it  *)
(* once to verify its token and again to get the user of that token.        *)
(* A password stands for its hash.                                          *)
(***************************************************************************)
EXTENDS Naturals

CONSTANTS
    Requests,
    Users,
    Admin,          \* "admin"
    Passwords,
    Default,        \* the password addDefaultAdmin gives the administrator
    Tokens,
    AgentTokenExpiration,
    Lifetimes,      \* the values of expiresAfter
    MaxTime,        \* bound of the clock
    MaxFaults,      \* bound: crashes and failing writes
    Missing,        \* there is no users.json
    Cut,            \* it is empty or partly written
    None

ASSUME UserAssumption == Admin \in Users /\ Default \in Passwords
ASSUME TimeAssumption ==
    /\ AgentTokenExpiration \in Nat /\ Lifetimes \subseteq Nat
    /\ MaxTime \in Nat /\ MaxFaults \in Nat
ASSUME NoneAssumption ==
    /\ None \notin Passwords /\ None \notin Users /\ None \notin Tokens
    /\ None \notin [user : Users, expires : Nat]

Credentials == [Users -> Passwords \cup {None}]
NoUsers     == [u \in Users |-> None]
ASSUME FileAssumption == {Missing, Cut} \cap Credentials = {} /\ Missing # Cut

VARIABLES
    process,    \* "down", "creating" or "loading" users.json, or "up"
    users,      \* JSONAuthManager.users
    file,       \* users.json
    saving,     \* the user whose change is being written with the mutex held
    tokens,     \* MemoryTokenManager.storedTokens
    clock,
    at,         \* request -> where it is
    tok,        \* request -> the token it came with
    who,        \* request -> the user it acts for
    saved,      \* history: user -> the password last known to be written
    stale,      \* history: a write has failed and none succeeded since
    issuedTo,   \* history: token -> the user it was issued to
    faults

userVars  == <<process, users, file, saving, saved, stale>>
tokenVars == <<tokens, issuedTo, clock>>
requests  == <<at, tok, who>>
vars == <<userVars, tokenVars, requests, faults>>

TypeOK ==
    /\ process \in {"down", "creating", "loading", "up"}
    /\ users \in Credentials
    /\ file \in Credentials \cup {Missing, Cut}
    /\ saving \in Users \cup {None}
    /\ tokens \in [Tokens -> [user : Users, expires : Nat] \cup {None}]
    /\ clock \in 0 .. MaxTime
    /\ at \in [Requests -> {"idle", "issue", "verified", "logged"}]
    /\ tok \in [Requests -> Tokens \cup {None}]
    /\ who \in [Requests -> Users \cup {None}]
    /\ saved \in Credentials
    /\ stale \in BOOLEAN
    /\ issuedTo \in [Tokens -> Users \cup {None}]
    /\ faults \in 0 .. MaxFaults

(* The server starts for the first time, or on a file that was saved.       *)
Init ==
    /\ process = "down"
    /\ users = NoUsers
    /\ file \in {Missing} \cup {c \in Credentials : c[Admin] # None}
    /\ saving = None
    /\ tokens = [k \in Tokens |-> None]
    /\ clock = 0
    /\ at = [r \in Requests |-> "idle"]
    /\ tok = [r \in Requests |-> None]
    /\ who = [r \in Requests |-> None]
    /\ saved = IF file = Missing THEN NoUsers ELSE file
    /\ stale = FALSE
    /\ issuedTo = [k \in Tokens |-> None]
    /\ faults = 0

Fault == faults < MaxFaults /\ faults' = faults + 1

-----------------------------------------------------------------------------
(* The file.  WriteFile empties it and then writes it; flushFile logs an    *)
(* error of either and goes on.                                             *)

flushFile(u) ==
    /\ saved' = [saved EXCEPT ![u] = None]
    /\ \/ file' = Cut /\ saving' = u /\ UNCHANGED <<stale, faults>>
       \/ Fault /\ stale' = TRUE /\ UNCHANGED <<file, saving>>

FlushDone ==
    /\ saving # None
    /\ saving' = None
    /\ \/ file' = users /\ saved' = users /\ stale' = FALSE /\ UNCHANGED faults
       \/ Fault /\ stale' = TRUE /\ UNCHANGED <<file, saved>>
    /\ UNCHANGED <<process, users, tokenVars, requests>>

(* A server that cannot write or read the file ends.                        *)
CreateFile ==
    /\ process = "down" /\ file = Missing
    /\ file' = Cut /\ process' = "creating"
    /\ UNCHANGED <<users, saving, saved, stale, tokenVars, requests, faults>>

FileCreated ==
    /\ process = "creating"
    /\ \/ file' = NoUsers /\ process' = "loading" /\ UNCHANGED faults
       \/ Fault /\ process' = "down" /\ UNCHANGED file
    /\ UNCHANGED <<users, saving, saved, stale, tokenVars, requests>>

ReadFile ==
    /\ process = "down" /\ file # Missing
    /\ process' = "loading"
    /\ UNCHANGED <<users, file, saving, saved, stale, tokenVars, requests, faults>>

addDefaultAdmin == [NoUsers EXCEPT ![Admin] = Default]

(* Mutant: a file that cannot be read counts as one without users.          *)
LoadOrStartOver ==
    /\ process = "loading"
    /\ process' = "up"
    /\ IF file \in {NoUsers, Cut}
       THEN /\ users' = addDefaultAdmin
            /\ flushFile(Admin)
       ELSE /\ users' = file
            /\ stale' = FALSE
            /\ UNCHANGED <<file, saving, saved, faults>>
    /\ UNCHANGED <<tokenVars, requests>>

loadFile ==
    /\ process = "loading" /\ file # Cut
    /\ process' = "up"
    /\ IF file = NoUsers
       THEN /\ users' = addDefaultAdmin
            /\ flushFile(Admin)
       ELSE /\ users' = file
            /\ stale' = FALSE
            /\ UNCHANGED <<file, saving, saved, faults>>
    /\ UNCHANGED <<tokenVars, requests>>

(* "Corrupted or invalid JSON": the process ends, at every start.           *)
Refuse ==
    /\ process = "loading" /\ file = Cut
    /\ process' = "down"
    /\ UNCHANGED <<users, file, saving, saved, stale, tokenVars, requests, faults>>

Crash ==
    /\ process # "down" /\ Fault
    /\ process' = "down"
    /\ users' = NoUsers /\ saving' = None /\ stale' = FALSE
    /\ tokens' = [k \in Tokens |-> None]
    /\ at' = [r \in Requests |-> "idle"]
    /\ tok' = [r \in Requests |-> None]
    /\ who' = [r \in Requests |-> None]
    /\ UNCHANGED <<file, saved, issuedTo, clock>>

-----------------------------------------------------------------------------
(* Requests *)

Goto(r, from, to) == process = "up" /\ at[r] = from /\ at' = [at EXCEPT ![r] = to]
Return(r, from) ==
    /\ Goto(r, from, "idle")
    /\ tok' = [tok EXCEPT ![r] = None]
    /\ who' = [who EXCEPT ![r] = None]

(* A uuid is new when it is neither stored nor in a request: the bounded     *)
(* pool of the model gives out again those that were forgotten.              *)
New(k) == tokens[k] = None /\ \A r \in Requests : tok[r] # k
Store(k, u, lifetime) ==
    /\ tokens' = [tokens EXCEPT ![k] = [user |-> u, expires |-> clock + lifetime]]
    /\ issuedTo' = [issuedTo EXCEPT ![k] = u]

(* Mutation Login: the password is tested, then the token stored.           *)
LoginAuth(r, u, pw) ==
    /\ Goto(r, "idle", "issue")
    /\ saving = None /\ users[u] = pw
    /\ who' = [who EXCEPT ![r] = u]
    /\ UNCHANGED <<userVars, tokenVars, tok, faults>>

(* Mutant: the uuid of the new token may be in use.                         *)
AddUserAgain(r, k, lifetime) ==
    /\ Return(r, "issue")
    /\ Store(k, who[r], lifetime)
    /\ UNCHANGED <<userVars, clock, faults>>

(* expiresAfter replaces the default whenever it is there.                   *)
AddUserWithExpiration(r, k, lifetime) ==
    /\ Return(r, "issue")
    /\ New(k)
    /\ Store(k, who[r], lifetime)
    /\ UNCHANGED <<userVars, clock, faults>>

(* What every request with a token starts with, proxied or administrative:  *)
(* an expired token is removed by whoever verifies it.                       *)
Verify(r, k) ==
    /\ tokens[k] # None
    /\ IF clock > tokens[k].expires
       THEN /\ process = "up" /\ at[r] = "idle"
            /\ tokens' = [tokens EXCEPT ![k] = None]
            /\ UNCHANGED <<at, tok>>
       ELSE /\ Goto(r, "idle", "verified")
            /\ tok' = [tok EXCEPT ![r] = k]
            /\ UNCHANGED tokens
    /\ UNCHANGED <<userVars, issuedTo, clock, who, faults>>

(* The token may be gone by now: its nil user ends the request in a panic    *)
(* that is recovered.                                                        *)
GetUserData(r) ==
    /\ at[r] = "verified"
    /\ LET data == tokens[tok[r]]
       IN  IF data # None
           THEN /\ Goto(r, "verified", "logged")
                /\ who' = [who EXCEPT ![r] = data.user]
                /\ UNCHANGED tok
           ELSE Return(r, "verified")
    /\ UNCHANGED <<userVars, tokenVars, faults>>

(* A proxied request is signed with the key of its user, WhoAmI answered.    *)
Answer(r) ==
    /\ Return(r, "logged")
    /\ UNCHANGED <<userVars, tokenVars, faults>>

(* Anybody else is refused, which is Answer.                                 *)
AsAdmin(r) == Return(r, "logged") /\ who[r] = Admin

(* Mutant: the users are not saved.                                          *)
LoginAddUnsaved(r, u, pw) ==
    /\ AsAdmin(r)
    /\ saving = None
    /\ users' = IF users[u] = None THEN [users EXCEPT ![u] = pw] ELSE users
    /\ UNCHANGED <<process, file, saving, saved, stale, tokenVars, faults>>

(* Mutation AddUser: a user who exists stays as he is.                       *)
LoginAdd(r, u, pw) ==
    /\ AsAdmin(r)
    /\ saving = None
    /\ IF users[u] = None
       THEN users' = [users EXCEPT ![u] = pw] /\ flushFile(u)
       ELSE UNCHANGED <<users, file, saving, saved, stale, faults>>
    /\ UNCHANGED <<process, tokenVars>>

(* Tokens are issued for names that are nobody's, too.                       *)
ChangePassword(r, pw) ==
    /\ Return(r, "logged")
    /\ saving = None
    /\ IF users[who[r]] # None
       THEN users' = [users EXCEPT ![who[r]] = pw] /\ flushFile(who[r])
       ELSE UNCHANGED <<users, file, saving, saved, stale, faults>>
    /\ UNCHANGED <<process, tokenVars>>

GenerateToken(r, k, u, lifetime) ==
    /\ AsAdmin(r)
    /\ New(k)
    /\ Store(k, u, IF lifetime = 0 THEN AgentTokenExpiration ELSE lifetime)
    /\ UNCHANGED <<userVars, clock, faults>>

(* Nobody needs to be logged in to invalidate a token.                       *)
InvalidateToken(k) ==
    /\ process = "up" /\ tokens[k] # None
    /\ tokens' = [tokens EXCEPT ![k] = None]
    /\ UNCHANGED <<userVars, issuedTo, clock, requests, faults>>

Tick ==
    /\ clock < MaxTime /\ clock' = clock + 1
    /\ UNCHANGED <<userVars, tokens, issuedTo, requests, faults>>

Serve(r) ==
    \/ \E u \in Users, pw \in Passwords : LoginAuth(r, u, pw) \/ LoginAdd(r, u, pw)
    \/ \E pw \in Passwords : ChangePassword(r, pw)
    \/ \E k \in Tokens : Verify(r, k)
    \/ \E k \in Tokens, life \in Lifetimes \cup {AgentTokenExpiration} :
          AddUserWithExpiration(r, k, life) \/ \E u \in Users : GenerateToken(r, k, u, life)
    \/ GetUserData(r) \/ Answer(r)
Boot == CreateFile \/ FileCreated \/ ReadFile \/ loadFile \/ Refuse
Next ==
    \/ Boot \/ FlushDone \/ Crash
    \/ \E r \in Requests : Serve(r)
    \/ \E k \in Tokens : InvalidateToken(k)
    \/ Tick

Spec == Init /\ [][Next]_vars

-----------------------------------------------------------------------------
(* Properties *)

(* A user or a password that was once written is what a running server       *)
(* knows until it is changed again, through failing writes and restarts: no  *)
(* old password comes back, nor the administrator's default one.             *)
SavedStays ==
    process = "up" => \A u \in Users : saved[u] # None => users[u] = saved[u]

(* While nobody is saving and no write has failed, the file is what the      *)
(* server knows, so that it can be stopped.                                  *)
FileIsCurrent == process = "up" /\ saving = None /\ ~stale => file = users

(* The user a request acts for, adds users for, or has a key sign for, is    *)
(* the one its token was issued to, though it looks the token up twice and   *)
(* others expire and invalidate it in between.                               *)
ActsForOwner ==
    \A r \in Requests : at[r] = "logged" => who[r] = issuedTo[tok[r]]
=============================================================================
