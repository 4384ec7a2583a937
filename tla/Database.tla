------------------------------ MODULE Database ------------------------------
(***************************************************************************)
(* Several servers on one RethinkDB: each creates what is missing of the    *)
(* database when it starts (internal/database/databaseManager.go), adds the *)
(* default administrator (internal/agent/RethinkAuthManager.go) and then    *)
(* adds public keys (internal/keymagic/publicKeyStore.go,                   *)
(* internal/models/GPGKey.go) and users (internal/models/UserModel.go).     *)
(*                                                                         *)
(* A query is one step of the database.  A query may fail, and one that     *)
(* writes may also be carried out and its answer lost with the connection,  *)
(* upon which the driver sends it again, MaxRetryCount times in all.  There *)
(* are no transactions: everything the code looks up may have changed when  *)
(* it writes.                                                               *)
(***************************************************************************)
EXTENDS Naturals, FiniteSets

CONSTANTS
    Servers, Requests,
    Tables, IndexNames,
    IndexesOf,          \* table -> its indexes
    Keys,               \* fingerprints
    Names, Passwords, Admin, DefaultPassword,
    MaxRetryCount,
    MaxFaults,          \* bound of the crashes, failing queries and lost answers
    None

ASSUME DatabaseAssumption ==
    /\ IndexesOf \in [Tables -> SUBSET IndexNames]
    /\ Admin \in Names /\ DefaultPassword \in Passwords
    /\ MaxRetryCount \in Nat \ {0} /\ MaxFaults \in Nat
    /\ None \notin Servers \cup Keys

VARIABLES
    db, tables, indexes,  \* what exists of the database
    rows,       \* key -> request -> rows of that key the request has inserted
    users,      \* user -> the passwords in the rows of that name
    srv,        \* server -> the position of its start
    auth,       \* server -> the user operation that holds the mutex
    req,        \* request of the key endpoints -> its position
    answered,   \* history: keys whose addition was answered "OK"
    faults

vars == <<db, tables, indexes, rows, users, srv, auth, req, answered, faults>>

Starting == {"listDb", "createDb", "listTables", "table", "listIndexes", "indexes"}
TypeOK ==
    /\ db \in BOOLEAN
    /\ tables \subseteq Tables
    /\ indexes \in [Tables -> SUBSET IndexNames]
    /\ rows \in [Keys -> [Requests -> Nat]]
    /\ users \in [Names -> SUBSET Passwords]
    /\ srv \in [Servers -> [at : Starting \cup {"down", "admin", "addAdmin", "up"},
                            known : SUBSET Tables, todo : SUBSET Tables,
                            table : Tables \cup {None}, missing : SUBSET IndexNames]]
    /\ auth \in [Servers -> [at : {"free", "get", "look", "insert", "find", "update"},
                             name : Names \cup {None}, password : Passwords \cup {None},
                             tries : 0 .. MaxRetryCount]]
    /\ req \in [Requests -> [at : {"idle", "search", "look", "insert"},
                             home : Servers \cup {None}, key : Keys \cup {None},
                             tries : 0 .. MaxRetryCount]]
    /\ answered \subseteq Keys
    /\ faults \in 0 .. MaxFaults

Down == [at |-> "down", known |-> {}, todo |-> {}, table |-> None, missing |-> {}]
Free == [at |-> "free", name |-> None, password |-> None, tries |-> 0]
Idle == [at |-> "idle", home |-> None, key |-> None, tries |-> 0]

Init ==
    /\ db = FALSE /\ tables = {} /\ indexes = [t \in Tables |-> {}]
    /\ rows = [k \in Keys |-> [r \in Requests |-> 0]]
    /\ users = [n \in Names |-> {}]
    /\ srv = [s \in Servers |-> Down]
    /\ auth = [s \in Servers |-> Free]
    /\ req = [r \in Requests |-> Idle]
    /\ answered = {}
    /\ faults = 0

schema   == <<db, tables, indexes>>
keyStore == <<rows, req, answered>>
Fault == faults < MaxFaults /\ faults' = faults + 1

-----------------------------------------------------------------------------
(* InitTables.  What the server has listed before may be out of date when   *)
(* it creates what was missing; "already exists" is then no error.          *)
Go(s, from, to) == srv[s].at = from /\ srv' = [srv EXCEPT ![s] = to]

Restart(s) ==
    /\ Go(s, "down", [Down EXCEPT !.at = "listDb"])
    /\ UNCHANGED <<schema, keyStore, users, auth, faults>>

ListDatabases(s) ==
    /\ Go(s, "listDb", [srv[s] EXCEPT !.at = IF db THEN "listTables" ELSE "createDb"])
    /\ UNCHANGED <<schema, keyStore, users, auth, faults>>

CreateDatabase(s) ==
    /\ Go(s, "createDb", [srv[s] EXCEPT !.at = "listTables"])
    /\ db' = TRUE
    /\ UNCHANGED <<tables, indexes, keyStore, users, auth, faults>>

(* Mutant: the tables that are listed are not checked for their indexes.     *)
ListMissingTables(s) ==
    /\ Go(s, "listTables", [srv[s] EXCEPT !.known = tables, !.todo = Tables \ tables,
                                          !.at = IF tables = Tables THEN "admin" ELSE "table"])
    /\ UNCHANGED <<schema, keyStore, users, auth, faults>>
ListTables(s) ==
    /\ Go(s, "listTables", [srv[s] EXCEPT !.known = tables, !.todo = Tables,
                                          !.at = IF Tables = {} THEN "admin" ELSE "table"])
    /\ UNCHANGED <<schema, keyStore, users, auth, faults>>

TakeTable(s, t) == Go(s, "table", [srv[s] EXCEPT !.todo = @ \ {t}, !.table = t,
                                                 !.at = "listIndexes"])

KnownTable(s, t) ==
    /\ t \in srv[s].todo \cap srv[s].known
    /\ TakeTable(s, t)
    /\ UNCHANGED <<schema, keyStore, users, auth, faults>>

CreateTable(s, t) ==
    /\ t \in srv[s].todo \ srv[s].known
    /\ TakeTable(s, t)
    /\ tables' = tables \cup {t}
    /\ UNCHANGED <<db, indexes, keyStore, users, auth, faults>>

(* Where the two loops go on once indexes are left to create.               *)
AfterIndexes(s, left) ==
    IF left # {} THEN "indexes" ELSE IF srv[s].todo # {} THEN "table" ELSE "admin"

ListIndexes(s) ==
    LET left == IndexesOf[srv[s].table] \ indexes[srv[s].table] IN
    /\ srv[s].table \in tables
    /\ Go(s, "listIndexes", [srv[s] EXCEPT !.missing = left, !.at = AfterIndexes(s, left)])
    /\ UNCHANGED <<schema, keyStore, users, auth, faults>>

CreateIndex(s, i) ==
    LET left == srv[s].missing \ {i} IN
    /\ i \in srv[s].missing
    /\ Go(s, "indexes", [srv[s] EXCEPT !.missing = left, !.at = AfterIndexes(s, left)])
    /\ indexes' = [indexes EXCEPT ![srv[s].table] = @ \cup {i}]
    /\ UNCHANGED <<db, tables, keyStore, users, auth, faults>>

(* The process ends: it is stopped, or a query of InitTables fails.  Its     *)
(* requests end with it.                                                    *)
Crash(s) ==
    /\ srv[s].at # "down"
    /\ Fault
    /\ srv' = [srv EXCEPT ![s] = Down]
    /\ auth' = [auth EXCEPT ![s] = Free]
    /\ req' = [r \in Requests |-> IF req[r].home = s THEN Idle ELSE req[r]]
    /\ UNCHANGED <<schema, rows, answered, users>>

-----------------------------------------------------------------------------
(* Users.  A server has one operation on users at a time.                   *)
Begin(s, at, n, p) ==
    /\ auth[s].at = "free"
    /\ auth' = [auth EXCEPT ![s] = [at |-> at, name |-> n, password |-> p, tries |-> 0]]

(* Mutant: the server adds the administrator whether or not there is one.    *)
AdminExistsIgnored(s) ==
    /\ users[Admin] # {}
    /\ Go(s, "admin", [Down EXCEPT !.at = "addAdmin"])
    /\ Begin(s, "get", Admin, DefaultPassword)
    /\ UNCHANGED <<schema, keyStore, users, faults>>
AdminExists(s) ==
    /\ users[Admin] # {}
    /\ Go(s, "admin", [Down EXCEPT !.at = "up"])
    /\ UNCHANGED <<schema, keyStore, users, auth, faults>>

(* There is no administrator, or the query fails: either counts as missing.  *)
AddDefaultAdmin(s) ==
    /\ (users[Admin] = {} /\ UNCHANGED faults) \/ Fault
    /\ Go(s, "admin", [Down EXCEPT !.at = "addAdmin"])
    /\ Begin(s, "get", Admin, DefaultPassword)
    /\ UNCHANGED <<schema, keyStore, users>>

LoginAdd(s, n, p) ==
    /\ srv[s].at = "up"
    /\ Begin(s, "get", n, p)
    /\ UNCHANGED <<schema, keyStore, users, srv, faults>>

ChangePassword(s, n, p) ==
    /\ srv[s].at = "up"
    /\ Begin(s, "find", n, p)
    /\ UNCHANGED <<schema, keyStore, users, srv, faults>>

(* The operation returns.  An error ends a server that adds the              *)
(* administrator (Fatal).                                                   *)
Return(s, ok) ==
    /\ auth' = [auth EXCEPT ![s] = Free]
    /\ srv' = IF srv[s].at = "up" THEN srv
              ELSE [srv EXCEPT ![s] = IF ok THEN [Down EXCEPT !.at = "up"] ELSE Down]

Proceed(s, at, tries) ==
    /\ auth' = [auth EXCEPT ![s].at = at, ![s].tries = tries]
    /\ UNCHANGED srv

(* LoginAdd asks for the user and takes an error for "not there"...         *)
GetUser(s) ==
    /\ auth[s].at = "get"
    /\ \/ users[auth[s].name] # {} /\ Return(s, FALSE) /\ UNCHANGED faults
       \/ users[auth[s].name] = {} /\ Proceed(s, "look", 0) /\ UNCHANGED faults
       \/ Fault /\ Proceed(s, "look", 0)
    /\ UNCHANGED <<schema, keyStore, users>>

(* ... AddUser asks again and does not.                                     *)
(* Mutant: AddUser takes an error for "not there" as well.                   *)
LookUserLax(s) ==
    /\ auth[s].at = "look"
    /\ \/ users[auth[s].name] # {} /\ Return(s, FALSE) /\ UNCHANGED faults
       \/ users[auth[s].name] = {} /\ Proceed(s, "insert", MaxRetryCount) /\ UNCHANGED faults
       \/ Fault /\ Proceed(s, "insert", MaxRetryCount)
    /\ UNCHANGED <<schema, keyStore, users>>
LookUser(s) ==
    /\ auth[s].at = "look"
    /\ \/ users[auth[s].name] # {} /\ Return(s, FALSE) /\ UNCHANGED faults
       \/ users[auth[s].name] = {} /\ Proceed(s, "insert", MaxRetryCount) /\ UNCHANGED faults
       \/ Fault /\ Return(s, FALSE)
    /\ UNCHANGED <<schema, keyStore, users>>

(* ChangePassword: GetUser, and an update of every row of the name.          *)
FindUser(s) ==
    /\ auth[s].at = "find"
    /\ \/ users[auth[s].name] = {} /\ Return(s, FALSE) /\ UNCHANGED faults
       \/ users[auth[s].name] # {} /\ Proceed(s, "update", MaxRetryCount) /\ UNCHANGED faults
       \/ Fault /\ Return(s, FALSE)
    /\ UNCHANGED <<schema, keyStore, users>>

Written(s) == [users EXCEPT ![auth[s].name] =
    IF auth[s].at = "insert" THEN @ \cup {auth[s].password} ELSE {auth[s].password}]

(* An update that is sent again after it was carried out replaces nothing,    *)
(* which is reported as an unknown user.                                    *)
WriteUser(s) ==
    /\ auth[s].at \in {"insert", "update"}
    /\ users' = Written(s)
    /\ \/ Return(s, TRUE)
       \/ /\ auth[s].at = "update" /\ auth[s].tries < MaxRetryCount
          /\ Written(s) = users
          /\ Return(s, FALSE)
    /\ UNCHANGED <<schema, keyStore, faults>>

(* The connection is lost, before or after the write: the driver sends the   *)
(* query again, or gives up.                                                *)
WriteUserLost(s) ==
    /\ auth[s].at \in {"insert", "update"}
    /\ Fault
    /\ users' \in {users, Written(s)}
    /\ \/ auth[s].tries > 1 /\ Proceed(s, auth[s].at, auth[s].tries - 1)
       \/ auth[s].tries = 1 /\ Return(s, FALSE)
    /\ UNCHANGED <<schema, keyStore>>

-----------------------------------------------------------------------------
(* PKSAdd, in any number of requests at once.                               *)
PKSAdd(r, s, k) ==
    /\ req[r].at = "idle" /\ srv[s].at = "up"
    /\ req' = [req EXCEPT ![r] = [at |-> "search", home |-> s, key |-> k, tries |-> 0]]
    /\ UNCHANGED <<schema, rows, answered, users, srv, auth, faults>>

Answer(r, ok) ==
    /\ req' = [req EXCEPT ![r] = Idle]
    /\ answered' = IF ok THEN answered \cup {req[r].key} ELSE answered

Stored(k) == \E r \in Requests : rows[k][r] > 0

(* Mutant: PKSAdd leaves it to AddGPGKey to look for the key.                *)
SearchNothing(r) ==
    /\ req[r].at = "search"
    /\ req' = [req EXCEPT ![r].at = "look"]
    /\ UNCHANGED <<schema, rows, answered, users, srv, auth, faults>>
Search(r) ==
    /\ req[r].at = "search"
    /\ \/ Stored(req[r].key) /\ Answer(r, TRUE)
       \/ /\ ~Stored(req[r].key)
          /\ req' = [req EXCEPT ![r].at = "look"]
          /\ UNCHANGED answered
    /\ UNCHANGED <<schema, rows, users, srv, auth, faults>>

(* AddGPGKey looks for the key and reads the answer into a value instead of  *)
(* a pointer, which the driver refuses: Next is FALSE, whatever was found,   *)
(* and the key is inserted.                                                 *)
Look(r) ==
    /\ req[r].at = "look"
    /\ req' = [req EXCEPT ![r].at = "insert", ![r].tries = MaxRetryCount]
    /\ UNCHANGED <<schema, rows, answered, users, srv, auth, faults>>

(* Mutant: a query that fails counts as one that finds the key.              *)
QueryFailsOK(r) ==
    /\ req[r].at \in {"search", "look"}
    /\ Fault
    /\ Answer(r, TRUE)
    /\ UNCHANGED <<schema, rows, users, srv, auth>>
QueryFails(r) ==
    /\ req[r].at \in {"search", "look"}
    /\ Fault
    /\ Answer(r, FALSE)
    /\ UNCHANGED <<schema, rows, users, srv, auth>>

OneMore(r) == [rows EXCEPT ![req[r].key][r] = @ + 1]

Insert(r) ==
    /\ req[r].at = "insert"
    /\ rows' = OneMore(r)
    /\ Answer(r, TRUE)
    /\ UNCHANGED <<schema, users, srv, auth, faults>>

(* The driver repeats an insertion as well, which may leave several rows.    *)
InsertLost(r) ==
    /\ req[r].at = "insert"
    /\ Fault
    /\ rows' \in {rows, OneMore(r)}
    /\ \/ /\ req[r].tries > 1
          /\ req' = [req EXCEPT ![r].tries = @ - 1]
          /\ UNCHANGED answered
       \/ req[r].tries = 1 /\ Answer(r, FALSE)
    /\ UNCHANGED <<schema, users, srv, auth>>

-----------------------------------------------------------------------------
StartStep(s) ==
    \/ Restart(s) \/ ListDatabases(s) \/ CreateDatabase(s) \/ ListTables(s)
    \/ \E t \in Tables : KnownTable(s, t) \/ CreateTable(s, t)
    \/ ListIndexes(s)
    \/ \E i \in IndexNames : CreateIndex(s, i)
    \/ AdminExists(s) \/ AddDefaultAdmin(s)

UserStep(s) == GetUser(s) \/ LookUser(s) \/ FindUser(s) \/ WriteUser(s) \/ WriteUserLost(s)

KeyStep(r) == Search(r) \/ Look(r) \/ QueryFails(r) \/ Insert(r) \/ InsertLost(r)

Next ==
    \/ \E s \in Servers :
          \/ StartStep(s) \/ UserStep(s) \/ Crash(s)
          \/ \E n \in Names, p \in Passwords : LoginAdd(s, n, p) \/ ChangePassword(s, n, p)
    \/ \E r \in Requests :
          \/ KeyStep(r)
          \/ \E s \in Servers, k \in Keys : PKSAdd(r, s, k)

Spec == Init /\ [][Next]_vars

(* A server that has ended is started again, and a query is answered.        *)
FairSpec ==
    /\ Spec
    /\ \A s \in Servers : WF_vars(StartStep(s)) /\ WF_vars(UserStep(s))
    /\ \A r \in Requests : WF_vars(KeyStep(r))

-----------------------------------------------------------------------------
(* A server past InitTables finds every table and every index, whatever      *)
(* other servers created between its looks and its writes; and one that      *)
(* serves has an administrator who can log in.                              *)
ServesReady == \A s \in Servers :
    /\ srv[s].at \in {"admin", "addAdmin", "up"} =>
          db /\ \A t \in Tables : t \in tables /\ IndexesOf[t] \subseteq indexes[t]
    /\ srv[s].at = "up" => users[Admin] # {}

(* AddGPGKey and AddUser look and then insert.  Once a key (a user) is there *)
(* and nobody who saw it missing is still to write, it is settled for good:  *)
(* no row of it is ever added again, so PKSGetKey always has the same        *)
(* answers, and only ChangePassword replaces the passwords of a user.        *)
KeySettled(k)  == Stored(k) /\ \A r \in Requests :
                      req[r].key = k => req[r].at \notin {"look", "insert"}
UserSettled(n) == users[n] # {} /\ \A s \in Servers :
                      auth[s].name = n => auth[s].at # "insert"

KeysSettle == [][\A k \in Keys :
    KeySettled(k) => KeySettled(k)' /\ rows'[k] = rows[k]]_vars
Replaced(n) == \E s \in Servers :
    auth[s].at = "update" /\ auth[s].name = n /\ users'[n] = {auth[s].password}
UsersSettle == [][\A n \in Names :
    UserSettled(n) => UserSettled(n)' /\ (users'[n] = users[n] \/ Replaced(n))]_vars

(* However often a key is added, each goroutine leaves at most the rows of   *)
(* one insertion and its retries: duplicates come from overlap alone.        *)
RowsBounded == \A k \in Keys, r \in Requests : rows[k][r] <= MaxRetryCount

(* The rows, duplicates and all, are a set of keys that only grows and has   *)
(* every key that was answered "OK".                                        *)
Abstract == INSTANCE PublicKeySet WITH stored <- {k \in Keys : Stored(k)}
KeepsPromise == Abstract!Spec

(* Servers that start at once, trip over each other's "already exists" and   *)
(* end each other's start still all come up.                                *)
AllComeUp == \A s \in Servers : <>[](srv[s].at = "up")
=============================================================================
