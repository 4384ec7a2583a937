--------------------------- MODULE DatabaseProofs ---------------------------
(***************************************************************************)
(* Proofs about Database, for any number of servers, requests and tables:   *)
(* a server that serves finds the whole database, keys and users settle,    *)
(* duplicates are bounded and no key that was answered "OK" is missing.     *)
(***************************************************************************)
EXTENDS Database, TLAPS

Done(t) == t \in tables /\ IndexesOf[t] \subseteq indexes[t]

(* What a server knows of the database at each point of its start.          *)
StartInv(s) ==
    /\ srv[s].at \notin {"down", "listDb", "createDb"} => db
    /\ srv[s].known \subseteq tables
    /\ srv[s].at \in {"listIndexes", "indexes"} => srv[s].table \in tables
    /\ srv[s].at = "table" => \A t \in Tables \ srv[s].todo : Done(t)
    /\ srv[s].at \in {"listIndexes", "indexes"} =>
          \A t \in Tables \ (srv[s].todo \cup {srv[s].table}) : Done(t)
    /\ srv[s].at = "indexes" =>
          IndexesOf[srv[s].table] \ srv[s].missing \subseteq indexes[srv[s].table]
    /\ srv[s].at \in {"admin", "addAdmin", "up"} => \A t \in Tables : Done(t)
    /\ srv[s].at = "up" => users[Admin] # {}

(* Only a server that has the tables works on users, at first on the        *)
(* administrator.                                                           *)
AuthInv(s) ==
    /\ srv[s].at \notin {"addAdmin", "up"} => auth[s].at = "free"
    /\ srv[s].at = "addAdmin" => auth[s].name = Admin
    /\ auth[s].at # "free" => auth[s].name \in Names /\ auth[s].password \in Passwords

(* A request that is to insert a key has not inserted it more often than    *)
(* the attempts it has used.                                                *)
ReqInv(r) ==
    /\ req[r].at # "idle" => req[r].key \in Keys
    /\ req[r].at = "look" => rows[req[r].key][r] = 0
    /\ req[r].at = "insert" =>
          req[r].tries >= 1 /\ rows[req[r].key][r] + req[r].tries <= MaxRetryCount

SchemaInv == \A s \in Servers : StartInv(s) /\ AuthInv(s)
RowsInv   == RowsBounded /\ \A r \in Requests : ReqInv(r)
IInv == TypeOK /\ SchemaInv /\ RowsInv

(* Nothing of the database is ever removed.                                 *)
Persists ==
    /\ db => db'
    /\ tables \subseteq tables'
    /\ \A t \in Tables : indexes[t] \subseteq indexes'[t]
    /\ \A n \in Names : users[n] # {} => users'[n] # {}

SrvType == [at : Starting \cup {"down", "admin", "addAdmin", "up"},
            known : SUBSET Tables, todo : SUBSET Tables,
            table : Tables \cup {None}, missing : SUBSET IndexNames]
AuthType == [at : {"free", "get", "look", "insert", "find", "update"},
             name : Names \cup {None}, password : Passwords \cup {None},
             tries : 0 .. MaxRetryCount]
ReqType == [at : {"idle", "search", "look", "insert"},
            home : Servers \cup {None}, key : Keys \cup {None},
            tries : 0 .. MaxRetryCount]

-----------------------------------------------------------------------------
(* The initial states.                                                      *)
LEMMA Initially == Init => IInv
  <1> SUFFICES ASSUME Init PROVE IInv
    OBVIOUS
  <1> USE DatabaseAssumption DEF Init
  <1>1. TypeOK
    <2>1. db \in BOOLEAN
      BY Zenon
    <2>2. Down \in SrvType /\ Free \in AuthType /\ Idle \in ReqType
      BY DEF Down, Free, Idle, SrvType, AuthType, ReqType, Starting
    <2>3. /\ srv \in [Servers -> SrvType] /\ auth \in [Servers -> AuthType]
          /\ req \in [Requests -> ReqType]
      BY <2>2
    <2> QED
      BY <2>1, <2>3 DEF TypeOK, SrvType, AuthType, ReqType
  <1>2. SchemaInv
    BY DEF SchemaInv, StartInv, AuthInv, Down, Free
  <1>3. RowsInv
    BY DEF RowsInv, RowsBounded, ReqInv, Idle
  <1> QED
    BY <1>1, <1>2, <1>3 DEF IInv

-----------------------------------------------------------------------------
(* What each kind of step leaves alone.                                     *)
LEMMA StartFrame ==
  ASSUME NEW s \in Servers, StartStep(s)
  PROVE  UNCHANGED <<keyStore, users>>
  BY DEF StartStep, Restart, ListDatabases, CreateDatabase, ListTables, KnownTable, CreateTable,
         ListIndexes, CreateIndex, AdminExists, AddDefaultAdmin, keyStore

LEMMA UserFrame ==
  ASSUME NEW s \in Servers, UserStep(s)
  PROVE  UNCHANGED <<schema, keyStore>>
  BY DEF UserStep, GetUser, LookUser, FindUser, WriteUser, WriteUserLost

LEMMA KeyFrame ==
  ASSUME NEW r \in Requests, KeyStep(r)
  PROVE  UNCHANGED <<schema, users, srv, auth>>
  BY DEF KeyStep, Search, Look, QueryFails, Insert, InsertLost

LEMMA BeginFrame ==
  ASSUME NEW s \in Servers, NEW n \in Names, NEW p \in Passwords,
         LoginAdd(s, n, p) \/ ChangePassword(s, n, p)
  PROVE  UNCHANGED <<schema, keyStore, users, srv>>
  BY DEF LoginAdd, ChangePassword

(* A fault is counted while there are faults left.                          *)
LEMMA FaultType ==
  ASSUME TypeOK, Fault \/ UNCHANGED faults
  PROVE  faults' \in 0 .. MaxFaults
  BY DatabaseAssumption DEF TypeOK, Fault

-----------------------------------------------------------------------------
(* A step of the start keeps the types, adds to the database and leaves the  *)
(* other servers alone.                                                     *)
LEMMA StartTypes ==
  ASSUME IInv, NEW s \in Servers, StartStep(s)
  PROVE  /\ TypeOK' /\ Persists
         /\ \A q \in Servers \ {s} : srv'[q] = srv[q] /\ auth'[q] = auth[q]
  <1> DEFINE Step(new) == /\ srv' = [srv EXCEPT ![s] = new]
                          /\ new \in SrvType
  <1>a. /\ srv \in [Servers -> SrvType] /\ auth \in [Servers -> AuthType]
        /\ srv[s].known \in SUBSET Tables /\ srv[s].todo \in SUBSET Tables
        /\ srv[s].table \in Tables \cup {None} /\ srv[s].missing \in SUBSET IndexNames
        /\ srv[s].at \in Starting \cup {"down", "admin", "addAdmin", "up"}
    BY DEF IInv, TypeOK, SrvType, AuthType
  <1>b. ASSUME NEW at \in Starting \cup {"down", "admin", "addAdmin", "up"}
        PROVE  [srv[s] EXCEPT !.at = at] \in SrvType /\ [Down EXCEPT !.at = at] \in SrvType
    BY <1>a DEF SrvType, Down
  <1>c. ASSUME UNCHANGED auth, srv' \in [Servers -> SrvType], db' \in BOOLEAN,
               tables' \subseteq Tables, indexes' \in [Tables -> SUBSET IndexNames],
               UNCHANGED <<keyStore, users, faults>>
        PROVE  TypeOK'
    BY <1>c DEF IInv, TypeOK, SrvType, keyStore
  <1>d. ASSUME NEW new \in SrvType, srv' = [srv EXCEPT ![s] = new]
        PROVE  srv' \in [Servers -> SrvType] /\ \A q \in Servers \ {s} : srv'[q] = srv[q]
    BY <1>a, <1>d
  <1>e. ASSUME UNCHANGED schema, UNCHANGED users
        PROVE  Persists /\ db' \in BOOLEAN /\ tables' \subseteq Tables
               /\ indexes' \in [Tables -> SUBSET IndexNames]
    <2>1. UNCHANGED <<db, tables, indexes>>
      BY <1>e DEF schema
    <2>2. db' \in BOOLEAN
      BY <2>1, Zenon DEF IInv, TypeOK
    <2> QED
      BY <1>e, <2>1, <2>2 DEF Persists, IInv, TypeOK
  <1>1. CASE Restart(s)
    BY <1>1, <1>b, <1>c, <1>d, <1>e DEF Restart, Go, Starting
  <1>2. CASE ListDatabases(s)
    BY <1>2, <1>b, <1>c, <1>d, <1>e DEF ListDatabases, Go, Starting
  <1>3. CASE CreateDatabase(s)
    BY <1>3, <1>b, <1>c, <1>d DEF CreateDatabase, Go, Starting, Persists, IInv, TypeOK
  <1>4. CASE ListTables(s)
    <2> DEFINE new == [srv[s] EXCEPT !.known = tables, !.todo = Tables,
                                     !.at = IF Tables = {} THEN "admin" ELSE "table"]
    <2>1. tables \in SUBSET Tables /\ Tables \in SUBSET Tables
      BY DEF IInv, TypeOK
    <2>2. new \in SrvType
      BY <1>a, <2>1 DEF SrvType, Starting
    <2> QED
      BY <1>4, <2>2, <1>c, <1>d, <1>e DEF ListTables, Go
  <1>5. ASSUME NEW t \in Tables, KnownTable(s, t) \/ CreateTable(s, t)
        PROVE  /\ TypeOK' /\ Persists
               /\ \A q \in Servers \ {s} : srv'[q] = srv[q] /\ auth'[q] = auth[q]
    <2> DEFINE new == [srv[s] EXCEPT !.todo = @ \ {t}, !.table = t, !.at = "listIndexes"]
    <2>1. new \in SrvType
      BY <1>a DEF SrvType, Starting
    <2>2. srv' = [srv EXCEPT ![s] = new]
      BY <1>5 DEF KnownTable, CreateTable, TakeTable, Go
    <2>3. CASE KnownTable(s, t)
      BY <2>3, <2>1, <2>2, <1>c, <1>d, <1>e DEF KnownTable
    <2>4. CASE CreateTable(s, t)
      <3>1. db' \in BOOLEAN /\ (db => db')
        BY <2>4, Zenon DEF CreateTable, IInv, TypeOK
      <3> QED
        BY <2>4, <2>1, <2>2, <3>1, <1>c, <1>d DEF CreateTable, Persists, IInv, TypeOK
    <2> QED
      BY <1>5, <2>3, <2>4
  <1>6. CASE ListIndexes(s)
    <2> DEFINE left == IndexesOf[srv[s].table] \ indexes[srv[s].table]
               new == [srv[s] EXCEPT !.missing = left, !.at = AfterIndexes(s, left)]
    <2>1. left \subseteq IndexNames
      BY <1>6, DatabaseAssumption DEF ListIndexes, IInv, TypeOK
    <2>2. new \in SrvType
      BY <2>1, <1>a DEF SrvType, AfterIndexes, Starting
    <2>3. srv' = [srv EXCEPT ![s] = new]
      BY <1>6 DEF ListIndexes, Go
    <2> QED
      BY <1>6, <2>2, <2>3, <1>c, <1>d, <1>e DEF ListIndexes
  <1>7. ASSUME NEW i \in IndexNames, CreateIndex(s, i)
        PROVE  /\ TypeOK' /\ Persists
               /\ \A q \in Servers \ {s} : srv'[q] = srv[q] /\ auth'[q] = auth[q]
    <2> DEFINE left == srv[s].missing \ {i}
               new == [srv[s] EXCEPT !.missing = left, !.at = AfterIndexes(s, left)]
    <2>1. new \in SrvType
      BY <1>a DEF SrvType, AfterIndexes, Starting
    <2>2. srv' = [srv EXCEPT ![s] = new]
      BY <1>7 DEF CreateIndex, Go
    <2>3. db' \in BOOLEAN /\ (db => db')
      BY <1>7, Zenon DEF CreateIndex, IInv, TypeOK
    <2>4. indexes' \in [Tables -> SUBSET IndexNames] /\ \A t \in Tables : indexes[t] \subseteq indexes'[t]
      BY <1>7 DEF CreateIndex, IInv, TypeOK
    <2> QED
      BY <1>7, <2>1, <2>2, <2>3, <2>4, <1>c, <1>d DEF CreateIndex, Persists, IInv, TypeOK
  <1>8. CASE AdminExists(s)
    BY <1>8, <1>b, <1>c, <1>d, <1>e DEF AdminExists, Go
  <1>9. CASE AddDefaultAdmin(s)
    <2>1. srv' \in [Servers -> SrvType] /\ \A q \in Servers \ {s} : srv'[q] = srv[q]
      BY <1>9, <1>b, <1>d DEF AddDefaultAdmin, Go
    <2>2. auth' \in [Servers -> AuthType] /\ \A q \in Servers \ {s} : auth'[q] = auth[q]
      BY <1>9, <1>a, DatabaseAssumption DEF AddDefaultAdmin, Begin, AuthType
    <2>3. faults' \in 0 .. MaxFaults
      BY <1>9, FaultType DEF AddDefaultAdmin, IInv
    <2> QED
      BY <1>9, <2>1, <2>2, <2>3, <1>e DEF AddDefaultAdmin, TypeOK, IInv, keyStore, SrvType, AuthType
  <1> QED
    BY <1>1, <1>2, <1>3, <1>4, <1>5, <1>6, <1>7, <1>8, <1>9 DEF StartStep

(* ... and learns of the database what is true of it.                        *)
LEMMA StartLearns ==
  ASSUME IInv, NEW s \in Servers, StartStep(s), Persists
  PROVE  StartInv(s)' /\ AuthInv(s)'
  <1>a. StartInv(s) /\ AuthInv(s) /\ srv[s].table \in Tables \cup {None}
    BY DEF IInv, SchemaInv, TypeOK
  <1>b. tables \subseteq Tables /\ srv[s].todo \subseteq Tables
    BY DEF IInv, TypeOK
  <1>c. ASSUME NEW t \in Tables, Done(t) PROVE Done(t)'
    BY <1>c, DatabaseAssumption DEF Done, Persists
  <1>d. ASSUME NEW new, srv' = [srv EXCEPT ![s] = new] PROVE srv'[s] = new
    BY <1>d DEF IInv, TypeOK
  <1>e. UNCHANGED <<users, auth>> \/ AddDefaultAdmin(s)
    BY StartFrame DEF StartStep, Restart, ListDatabases, CreateDatabase, ListTables, KnownTable,
                      CreateTable, ListIndexes, CreateIndex, AdminExists
  <1> USE DEF Go
  <1>1. CASE Restart(s)
    <2>1. srv'[s] = [Down EXCEPT !.at = "listDb"] /\ UNCHANGED auth
      BY <1>1, <1>d DEF Restart
    <2> QED
      BY <1>1, <2>1, <1>a DEF Restart, StartInv, AuthInv, Down
  <1>2. CASE ListDatabases(s)
    <2>1. srv'[s] = [srv[s] EXCEPT !.at = IF db THEN "listTables" ELSE "createDb"] /\ UNCHANGED auth
      BY <1>2, <1>d DEF ListDatabases
    <2>2. /\ srv'[s].known = srv[s].known
          /\ srv'[s].at = IF db THEN "listTables" ELSE "createDb"
      BY <2>1 DEF IInv, TypeOK
    <2> QED
      BY <1>2, <2>1, <2>2, <1>a DEF ListDatabases, StartInv, AuthInv, schema
  <1>3. CASE CreateDatabase(s)
    <2>1. srv'[s] = [srv[s] EXCEPT !.at = "listTables"] /\ UNCHANGED auth /\ db'
      BY <1>3, <1>d DEF CreateDatabase
    <2>2. srv'[s].known = srv[s].known /\ srv'[s].at = "listTables"
      BY <2>1 DEF IInv, TypeOK
    <2> QED
      BY <1>3, <2>1, <2>2, <1>a DEF CreateDatabase, StartInv, AuthInv
  <1>4. CASE ListTables(s)
    <2>1. /\ srv'[s] = [srv[s] EXCEPT !.known = tables, !.todo = Tables,
                                     !.at = IF Tables = {} THEN "admin" ELSE "table"]
          /\ UNCHANGED auth
      BY <1>4, <1>d DEF ListTables
    <2>2. /\ srv'[s].known = tables /\ srv'[s].todo = Tables
          /\ srv'[s].at = IF Tables = {} THEN "admin" ELSE "table"
      BY <2>1 DEF IInv, TypeOK
    <2> QED
      BY <1>4, <2>1, <2>2, <1>a DEF ListTables, StartInv, AuthInv, schema
  <1>5. ASSUME NEW t \in Tables, KnownTable(s, t) \/ CreateTable(s, t)
        PROVE  StartInv(s)' /\ AuthInv(s)'
    <2>1. srv'[s] = [srv[s] EXCEPT !.todo = @ \ {t}, !.table = t, !.at = "listIndexes"]
      BY <1>5, <1>d DEF KnownTable, CreateTable, TakeTable
    <2>2. /\ srv'[s].known = srv[s].known /\ srv'[s].todo = srv[s].todo \ {t}
          /\ srv'[s].table = t /\ srv'[s].at = "listIndexes"
      BY <2>1 DEF IInv, TypeOK
    <2>3. srv[s].at = "table" /\ UNCHANGED auth
      BY <1>5 DEF KnownTable, CreateTable, TakeTable
    <2>4. t \in tables'
      BY <1>5, <1>a DEF KnownTable, CreateTable, StartInv, schema
    <2>5. \A u \in Tables \ (srv'[s].todo \cup {t}) : Done(u)'
      BY <2>2, <2>3, <1>a, <1>c DEF StartInv
    <2>6. db' /\ srv[s].known \subseteq tables'
      BY <2>3, <1>a DEF StartInv, Persists
    <2> QED
      BY <2>2, <2>3, <2>4, <2>5, <2>6, <1>a DEF StartInv, AuthInv
  <1>6. ASSUME NEW left \in SUBSET IndexNames, srv[s].table \in Tables, UNCHANGED auth,
               srv[s].at \in {"listIndexes", "indexes"},
               srv'[s] = [srv[s] EXCEPT !.missing = left, !.at = AfterIndexes(s, left)],
               IndexesOf[srv[s].table] \ left \subseteq indexes'[srv[s].table]
        PROVE  StartInv(s)' /\ AuthInv(s)'
    <2>1. /\ srv'[s].known = srv[s].known /\ srv'[s].todo = srv[s].todo
          /\ srv'[s].table = srv[s].table /\ srv'[s].missing = left
          /\ srv'[s].at = AfterIndexes(s, left)
      BY <1>6 DEF IInv, TypeOK
    <2>2. srv[s].table \in tables' /\ db' /\ srv[s].known \subseteq tables'
      BY <1>6, <1>a DEF StartInv, Persists
    <2>3. \A u \in Tables \ (srv[s].todo \cup {srv[s].table}) : Done(u)'
      BY <1>6, <1>a, <1>c DEF StartInv
    <2>4. left = {} => Done(srv[s].table)'
      BY <1>6, <2>2, DatabaseAssumption DEF Done
    <2>5. /\ srv'[s].at = "table" => \A u \in Tables \ srv[s].todo : Done(u)'
          /\ srv'[s].at = "admin" => \A u \in Tables : Done(u)'
          /\ srv'[s].at \in {"indexes", "table", "admin"}
      BY <2>1, <2>3, <2>4 DEF AfterIndexes
    <2> QED
      BY <1>6, <2>1, <2>2, <2>3, <2>5, <1>a DEF StartInv, AuthInv
  <1>7. CASE ListIndexes(s)
    <2> DEFINE left == IndexesOf[srv[s].table] \ indexes[srv[s].table]
    <2>1. srv[s].table \in Tables /\ left \in SUBSET IndexNames
      BY <1>7, <1>b, DatabaseAssumption DEF ListIndexes
    <2>2. srv'[s] = [srv[s] EXCEPT !.missing = left, !.at = AfterIndexes(s, left)]
      BY <1>7, <1>d DEF ListIndexes
    <2>3. IndexesOf[srv[s].table] \ left \subseteq indexes'[srv[s].table]
      BY <1>7 DEF ListIndexes, schema
    <2>4. srv[s].at = "listIndexes" /\ UNCHANGED auth
      BY <1>7 DEF ListIndexes
    <2> HIDE DEF left
    <2> QED
      BY <2>1, <2>2, <2>3, <2>4, <1>6
  <1>8. ASSUME NEW i \in IndexNames, CreateIndex(s, i)
        PROVE  StartInv(s)' /\ AuthInv(s)'
    <2> DEFINE left == srv[s].missing \ {i}
    <2>1. srv[s].at = "indexes" /\ UNCHANGED auth
      BY <1>8 DEF CreateIndex
    <2>2. srv[s].table \in Tables /\ left \in SUBSET IndexNames
      BY <2>1, <1>a, <1>b DEF StartInv, IInv, TypeOK
    <2>3. srv'[s] = [srv[s] EXCEPT !.missing = left, !.at = AfterIndexes(s, left)]
      BY <1>8, <1>d DEF CreateIndex
    <2>4. indexes'[srv[s].table] = indexes[srv[s].table] \cup {i}
      BY <1>8, <2>2 DEF CreateIndex, IInv, TypeOK
    <2>5. IndexesOf[srv[s].table] \ left \subseteq indexes'[srv[s].table]
      BY <2>1, <2>4, <1>a DEF StartInv
    <2> HIDE DEF left
    <2> QED
      BY <2>1, <2>2, <2>3, <2>5, <1>6
  <1>9. CASE AdminExists(s)
    <2>1. srv'[s] = [Down EXCEPT !.at = "up"] /\ srv[s].at = "admin" /\ UNCHANGED auth
      BY <1>9, <1>d DEF AdminExists
    <2>2. users'[Admin] # {}
      BY <1>9, <1>e DEF AdminExists
    <2>3. db' /\ \A t \in Tables : Done(t)'
      BY <2>1, <1>a, <1>c DEF StartInv, Persists
    <2> QED
      BY <2>1, <2>2, <2>3, <1>a DEF StartInv, AuthInv, Down
  <1>10. CASE AddDefaultAdmin(s)
    <2>1. srv'[s] = [Down EXCEPT !.at = "addAdmin"] /\ srv[s].at = "admin"
      BY <1>10, <1>d DEF AddDefaultAdmin
    <2>2. auth'[s].name = Admin /\ auth'[s].password = DefaultPassword
      BY <1>10 DEF AddDefaultAdmin, Begin, IInv, TypeOK
    <2>3. db' /\ \A t \in Tables : Done(t)'
      BY <2>1, <1>a, <1>c DEF StartInv, Persists
    <2> QED
      BY <2>1, <2>2, <2>3, DatabaseAssumption DEF StartInv, AuthInv, Down
  <1> QED
    BY <1>1, <1>2, <1>3, <1>4, <1>5, <1>7, <1>8, <1>9, <1>10 DEF StartStep

-----------------------------------------------------------------------------
(* A server that takes no step keeps what it knows.                          *)
LEMMA OthersKeep ==
  ASSUME IInv, Persists, NEW q \in Servers, srv'[q] = srv[q]
  PROVE  StartInv(q)' /\ (auth'[q] = auth[q] => AuthInv(q)')
  <1>1. StartInv(q) /\ AuthInv(q)
    BY DEF IInv, SchemaInv
  <1>2. \A t \in Tables : Done(t) => Done(t)'
    BY DEF Done, Persists
  <1>3. srv[q].at = "indexes" => srv[q].table \in Tables
    BY <1>1 DEF StartInv, IInv, TypeOK
  <1>4. StartInv(q)'
    BY <1>1, <1>2, <1>3, DatabaseAssumption DEF StartInv, Persists
  <1>5. auth'[q] = auth[q] => AuthInv(q)'
    BY <1>1 DEF AuthInv
  <1> QED
    BY <1>4, <1>5

(* A user operation goes on, or returns; only in the second case does the    *)
(* server take a step of its start.                                         *)
LEMMA UserTypes ==
  ASSUME IInv, NEW s \in Servers, UserStep(s)
  PROVE  /\ TypeOK' /\ Persists
         /\ \A q \in Servers \ {s} : srv'[q] = srv[q] /\ auth'[q] = auth[q]
         /\ StartInv(s)' /\ AuthInv(s)'
  <1>a. /\ srv \in [Servers -> SrvType] /\ auth \in [Servers -> AuthType]
        /\ StartInv(s) /\ AuthInv(s) /\ auth[s].at # "free"
    BY DEF IInv, TypeOK, SrvType, AuthType, SchemaInv, UserStep, GetUser, LookUser, FindUser,
           WriteUser, WriteUserLost
  <1>b. /\ auth[s].name \in Names /\ auth[s].password \in Passwords
        /\ srv[s].at \in {"addAdmin", "up"}
    BY <1>a DEF AuthInv
  <1>c. UNCHANGED <<db, tables, indexes, keyStore>>
    BY UserFrame DEF schema
  <1>1. /\ users' \in [Names -> SUBSET Passwords]
        /\ \A n \in Names : users[n] # {} => users'[n] # {}
        /\ auth[s].at \in {"insert", "update"} /\ users' = Written(s) => users'[auth[s].name] # {}
    <2>1. ASSUME users' = Written(s), auth[s].at \in {"insert", "update"}
          PROVE  /\ users' \in [Names -> SUBSET Passwords]
                 /\ \A n \in Names : users[n] # {} => users'[n] # {}
                 /\ users'[auth[s].name] # {}
      BY <2>1, <1>b DEF Written, IInv, TypeOK
    <2>2. users' = users \/ (users' = Written(s) /\ auth[s].at \in {"insert", "update"})
      BY DEF UserStep, GetUser, LookUser, FindUser, WriteUser, WriteUserLost
    <2> QED
      BY <2>1, <2>2 DEF IInv, TypeOK
  <1>2. Persists
    BY <1>1, <1>c DEF Persists
  <1>3. faults' \in 0 .. MaxFaults
    <2>1. Fault \/ UNCHANGED faults
      BY DEF UserStep, GetUser, LookUser, FindUser, WriteUser, WriteUserLost
    <2> QED
      BY <2>1, FaultType DEF IInv
  <1>4. \/ Return(s, FALSE)
        \/ Return(s, TRUE) /\ WriteUser(s)
        \/ \E at \in {"look", "insert", "update"}, tries \in 0 .. MaxRetryCount : Proceed(s, at, tries)
    <2>1. CASE GetUser(s)
      <3>1. 0 \in 0 .. MaxRetryCount
        BY DatabaseAssumption
      <3> QED
        BY <2>1, <3>1 DEF GetUser
    <2>2. CASE LookUser(s) \/ FindUser(s)
      <3>1. MaxRetryCount \in 0 .. MaxRetryCount
        BY DatabaseAssumption
      <3> QED
        BY <2>2, <3>1 DEF LookUser, FindUser
    <2>3. CASE WriteUser(s)
      BY <2>3 DEF WriteUser
    <2>4. CASE WriteUserLost(s)
      <3>1. auth[s].tries > 1 => auth[s].tries - 1 \in 0 .. MaxRetryCount
        BY <1>a, DatabaseAssumption DEF AuthType
      <3> QED
        BY <2>4, <3>1 DEF WriteUserLost
    <2> QED
      BY <2>1, <2>2, <2>3, <2>4 DEF UserStep
  <1>5. /\ srv' \in [Servers -> SrvType] /\ auth' \in [Servers -> AuthType]
        /\ \A q \in Servers \ {s} : srv'[q] = srv[q] /\ auth'[q] = auth[q]
        /\ StartInv(s)' /\ AuthInv(s)'
    <2>1. CASE Return(s, FALSE) \/ (Return(s, TRUE) /\ WriteUser(s))
      <3>1. auth' = [auth EXCEPT ![s] = Free] /\ Free \in AuthType
        BY <2>1, DatabaseAssumption DEF Return, Free, AuthType
      <3>2. CASE srv[s].at = "up"
        <4>1. srv' = srv
          BY <2>1, <3>2 DEF Return
        <4> QED
          BY <3>1, <3>2, <4>1, <1>2, <1>a, OthersKeep DEF AuthInv, Free
      <3>3. CASE srv[s].at = "addAdmin" /\ Return(s, FALSE)
        <4>1. srv' = [srv EXCEPT ![s] = Down] /\ Down \in SrvType
          BY <3>3 DEF Return, Down, SrvType
        <4> QED
          BY <3>1, <4>1, <1>a DEF StartInv, AuthInv, Free, Down
      <3>4. CASE srv[s].at = "addAdmin" /\ Return(s, TRUE) /\ WriteUser(s)
        <4>1. srv' = [srv EXCEPT ![s] = [Down EXCEPT !.at = "up"]] /\ [Down EXCEPT !.at = "up"] \in SrvType
          BY <3>4 DEF Return, Down, SrvType
        <4>2. srv'[s] = [Down EXCEPT !.at = "up"]
          BY <4>1, <1>a
        <4>3. users'[Admin] # {}
          BY <3>4, <1>1, <1>a DEF AuthInv, WriteUser
        <4>4. db' /\ \A t \in Tables : Done(t)'
          BY <3>4, <1>a, <1>c DEF StartInv, Done
        <4> QED
          BY <3>1, <4>1, <4>2, <4>3, <4>4, <1>a DEF StartInv, AuthInv, Free, Down
      <3> QED
        BY <2>1, <3>2, <3>3, <3>4, <1>b
    <2>2. ASSUME NEW at \in {"look", "insert", "update"}, NEW tries \in 0 .. MaxRetryCount,
                 Proceed(s, at, tries)
          PROVE  /\ srv' \in [Servers -> SrvType] /\ auth' \in [Servers -> AuthType]
                 /\ \A q \in Servers \ {s} : srv'[q] = srv[q] /\ auth'[q] = auth[q]
                 /\ StartInv(s)' /\ AuthInv(s)'
      <3>1. srv' = srv /\ StartInv(s)'
        BY <2>2, <1>2, OthersKeep DEF Proceed
      <3>2. auth' \in [Servers -> AuthType] /\ \A q \in Servers \ {s} : auth'[q] = auth[q]
        BY <2>2, <1>a DEF Proceed, AuthType
      <3>3. auth'[s].name = auth[s].name /\ auth'[s].password = auth[s].password
        BY <2>2, <1>a DEF Proceed, AuthType
      <3> QED
        BY <3>1, <3>2, <3>3, <1>a, <1>b DEF AuthInv
    <2> QED
      BY <1>4, <2>1, <2>2
  <1> QED
    BY <1>1, <1>2, <1>3, <1>5, <1>c DEF TypeOK, IInv, SrvType, AuthType, keyStore

(* A user operation begins.                                                 *)
LEMMA BeginStep ==
  ASSUME IInv, NEW s \in Servers, NEW n \in Names, NEW p \in Passwords,
         LoginAdd(s, n, p) \/ ChangePassword(s, n, p)
  PROVE  TypeOK' /\ SchemaInv'
  <1>1. /\ srv[s].at = "up" /\ UNCHANGED <<db, tables, indexes, keyStore, users, srv, faults>>
        /\ \E at \in {"get", "find"} : Begin(s, at, n, p)
    BY DEF LoginAdd, ChangePassword, schema
  <1>2. auth' \in [Servers -> AuthType]
    BY <1>1, DatabaseAssumption DEF Begin, AuthType, IInv, TypeOK
  <1>3. auth'[s].name \in Names /\ auth'[s].password \in Passwords
    BY <1>1 DEF Begin, IInv, TypeOK
  <1>4. \A q \in Servers \ {s} : auth'[q] = auth[q]
    BY <1>1 DEF Begin, IInv, TypeOK
  <1>5. Persists
    BY <1>1 DEF Persists
  <1>6. TypeOK'
    BY <1>1, <1>2 DEF TypeOK, IInv, AuthType, keyStore
  <1>7. AuthInv(s)'
    BY <1>1, <1>3 DEF AuthInv
  <1>8. SchemaInv'
    BY <1>1, <1>4, <1>5, <1>7, OthersKeep DEF SchemaInv
  <1> QED
    BY <1>6, <1>8

(* A process ends: it forgets what it knew, and its requests with it.        *)
LEMMA CrashStep ==
  ASSUME IInv, NEW s \in Servers, Crash(s)
  PROVE  TypeOK' /\ SchemaInv' /\ RowsInv'
  <1>1. /\ srv' = [srv EXCEPT ![s] = Down] /\ auth' = [auth EXCEPT ![s] = Free]
        /\ req' = [r \in Requests |-> IF req[r].home = s THEN Idle ELSE req[r]]
        /\ UNCHANGED <<db, tables, indexes, rows, answered, users>>
    BY DEF Crash, schema
  <1>2. Down \in SrvType /\ Free \in AuthType /\ Idle \in ReqType
    BY DatabaseAssumption DEF Down, Free, Idle, SrvType, AuthType, ReqType
  <1>3. /\ srv' \in [Servers -> SrvType] /\ auth' \in [Servers -> AuthType]
        /\ req' \in [Requests -> ReqType]
        /\ srv'[s] = Down /\ auth'[s] = Free
        /\ \A q \in Servers \ {s} : srv'[q] = srv[q] /\ auth'[q] = auth[q]
    BY <1>1, <1>2 DEF IInv, TypeOK, SrvType, AuthType, ReqType
  <1>4. faults' \in 0 .. MaxFaults
    BY FaultType DEF Crash, IInv
  <1>5. TypeOK'
    BY <1>1, <1>3, <1>4 DEF TypeOK, IInv, SrvType, AuthType, ReqType
  <1>6. StartInv(s)' /\ AuthInv(s)'
    BY <1>3 DEF StartInv, AuthInv, Down, Free
  <1>7. Persists
    BY <1>1 DEF Persists
  <1>8. SchemaInv'
    BY <1>3, <1>6, <1>7, OthersKeep DEF SchemaInv
  <1>9. RowsInv'
    BY <1>1 DEF RowsInv, RowsBounded, ReqInv, Idle, IInv
  <1> QED
    BY <1>5, <1>8, <1>9

-----------------------------------------------------------------------------
(* The insertion of a request counts one row of its key, and no other.       *)
LEMMA OneMoreRow ==
  ASSUME IInv, NEW r \in Requests, req[r].at = "insert"
  PROVE  /\ OneMore(r) \in [Keys -> [Requests -> Nat]]
         /\ OneMore(r)[req[r].key][r] = rows[req[r].key][r] + 1
         /\ \A k \in Keys, q \in Requests : q # r => OneMore(r)[k][q] = rows[k][q]
         /\ \A k \in Keys : k # req[r].key => OneMore(r)[k] = rows[k]
  <1>1. req[r].key \in Keys /\ rows \in [Keys -> [Requests -> Nat]]
    BY DEF IInv, RowsInv, ReqInv, TypeOK
  <1> QED
    BY <1>1 DEF OneMore

(* Where a step of a key request leads it, and what it does to the rows.     *)
LEMMA KeyStepLeads ==
  ASSUME IInv, NEW r \in Requests, KeyStep(r)
  PROVE  /\ req[r].key \in Keys
         /\ \/ rows' = rows
            \/ rows' = OneMore(r) /\ req[r].at = "insert"
         /\ \/ req' = [req EXCEPT ![r] = Idle]
            \/ req' = [req EXCEPT ![r].at = "look"] /\ ~Stored(req[r].key) /\ rows' = rows
            \/ /\ req[r].at = "look" /\ rows' = rows
               /\ req' = [req EXCEPT ![r].at = "insert", ![r].tries = MaxRetryCount]
            \/ /\ req[r].at = "insert" /\ req[r].tries > 1
               /\ req' = [req EXCEPT ![r].tries = @ - 1]
         /\ \/ answered' = answered
            \/ /\ answered' = answered \cup {req[r].key} /\ req' = [req EXCEPT ![r] = Idle]
               /\ \/ Stored(req[r].key) /\ rows' = rows
                  \/ req[r].at = "insert" /\ rows' = OneMore(r)
  <1>1. req[r].at # "idle" => req[r].key \in Keys
    BY DEF IInv, RowsInv, ReqInv
  <1>2. CASE Search(r)
    BY <1>1, <1>2 DEF Search, Answer
  <1>3. CASE Look(r)
    BY <1>1, <1>3 DEF Look
  <1>4. CASE QueryFails(r)
    BY <1>1, <1>4 DEF QueryFails, Answer
  <1>5. CASE Insert(r)
    BY <1>1, <1>5 DEF Insert, Answer
  <1>6. CASE InsertLost(r)
    BY <1>1, <1>6 DEF InsertLost, Answer
  <1> QED
    BY <1>2, <1>3, <1>4, <1>5, <1>6 DEF KeyStep

LEMMA KeyTypes ==
  ASSUME IInv, NEW r \in Requests, KeyStep(r)
  PROVE  /\ TypeOK' /\ RowsInv'
         /\ \A q \in Requests \ {r} : req'[q] = req[q]
  <1>a. /\ req \in [Requests -> ReqType] /\ rows \in [Keys -> [Requests -> Nat]]
        /\ req[r].key \in Keys /\ ReqInv(r) /\ RowsBounded
    BY KeyStepLeads DEF IInv, TypeOK, ReqType, RowsInv
  <1>b. /\ req[r].tries \in 0 .. MaxRetryCount /\ MaxRetryCount \in Nat \ {0}
    BY <1>a, DatabaseAssumption DEF ReqType
  <1>c. rows' = rows \/ (rows' = OneMore(r) /\ req[r].at = "insert")
    BY KeyStepLeads
  <1>d. answered' = answered \/ answered' = answered \cup {req[r].key}
    BY KeyStepLeads
  <1>1. rows' \in [Keys -> [Requests -> Nat]]
    BY <1>a, <1>c, OneMoreRow
  <1>2. /\ \A k \in Keys, q \in Requests : q # r => rows'[k][q] = rows[k][q]
        /\ \A k \in Keys : k # req[r].key => rows'[k] = rows[k]
    BY <1>c, OneMoreRow
  <1>3. req[r].at = "insert" =>
           /\ rows'[req[r].key][r] <= rows[req[r].key][r] + 1
           /\ rows[req[r].key][r] \in Nat /\ rows[req[r].key][r] + req[r].tries <= MaxRetryCount
           /\ req[r].tries >= 1
    <2> SUFFICES ASSUME req[r].at = "insert"
                 PROVE  /\ rows'[req[r].key][r] <= rows[req[r].key][r] + 1
                        /\ rows[req[r].key][r] \in Nat
                        /\ rows[req[r].key][r] + req[r].tries <= MaxRetryCount /\ req[r].tries >= 1
      OBVIOUS
    <2>1. rows[req[r].key][r] \in Nat
      BY <1>a
    <2>2. rows'[req[r].key][r] \in {rows[req[r].key][r], rows[req[r].key][r] + 1}
      BY <1>c, OneMoreRow
    <2> QED
      BY <1>a, <2>1, <2>2 DEF ReqInv
  <1>4. RowsBounded'
    <2>1. ASSUME NEW k \in Keys, NEW q \in Requests PROVE rows'[k][q] <= MaxRetryCount
      <3>1. CASE q = r /\ k = req[r].key /\ req[r].at = "insert"
        BY <3>1, <1>1, <1>3, <1>b
      <3>2. CASE ~(q = r /\ k = req[r].key /\ req[r].at = "insert")
        BY <3>2, <1>a, <1>2, KeyStepLeads DEF RowsBounded
      <3> QED
        BY <3>1, <3>2
    <2> QED
      BY <2>1 DEF RowsBounded
  <1>5. req' \in [Requests -> ReqType] /\ \A q \in Requests \ {r} : req'[q] = req[q]
    <2>1. Idle \in ReqType
      BY <1>b DEF Idle, ReqType
    <2>2. req[r].tries > 1 => req[r].tries - 1 \in 0 .. MaxRetryCount
      BY <1>b
    <2>3. /\ [req[r] EXCEPT !.at = "look"] \in ReqType
          /\ [req[r] EXCEPT !.at = "insert", !.tries = MaxRetryCount] \in ReqType
      <3>1. MaxRetryCount \in 0 .. MaxRetryCount
        BY <1>b
      <3> QED
        BY <1>a, <3>1 DEF ReqType
    <2>4. ASSUME NEW n \in 0 .. MaxRetryCount PROVE [req[r] EXCEPT !.tries = n] \in ReqType
      BY <1>a DEF ReqType
    <2>5. req[r].tries > 1 => [req[r] EXCEPT !.tries = @ - 1] \in ReqType
      BY <2>2, <2>4
    <2> QED
      BY <1>a, <2>1, <2>3, <2>5, KeyStepLeads
  <1>6. ReqInv(r)'
    <2>1. CASE req' = [req EXCEPT ![r] = Idle]
      BY <2>1, <1>a DEF ReqInv, Idle
    <2>2. CASE req' = [req EXCEPT ![r].at = "look"] /\ ~Stored(req[r].key) /\ rows' = rows
      <3>1. req'[r].at = "look" /\ req'[r].key = req[r].key
        BY <2>2, <1>a DEF ReqType
      <3>2. rows[req[r].key][r] = 0
        BY <2>2, <1>a DEF Stored
      <3> QED
        BY <2>2, <3>1, <3>2, <1>a DEF ReqInv
    <2>3. CASE /\ req[r].at = "look" /\ rows' = rows
               /\ req' = [req EXCEPT ![r].at = "insert", ![r].tries = MaxRetryCount]
      <3>1. req'[r].at = "insert" /\ req'[r].key = req[r].key /\ req'[r].tries = MaxRetryCount
        BY <2>3, <1>a DEF ReqType
      <3> QED
        BY <2>3, <3>1, <1>a, <1>b DEF ReqInv
    <2>4. CASE /\ req[r].at = "insert" /\ req[r].tries > 1
               /\ req' = [req EXCEPT ![r].tries = @ - 1]
      <3>1. req'[r].at = "insert" /\ req'[r].key = req[r].key /\ req'[r].tries = req[r].tries - 1
        BY <2>4, <1>a DEF ReqType
      <3>2. rows'[req[r].key][r] \in Nat
        BY <1>1, <1>a
      <3> QED
        BY <2>4, <3>1, <3>2, <1>a, <1>b, <1>3 DEF ReqInv
    <2> QED
      BY <2>1, <2>2, <2>3, <2>4, KeyStepLeads
  <1>7. \A q \in Requests \ {r} : ReqInv(q)'
    BY <1>2, <1>5 DEF ReqInv, IInv, RowsInv
  <1>8. answered' \subseteq Keys
    BY <1>a, <1>d DEF IInv, TypeOK
  <1>9. faults' \in 0 .. MaxFaults
    <2>1. Fault \/ UNCHANGED faults
      BY DEF KeyStep, Search, Look, QueryFails, Insert, InsertLost
    <2> QED
      BY <2>1, FaultType DEF IInv
  <1>10. UNCHANGED <<db, tables, indexes, users, srv, auth>>
    BY KeyFrame DEF schema
  <1> QED
    BY <1>1, <1>4, <1>5, <1>6, <1>7, <1>8, <1>9, <1>10 DEF TypeOK, IInv, RowsInv, ReqType

(* A request arrives.                                                       *)
LEMMA ArrivalStep ==
  ASSUME IInv, NEW r \in Requests, NEW s \in Servers, NEW k \in Keys, PKSAdd(r, s, k)
  PROVE  TypeOK' /\ RowsInv'
  <1>1. /\ req' = [req EXCEPT ![r] = [at |-> "search", home |-> s, key |-> k, tries |-> 0]]
        /\ UNCHANGED <<db, tables, indexes, rows, answered, users, srv, auth, faults>>
    BY DEF PKSAdd, schema
  <1>2. [at |-> "search", home |-> s, key |-> k, tries |-> 0] \in ReqType
    BY DatabaseAssumption DEF ReqType
  <1>3. req' \in [Requests -> ReqType]
    BY <1>1, <1>2 DEF IInv, TypeOK, ReqType
  <1>4. TypeOK'
    BY <1>1, <1>3 DEF TypeOK, IInv, ReqType
  <1>5. RowsInv'
    BY <1>1, DatabaseAssumption DEF RowsInv, RowsBounded, ReqInv, IInv, TypeOK
  <1> QED
    BY <1>4, <1>5

-----------------------------------------------------------------------------
(* A step that leaves the keys, or the schema and the users, alone.          *)
LEMMA RowsKept ==
  ASSUME IInv, UNCHANGED keyStore PROVE RowsInv'
  BY DEF IInv, RowsInv, RowsBounded, ReqInv, keyStore

LEMMA SchemaKept ==
  ASSUME IInv, UNCHANGED <<schema, users, srv, auth>> PROVE SchemaInv'
  <1>1. UNCHANGED <<db, tables, indexes, users, srv, auth>>
    BY DEF schema
  <1> QED
    BY <1>1 DEF IInv, SchemaInv, StartInv, AuthInv, Done

(* Every step is one of these.                                              *)
LEMMA Steps ==
  ASSUME [Next]_vars
  PROVE  \/ \E s \in Servers : StartStep(s) \/ UserStep(s) \/ Crash(s)
         \/ \E s \in Servers, n \in Names, p \in Passwords : LoginAdd(s, n, p) \/ ChangePassword(s, n, p)
         \/ \E r \in Requests : KeyStep(r)
         \/ \E r \in Requests, s \in Servers, k \in Keys : PKSAdd(r, s, k)
         \/ UNCHANGED vars
  BY DEF Next

LEMMA Inductive == IInv /\ [Next]_vars => IInv'
  <1> SUFFICES ASSUME IInv, [Next]_vars PROVE IInv'
    OBVIOUS
  <1>1. ASSUME NEW s \in Servers, StartStep(s) PROVE IInv'
    <2>1. TypeOK' /\ Persists /\ \A q \in Servers \ {s} : srv'[q] = srv[q] /\ auth'[q] = auth[q]
      BY <1>1, StartTypes
    <2>2. StartInv(s)' /\ AuthInv(s)'
      BY <1>1, <2>1, StartLearns
    <2>3. SchemaInv'
      BY <2>1, <2>2, OthersKeep DEF SchemaInv
    <2> QED
      BY <1>1, <2>1, <2>3, StartFrame, RowsKept DEF IInv
  <1>2. ASSUME NEW s \in Servers, UserStep(s) PROVE IInv'
    <2>1. /\ TypeOK' /\ Persists /\ StartInv(s)' /\ AuthInv(s)'
          /\ \A q \in Servers \ {s} : srv'[q] = srv[q] /\ auth'[q] = auth[q]
      BY <1>2, UserTypes
    <2>2. SchemaInv'
      BY <2>1, OthersKeep DEF SchemaInv
    <2> QED
      BY <1>2, <2>1, <2>2, UserFrame, RowsKept DEF IInv
  <1>3. ASSUME NEW s \in Servers, Crash(s) PROVE IInv'
    BY <1>3, CrashStep DEF IInv
  <1>4. ASSUME NEW s \in Servers, NEW n \in Names, NEW p \in Passwords,
               LoginAdd(s, n, p) \/ ChangePassword(s, n, p)
        PROVE  IInv'
    BY <1>4, BeginStep, BeginFrame, RowsKept DEF IInv
  <1>5. ASSUME NEW r \in Requests, KeyStep(r) PROVE IInv'
    BY <1>5, KeyTypes, KeyFrame, SchemaKept DEF IInv
  <1>6. ASSUME NEW r \in Requests, NEW s \in Servers, NEW k \in Keys, PKSAdd(r, s, k) PROVE IInv'
    <2>1. UNCHANGED <<schema, users, srv, auth>>
      BY <1>6 DEF PKSAdd
    <2> QED
      BY <1>6, <2>1, ArrivalStep, SchemaKept DEF IInv
  <1>7. CASE UNCHANGED vars
    <2>1. TypeOK'
      BY <1>7 DEF vars, IInv, TypeOK
    <2>2. UNCHANGED keyStore /\ UNCHANGED <<schema, users, srv, auth>>
      BY <1>7 DEF vars, keyStore, schema
    <2> QED
      BY <2>1, <2>2, RowsKept, SchemaKept DEF IInv
  <1> QED
    BY Steps, <1>1, <1>2, <1>3, <1>4, <1>5, <1>6, <1>7

LEMMA Invariant == Spec => []IInv
  BY Initially, Inductive, PTL DEF Spec

(* Every variable keeps its type, for any number of servers, requests,       *)
(* tables and users.                                                        *)
THEOREM TypeCorrect == Spec => []TypeOK
  <1>1. IInv => TypeOK
    BY DEF IInv
  <1> QED
    BY <1>1, Invariant, PTL

(* Whatever other servers create between its looks and its writes, a server  *)
(* past InitTables finds every table and index, and one that serves has an   *)
(* administrator.                                                           *)
THEOREM SchemaIsThere == Spec => []ServesReady
  <1>1. IInv => ServesReady
    BY DEF IInv, SchemaInv, StartInv, Done, ServesReady
  <1> QED
    BY <1>1, Invariant, PTL

(* A request inserts a key at most as often as the driver tries.             *)
THEOREM DuplicatesAreBounded == Spec => []RowsBounded
  <1>1. IInv => RowsBounded
    BY DEF IInv, RowsInv
  <1> QED
    BY <1>1, Invariant, PTL

-----------------------------------------------------------------------------
(* A key that is settled stays so.                                          *)
LEMMA KeyStays ==
  ASSUME IInv, [Next]_vars, NEW k \in Keys, KeySettled(k)
  PROVE  KeySettled(k)' /\ rows'[k] = rows[k]
  <1>1. ASSUME UNCHANGED rows, NEW r \in Requests, req'[r].at \notin {"look", "insert"} \/ req'[r].key # k,
               \A q \in Requests \ {r} : req'[q] = req[q]
        PROVE  KeySettled(k)' /\ rows'[k] = rows[k]
    BY <1>1 DEF KeySettled, Stored
  <1>2. ASSUME UNCHANGED keyStore PROVE KeySettled(k)' /\ rows'[k] = rows[k]
    BY <1>2 DEF KeySettled, Stored, keyStore
  <1>3. ASSUME NEW s \in Servers, Crash(s) PROVE KeySettled(k)' /\ rows'[k] = rows[k]
    BY <1>3 DEF Crash, KeySettled, Stored, Idle
  <1>4. ASSUME NEW r \in Requests, KeyStep(r) PROVE KeySettled(k)' /\ rows'[k] = rows[k]
    <2>1. req \in [Requests -> ReqType] /\ \A q \in Requests \ {r} : req'[q] = req[q]
      BY <1>4, KeyTypes DEF IInv, TypeOK, ReqType
    <2>2. CASE req[r].key # k
      <3>1. rows'[k] = rows[k]
        <4>1. rows' = rows \/ (rows' = OneMore(r) /\ req[r].at = "insert")
          BY <1>4, KeyStepLeads
        <4> QED
          BY <2>2, <4>1, OneMoreRow
      <3>2. req'[r].key # k \/ req'[r].at = "idle"
        <4>1. \/ req' = [req EXCEPT ![r] = Idle]
              \/ req' = [req EXCEPT ![r].at = "look"]
              \/ req' = [req EXCEPT ![r].at = "insert", ![r].tries = MaxRetryCount]
              \/ req' = [req EXCEPT ![r].tries = @ - 1]
          BY <1>4, KeyStepLeads
        <4> QED
          BY <2>1, <2>2, <4>1 DEF ReqType, Idle
      <3> QED
        BY <2>1, <3>1, <3>2 DEF KeySettled, Stored
    <2>3. CASE req[r].key = k
      <3>1. req[r].at \notin {"look", "insert"} /\ Stored(k)
        BY <2>3 DEF KeySettled
      <3>2. rows' = rows /\ req' = [req EXCEPT ![r] = Idle]
        BY <1>4, <2>3, <3>1, KeyStepLeads
      <3> QED
        BY <1>1, <2>1, <3>2 DEF Idle
    <2> QED
      BY <2>2, <2>3
  <1>5. ASSUME NEW r \in Requests, NEW s \in Servers, NEW j \in Keys, PKSAdd(r, s, j)
        PROVE  KeySettled(k)' /\ rows'[k] = rows[k]
    <2>1. /\ UNCHANGED rows /\ req'[r].at = "search"
          /\ \A q \in Requests \ {r} : req'[q] = req[q]
      BY <1>5 DEF PKSAdd, IInv, TypeOK
    <2> QED
      BY <1>1, <2>1
  <1>6. CASE UNCHANGED vars
    BY <1>2, <1>6 DEF vars, keyStore
  <1> QED
    BY Steps, <1>2, <1>3, <1>4, <1>5, <1>6, StartFrame, UserFrame, BeginFrame

(* A user that is settled stays so.                                         *)
LEMMA UserStays ==
  ASSUME IInv, [Next]_vars, NEW n \in Names, UserSettled(n)
  PROVE  UserSettled(n)' /\ (users'[n] = users[n] \/ Replaced(n))
  <1> DEFINE Goal == UserSettled(n)' /\ (users'[n] = users[n] \/ Replaced(n))
  <1>1. ASSUME UNCHANGED users, NEW s \in Servers, auth'[s].at # "insert" \/ auth'[s].name # n,
               \A q \in Servers \ {s} : auth'[q] = auth[q]
        PROVE  Goal
    BY <1>1 DEF UserSettled
  <1>2. ASSUME UNCHANGED <<users, auth>> PROVE Goal
    BY <1>2 DEF UserSettled
  <1>3. ASSUME NEW s \in Servers, StartStep(s) PROVE Goal
    <2>1. \A q \in Servers \ {s} : auth'[q] = auth[q]
      BY <1>3, StartTypes
    <2>2. UNCHANGED users
      BY <1>3, StartFrame
    <2>3. auth'[s] = auth[s] \/ auth'[s].at = "get"
      <3>1. CASE AddDefaultAdmin(s)
        BY <3>1 DEF AddDefaultAdmin, Begin, IInv, TypeOK
      <3>2. CASE ~AddDefaultAdmin(s)
        BY <1>3, <3>2 DEF StartStep, Restart, ListDatabases, CreateDatabase, ListTables, KnownTable,
                          CreateTable, ListIndexes, CreateIndex, AdminExists
      <3> QED
        BY <3>1, <3>2
    <2>4. auth'[s].at # "insert" \/ auth'[s].name # n
      BY <2>3 DEF UserSettled
    <2> QED
      BY <1>1, <2>1, <2>2, <2>4
  <1>4. ASSUME NEW s \in Servers, UserStep(s) PROVE Goal
    <2>1. /\ auth \in [Servers -> AuthType] /\ users \in [Names -> SUBSET Passwords]
          /\ \A q \in Servers \ {s} : auth'[q] = auth[q]
      BY <1>4, UserTypes DEF IInv, TypeOK, AuthType
    <2>2. CASE UNCHANGED users
      <3>1. auth'[s].name # n \/ auth'[s].at # "insert"
        <4>1. ASSUME NEW ok \in BOOLEAN, Return(s, ok) PROVE auth'[s].at # "insert"
          BY <4>1, <2>1 DEF Return, Free
        <4>2. ASSUME NEW at, NEW tries, Proceed(s, at, tries) PROVE auth'[s].at = at /\ auth'[s].name = auth[s].name
          BY <4>2, <2>1 DEF Proceed, AuthType
        <4>3. CASE GetUser(s) \/ FindUser(s) \/ WriteUser(s)
          <5>1. Return(s, FALSE) \/ Return(s, TRUE) \/ Proceed(s, "look", 0) \/ Proceed(s, "update", MaxRetryCount)
            BY <4>3 DEF GetUser, FindUser, WriteUser
          <5>2. CASE Return(s, FALSE) \/ Return(s, TRUE)
            BY <5>2, <2>1 DEF Return, Free
          <5>3. CASE Proceed(s, "look", 0) \/ Proceed(s, "update", MaxRetryCount)
            BY <5>3, <4>2
          <5> QED
            BY <5>1, <5>2, <5>3
        <4>4. CASE LookUser(s)
          BY <4>1, <4>2, <4>4 DEF LookUser, UserSettled
        <4>5. CASE WriteUserLost(s)
          BY <4>1, <4>2, <4>5 DEF WriteUserLost, UserSettled
        <4> QED
          BY <1>4, <4>3, <4>4, <4>5 DEF UserStep
      <3> QED
        BY <1>1, <2>1, <2>2, <3>1
    <2>3. CASE users' = Written(s) /\ auth[s].at \in {"insert", "update"}
      <3>1. auth'[s].at # "insert" \/ auth'[s].name # n
        <4>1. ASSUME NEW ok \in BOOLEAN, Return(s, ok) PROVE auth'[s].at # "insert"
          BY <4>1, <2>1 DEF Return, Free
        <4>2. ASSUME NEW tries, Proceed(s, auth[s].at, tries)
              PROVE  auth'[s].at = auth[s].at /\ auth'[s].name = auth[s].name
          BY <4>2, <2>1 DEF Proceed, AuthType
        <4>3. WriteUser(s) \/ WriteUserLost(s)
          BY <1>4, <2>3 DEF UserStep, GetUser, LookUser, FindUser
        <4> QED
          BY <4>1, <4>2, <4>3 DEF WriteUser, WriteUserLost, UserSettled
      <3>2. auth[s].name = n => auth[s].at = "update"
        BY <2>3 DEF UserSettled
      <3>3. CASE auth[s].name # n
        <4>1. users'[n] = users[n]
          BY <2>1, <2>3, <3>3 DEF Written
        <4> QED
          BY <2>1, <3>1, <4>1 DEF UserSettled
      <3>4. CASE auth[s].name = n
        <4>1. users'[n] = {auth[s].password}
          BY <2>1, <2>3, <3>2, <3>4 DEF Written
        <4> QED
          BY <2>1, <3>1, <3>2, <3>4, <4>1 DEF UserSettled, Replaced
      <3> QED
        BY <3>3, <3>4
    <2> QED
      BY <1>4, <2>2, <2>3 DEF UserStep, GetUser, LookUser, FindUser, WriteUser, WriteUserLost
  <1>5. ASSUME NEW s \in Servers, Crash(s) PROVE Goal
    <2>1. UNCHANGED users /\ auth'[s] = Free /\ \A q \in Servers \ {s} : auth'[q] = auth[q]
      BY <1>5 DEF Crash, IInv, TypeOK
    <2> QED
      BY <1>1, <2>1 DEF Free
  <1>6. ASSUME NEW s \in Servers, NEW m \in Names, NEW p \in Passwords,
               LoginAdd(s, m, p) \/ ChangePassword(s, m, p)
        PROVE  Goal
    <2>1. /\ UNCHANGED users /\ auth'[s].at \in {"get", "find"}
          /\ \A q \in Servers \ {s} : auth'[q] = auth[q]
      BY <1>6 DEF LoginAdd, ChangePassword, Begin, IInv, TypeOK
    <2> QED
      BY <1>1, <2>1
  <1>7. ASSUME NEW r \in Requests, NEW s \in Servers, NEW k \in Keys, PKSAdd(r, s, k) PROVE Goal
    BY <1>2, <1>7 DEF PKSAdd
  <1>8. CASE UNCHANGED vars
    BY <1>2, <1>8 DEF vars
  <1> QED
    BY Steps, <1>2, <1>3, <1>4, <1>5, <1>6, <1>7, <1>8, KeyFrame

(* Once a key is there and nobody who saw it missing is still to insert it,  *)
(* its rows never change again.                                             *)
THEOREM KeysAreSettled == Spec => KeysSettle
  <1>1. IInv /\ [Next]_vars => [\A k \in Keys : KeySettled(k) => KeySettled(k)' /\ rows'[k] = rows[k]]_vars
    BY KeyStays
  <1> QED
    BY <1>1, Invariant, PTL DEF Spec, KeysSettle

(* Once a user is there and nobody who saw it missing is still to insert it, *)
(* only ChangePassword replaces its passwords.                              *)
THEOREM UsersAreSettled == Spec => UsersSettle
  <1>1. IInv /\ [Next]_vars => [\A n \in Names :
            UserSettled(n) => UserSettled(n)' /\ (users'[n] = users[n] \/ Replaced(n))]_vars
    BY UserStays
  <1> QED
    BY <1>1, Invariant, PTL DEF Spec, UsersSettle

-----------------------------------------------------------------------------
(* The initial states are those of PublicKeySet, and a step of Database is a *)
(* step of it or leaves its state.                                          *)
LEMMA AbstractInit == Init => Abstract!Init
  BY DEF Init, Abstract!Init, Stored

LEMMA AbstractStep ==
  ASSUME IInv, [Next]_vars
  PROVE  [Abstract!Next]_<<{k \in Keys : Stored(k)}, answered>>
  <1>1. ASSUME UNCHANGED <<rows, answered>> PROVE UNCHANGED <<{k \in Keys : Stored(k)}, answered>>
    BY <1>1 DEF Stored
  <1>2. ASSUME NEW r \in Requests, KeyStep(r)
        PROVE  [Abstract!Next]_<<{k \in Keys : Stored(k)}, answered>>
    <2>1. req[r].key \in Keys /\ rows \in [Keys -> [Requests -> Nat]]
      BY <1>2, KeyStepLeads DEF IInv, TypeOK
    <2> PICK key \in Keys : key = req[r].key
      BY <2>1
    <2>2. req[r].at = "insert" /\ rows' = OneMore(r) =>
             {k \in Keys : Stored(k)}' = {k \in Keys : Stored(k)} \cup {key}
      <3> SUFFICES ASSUME req[r].at = "insert", rows' = OneMore(r)
                   PROVE  \A k \in Keys : Stored(k)' <=> (Stored(k) \/ k = key)
        BY DEF Stored
      <3>1. ASSUME NEW k \in Keys, k # key PROVE Stored(k)' <=> Stored(k)
        BY <3>1, OneMoreRow DEF Stored
      <3>2. Stored(key)'
        <4>1. rows'[key][r] = rows[key][r] + 1 /\ rows[key][r] \in Nat
          BY <2>1, OneMoreRow
        <4>2. rows'[key][r] > 0
          BY <4>1
        <4> QED
          BY <4>2 DEF Stored
      <3> QED
        BY <3>1, <3>2
    <2>3. rows' = rows => {k \in Keys : Stored(k)}' = {k \in Keys : Stored(k)}
      BY DEF Stored
    <2>4. CASE answered' = answered
      <3>1. {k \in Keys : Stored(k)}' = {k \in Keys : Stored(k)}
            \/ {k \in Keys : Stored(k)}' = {k \in Keys : Stored(k)} \cup {key}
        BY <1>2, <2>2, <2>3, KeyStepLeads
      <3> QED
        BY <2>4, <3>1 DEF Abstract!Next, Abstract!Store
    <2>5. CASE answered' = answered \cup {key} /\ Stored(key) /\ rows' = rows
      BY <2>3, <2>5 DEF Abstract!Next, Abstract!Answer
    <2>6. CASE answered' = answered \cup {key} /\ req[r].at = "insert" /\ rows' = OneMore(r)
      BY <2>2, <2>6 DEF Abstract!Next, Abstract!Answer
    <2> QED
      BY <1>2, <2>4, <2>5, <2>6, KeyStepLeads
  <1>3. (\E r \in Requests : KeyStep(r)) \/ UNCHANGED <<rows, answered>>
    BY Steps, StartFrame, UserFrame, BeginFrame DEF keyStore, Crash, PKSAdd, vars
  <1> QED
    BY <1>1, <1>2, <1>3

(* The rows of the database, duplicates and all, implement a set of keys     *)
(* that only grows and has every key that was answered "OK".                *)
THEOREM ImplementsPublicKeySet == Spec => KeepsPromise
  <1>1. IInv /\ [Next]_vars => [Abstract!Next]_<<{k \in Keys : Stored(k)}, answered>>
    BY AbstractStep
  <1> QED
    BY <1>1, AbstractInit, Invariant, PTL DEF Spec, KeepsPromise, Abstract!Spec
=============================================================================
