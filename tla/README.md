# A verification of Chevron (remote signer) in TLA+

Chevron keeps OpenPGP private keys and signs, encrypts and decrypts for the
services around it, over HTTP.  Several goroutines of a server share its keys
and caches, several servers of a Kubernetes deployment share the passwords of
their keys, keys live in files or in Vault, public keys and users in RethinkDB,
and a Node.js library runs the key manager on a pool of threads.  This project
models those parts, checks them with TLC on small instances and proves the main
invariants with TLAPS for every instance.  All paths below are relative to `src/`.

## 1. The system

| Component | Code | State | Operations | What is hard |
|---|---|---|---|---|
| Key ring of public keys | `internal/keymagic/keyRingManager.go` | queue of erasable fingerprints, entities, key infos, a mutex | AddKey (recursive over subkeys), DeleteKey, GetKey (asks the key server), listings | the mutex is given up between a key and its subkeys and over the fetch; eviction; a panic with the mutex held |
| Key manager | `internal/keymagic/pgpManager.go`, `internal/tools/tools.go` | entities, decrypted keys, subkey map, a mutex, the agent's fingerprint | load, unlock, sign, encrypt, decrypt, save, delete, generate, reencrypt | reads and loads outside of the mutex, the mutex kept over a fetch, maps that alias each other, unlocking that changes what later unlocking tests |
| Disk key backend | `internal/keybackend/SaveToDisk.go` | two files per key | Save, SaveWithMetadata, Delete, Read, List | no lock, two files, crash between system calls, dropped errors |
| Vault key backend | `internal/vaultManager/vaultManager.go` | a token and the time it was got | the same operations over HTTP | a shared token without a lock, expiry |
| Secrets manager | `internal/keymagic/secretsManager.go` | passwords encrypted with the master key | PutKeyPassword, PutEncryptedPassword, GetPasswords, UnlockLocalKeys | memory only, no versions |
| Cluster routine | `internal/kubernetes/*.go`, `internal/server/internalEndpoint.go` | position of the loop | list the pods, fetch, post, trigger | lost requests, pods that stop, old against new |
| Start and stop | `cmd/server/remoteSigner.go`, `internal/server/server.go` | four goroutines, three channels | signals, closing the HTTP server | unbuffered channels, order |
| HTTP endpoints | `internal/server/*.go` | none of their own | one operation of the key manager each, some two or three | the steps of one request interleave with other requests |
| Agent | `internal/agent/*.go`, `internal/server/agentProxy.go`, `internal/server/agent/graphql.go` | users (file), tokens (memory or RethinkDB) | login, users, tokens, signing proxy | expiry, saving of credentials, crash |
| Database | `internal/database/databaseManager.go`, `internal/models/*.go`, `internal/keymagic/publicKeyStore.go`, `internal/agent/RethinkAuthManager.go` | tables, indexes, rows of RethinkDB | create what is missing, add and search keys, add users, change passwords | several servers, no transactions, look then insert, writes that the driver repeats |
| OpenPGP | `pkg/openpgp/**` | none | packets, armor, key rings, signatures, encryption | lengths and boundaries, key selection |
| Field cipher | `pkg/fieldcipher/*.go`, `internal/server/jsonFieldCipher.go` | none of its own; a document and what is made of it | cipher, decipher | paths at every level, skipped fields, round trip, fields that are moved |
| Node.js library | `tools/wrappers/nodejs/`, `tools/wrappers/chevron.go`, `pkg/chevronlib` | one key manager without a backend, the queue of the thread pool | load, unlock, sign, verify, generate, change a password | calls overlap in one process, entities are shared objects, the mutex is not always taken |
| Front ends | `cmd/cli`, `cmd/agent-ui` | none | one key manager call per command | - |

How they interact: an HTTP handler calls the key manager; the key manager
calls a key backend (disk, Vault or none) and, for public keys, the key ring,
which asks the key server or the public key store.  `unlockKey` also tells the
secrets manager the password.  Once a minute the cluster routine of every pod
asks the other pods for their encrypted passwords, posts them to its own server
and has the secrets manager unlock what it can.  The agent verifies a token,
looks up its user and has the key manager sign.  With RethinkDB every server
creates the tables at its start, and then shares users and public keys with the
others through them.  The Node.js library has no server: JavaScript queues calls,
threads run them on one key manager, and the event loop settles their promises.

What makes each part correct, in short: the ring is bounded and evicts oldest
first, and nothing escapes it; an unlocked key is without its entity only in the
gap between two writes of unlockKey, and no primary key passes the test of its
password with one that none of its files has; what a backend acknowledged
stays; only passwords of the files of a key spread through the cluster, and once
they fit they reach everybody; a stop ends the process in order; users survive a
restart; a request to Vault carries a token that is still good; a server that is
up finds its tables, and rows double only while calls overlap; calls of the
library about one key do not change what those about another answer; the field
cipher shows what is to be skipped and nothing else, refuses what it has to and
no more, and reports exactly the encrypted fields that are not where they were.
`PROJECT.json` lists the hazards at their lines.

## 2. Modules

| Module | Models | Used by |
|---|---|---|
| `PublicKeyCache` | the abstract specification of the key ring: what may be in memory, no queue, no lock | `KeyRingManager` (`Promise`) |
| `KeyRingManager` | the key ring | `MCKeyRingManager`, `KeyRingManagerProofs` |
| `PgpManager` | the key manager over any key backend, with the handlers that make several calls | `MCPgpManager`, `PgpManagerProofs` |
| `DiskBackend` | the disk key backend at the level of system calls | `MCDiskBackend`, `KeyBackendProofs` |
| `KubeCluster` | secrets managers and cluster routines of several pods, composed through their internal endpoints | `MCKubeCluster`, `KubeRoutineProofs` |
| `Shutdown` | the goroutines and channels of start and stop | `KubeRoutineProofs` |
| `VaultManager` | the shared token of the Vault backend | `KeyBackendProofs` |
| `Agent` | users, tokens and requests of the agent | `MCAgent`, `AgentProofs` |
| `PublicKeySet` | the abstract specification of the public key store: a set that grows and has every key whose addition was answered OK | `Database` (`Abstract`) |
| `Database` | servers that start on, and use, one RethinkDB | `MCDatabase`, `DatabaseProofs` |
| `ChevronLib` | the Node.js library, down to the key manager, composed of the wrapper, the pool of threads and the operations of the key manager at the level of shared objects | `MCChevronLib`, `ChevronLibProofs` |
| `FieldCipher` | cipher, a document on its way, decipher | `MCFieldCipher`, `FieldCipherProofs` |

An `MC` module gives a specification its small values.  `Shutdown` and
`VaultManager` need none: their constants are written in the configuration.
Their definitions have names of their own (`ServerSpec`, `VaultSpec`, ...), so that
one module of proofs can extend both parts of a subject: the two key backends,
and the Kubernetes routine while it runs and while it stops.
Definitions that `PROJECT.json` lists under "mutants" (each marked "Mutant" in
its comment) are plausible mistakes in the code; they are not part of any
specification.  Each property is tested by putting one in the place of the
definition it changes, upon which TLC finds the property violated.

### How state and steps correspond to the code

The unit of a step is what no other goroutine can cut: a section of code with a
mutex held from start to end, one meeting on a channel, one system call, one
request to another process.  The code that runs without a lock is cut at every
read and write of shared state that another goroutine can see: LoadKeyFromKB,
LoadKey and unlockKey when SignData, GetPrivate or addPrivateKey call them, the
disk backend, the vault token.  Such code is also cut where it runs with the
mutex held, since the unlocked code beside it sees its writes; a section that
holds the mutex and writes no map is one step.  A single access to a Go map is one
step, although the language leaves a race on it undefined (the process may abort,
which is a stop at that point).

* `KeyRingManager`: `fingerPrints`, `entities` and `keyInfo` are the fields of
  that name.  A caller works off `todo`, the AddKey calls it still has to make:
  AddKey of a key with subkeys is one section per key.  GetKey that misses
  leaves the lock (`want`) and asks the key server, whose answer is any key or
  an error.  `mutex` is only ever held for good, by a panic in the eviction.
  `sticky` is a history variable, the keys added with the non-erasable flag.
* `PgpManager`: `mem` holds the maps of the manager, `shared` what outlives a
  request beside them: the files in the key ring, and the subkeys that have been
  decrypted in place in some object.  A key file has a primary key, subkeys and the
  passwords both are encrypted with; encrypting and signing are left out but for
  which keys they touch.  `req` has the arguments of a request and `call` the local
  variables of the loading and unlocking that all of them share (`LoadAndUnlock`):
  look, read the backend, set the entity, each subkey, then test the password, list
  the subkeys, decrypt each (`decryptedPrivateKeys`, then `entities`: two writes)
  and set the primary key.  A refused subkey leaves the earlier ones open; a backend
  that cannot be read or decoded is an error for SignData and nothing for the rest,
  and LoadKeys may return at once.  Which object a subkey in a map is, once one has
  been decrypted in place, is not tracked: it may open to any password.  The key
  ring answers with a published key of that fingerprint, with what LoadKey put
  there, private half included, or with nothing.  A panic ends a request, and
  keeps the mutex for good where no defer gives it back (`Lost`).  A message
  has one recipient.  The identities of a key are left out.
* `DiskBackend`: a save is open (which empties the file), write, open, write; a
  delete is find, remove, remove.  Every call may fail; an open file that is
  removed is written to in vain (`orphan`).  A crash leaves the files as they
  are.  The metadata may fail to be read though the key was.  With saving disabled
  Save answers and changes no file (`AnswersOnly`); SaveWithMetadata saves.
  `settled` is a history: what an acknowledged change that nobody overlapped must
  have left.
* `KubeCluster`: a pod has key files, loaded keys, passwords and the position of its
  routine.  `Locks` has the passwords of the files a key comes in: addPrivateKey may
  load and save any of them, with its password or without, so that a stored password
  can become the wrong one.  unlockKey and the storing of its password are two
  steps.  A stored password is one together with the master key it is encrypted
  with (`Sealed`); a pod may start with another master key or with none, upon which
  it cannot read what it is sent, but keeps and passes it on.  The POST of the
  routine may fail at any entry (`PostFails`), Me() may find no pod, and what
  cannot be decrypted is passed over.
* `Shutdown`: one variable per goroutine, a send and its receive are one step.
* `VaultManager`: a token is the time it was issued at.  getClient is look at
  the clock, test, log in, set the token, keep the time; requests read the token
  when they are built.
* `Agent`: users and their passwords in memory and in users.json, which is
  emptied and then written with the mutex held (`saving`); tokens with their
  user and expiry; a request verifies its token in one locked section and looks
  up its user in another.  A GraphQL request with several fields is several
  requests.
* `Database`: a query is one step.  It may fail; one that writes may also be
  carried out and its answer lost, and is then sent again, `MaxRetryCount` times
  in all.  `srv` is the position of a server in InitTables with what it has listed
  so far (`known`, `missing`); `auth` the one operation on users that a server
  has at a time, for its mutex; `req` the requests that add keys, which no mutex
  holds apart.  `rows` counts the rows of a key by the request that inserted
  them, `users` has the passwords in the rows of a name.  `answered` is a
  history.  A server that stops takes its requests with it.
* `ChevronLib`: a call waits in `queue`, is given one of `Pool` threads (`Execute`),
  runs in steps and is done until the event loop settles it.  `entities` points
  to objects in `heap`, since a key that is loaded again is another object,
  while a subkey and the reencrypting refer to the one of the primary key, and
  decrypting and encrypting change an object in place.  LoadKey, LoadKeyFromKB and
  GetPrivateKeyASCIIReencrypt do not take the mutex and are cut; LoadKey sets the
  entity, then the subkeys, or fails on what it cannot read.  UnlockKey is one
  step, coarser than in `PgpManager`: a LoadKey of the same key could come between
  its reads, but then neither call is quiet and no property speaks of them.  The
  key ring never answers with a key that is being loaded.
  `quiet` and `open` are histories of a call: no call that
  changes the same key has overlapped with it, and the key was unlocked when
  it was made.  The Go runtime may end the process when a map is written
  while another thread uses it (`Crash`).
* `FieldCipher`: a document maps paths to what is there; the elements of an array
  have the names "0", "1", ... that they have in the paths of the code.  A
  ciphertext is the path and the value in it.  Texts are told apart by their
  first line, which is all that the regular expression of decipher keeps, and
  by beginning with the mark of a ciphertext.  `Blocks` says what CipherPathUnmangle
  makes of a name: itself, or the pieces between the slashes of its base64 or of
  the name itself.  `Recipients` has the sets of keys openpgp.Encrypt can encrypt
  the field key for; for others cipher fails.  `origin` is a history: where each
  field of the encrypted document was; `reader` another: whose key the last
  decipher used.

## 3. Runs

| Run | Question | Instance | What it shows |
|---|---|---|---|
| `key_ring` | Do bound, eviction and listing survive every interleaving, does everything end, does the ring keep the promise of PublicKeyCache? | 2 callers; keys with a subkey and with none; room for 2 | yes |
| `key_ring_no_room` | And with MAX_KEYRING_CACHE_SIZE=0? | room for 0; no check for deadlock, since the panic stops the ring | no key stays in memory, the lock is lost |
| `pgp` | Is an unlocked key ever without its entities, does a wrong password pass the test of a primary key, are keys mixed up, does a thread wait for itself? | 2 threads, a key with a subkey in two files whose subkey has different passwords, loading at the start; no check for deadlock, since a panic may keep the mutex | only in the gap between two writes; no; no; no |
| `disk` | Does an acknowledged change stay, is a write of an earlier one still to come? | 3 clients, one name, 2 keys, 2 metadata | it stays; none is |
| `kube` | Do only passwords of a key's files spread, and once they fit, do they reach everybody? | 2 pods, one deployed without a master key, 2 master keys; one key in two files with passwords of their own, a third password; 1 fault | yes |
| `shutdown` | Does a stop go in order, and to its end? | up to 2 other pods, 2 signals; no check for deadlock, since the process ends | yes |
| `vault` | Does a request ever carry an expired token? | 3 goroutines, logins and sending of up to 2 ticks, 16 ticks | no |
| `agent` | Are users lost or old passwords brought back; does a request act for somebody else? | 2 requests, the administrator and a user, 2 tokens, 2 faults | no |
| `database` | Do servers that start at once all come up, do rows double without overlap, does the store keep the promise of PublicKeySet? | 2 servers, 2 requests, a table with an index, a key, the administrator with 2 passwords, 2 attempts, 2 faults | they come up; no; it does |
| `chevron_lib` | Do calls disturb one another, does changing a password leave the key locked with it, does every promise settle? | 2 pending calls, 2 threads, a key with a subkey, its public half, another key, one that cannot be read, 2 passwords; no check for deadlock, since the process may end | no; yes; yes |
| `chevron_lib_returned_key` | Is the key that changeKeyPassword returns encrypted with the new password? | the same | no: finding |
| `field_cipher` | Does a document come back as it was, skipped fields shown and no others, every move reported, and does it fail exactly where it has to? | documents of up to 5 fields, 3 levels deep, one name with a slash, with every set of skipped fields; 3 recipients, of which one is unknown and one locked, no two to be encrypted for together; 1 change; no check for deadlock, since a refused document ends there | up to the first line of a text; reported paths are exact for names without a slash in them or their base64 |

The runs keep to the properties that matter in themselves.  Of the type
invariants, that of `FieldCipher` is checked as well as proved, since it says more
than types (a value is one a document can have).  The others, and the bounds
that only serve a stronger property (`CacheBounded`, `LockIsReleased`,
`StampFollowsToken`), are proved for every instance and not run (section 4).

### Bounds and why they are enough

* Actors: the races of these parts are between two goroutines, one in between
  two steps of another.  Three are used where the property speaks of an overlap
  of two and a third that comes after them (disk, vault).
* Names and keys: the parts of the state of different names are independent in
  `DiskBackend`, and a single one is the hardest case.  The ring has one key
  more than it has room for, so that each is evicted and comes back; the key
  manager has a key with one subkey, each published too, in two files: with one of
  them only, the halves in memory could not differ from those of the backend.  The
  agent's fingerprint is that key, so that unlocking leaves it alone.  With
  `Files <- WithPublic`, the public half for the second file, addPrivateKey is also
  given a key it refuses after having loaded it, and the same properties hold.
  The library has one more key that has nothing to do with them.
* `MaxFaults`: stops, deletions and replacements of a key (kube), crashes and failing
  writes (agent), crashes, failing queries and lost answers (database).  Two allow
  a fault in the recovery from the first; in kube it is one, for each request of the
  routine already fails without a bound and a pod without a master key is there
  from the start.
* `Locks`, `MasterKeys`: two of each, the one in use and another.  `Lax`, the subkeys that
  open to anything, is empty in the run and arbitrary in the proof.
* `MaxRetryCount`: two attempts, so that a repeated write is itself answered,
  lost or given up; the code makes 5 (`databaseManager.go:14`).
* Pending calls of the library: two, and as many threads: of the calls that
  overlap with a third one only one matters at a time, for each reads or
  writes one key.  `Requests` has every function, a wrong password, the public
  half and a key that cannot be read; changeKeyPassword is what loads `k`.
* `MaxMoves`, the shape of the documents: an object in an array in an object is
  the deepest change of level that the code tells apart; one move or exchange
  is reported or not independently of the next.
* `MaxTime`: in vault the clock passes the time to live and one renewal; in
  agent it passes the expiry of a token with lifetime 0 and never that of the
  default, so that tokens of both kinds exist.
* Tokens of the agent: a uuid that is neither stored nor in a request is given
  out again, so that the pool of two never runs dry.
* `MaxPods`, `MaxSignals`: the loop of the routine asks none, one or several
  pods; the second signal comes while the first is being handled.

Symmetry is used only in runs without liveness properties, for sets whose
members no property and no configuration tells apart.

### Fairness

* key ring: weak, of a caller's next locked section (a Go mutex hands itself to
  a waiter after a millisecond) and of the answer of the key server (a request
  ends, with an error if need be).
* cluster: weak for the loop of the routine, for a handler that has unlocked a
  key, and for the restart of a pod, which Kubernetes does; strong for the request
  to each other pod, the entries of the POST and the trigger, which may fail
  any number of times but not for ever.  Nothing forces anybody to unlock, add
  or delete a key, or to stop.
* shutdown: weak for each goroutine and for two that are ready to meet on a
  channel.  That the routine's pass over the pods ends is part of it: its http.Get
  has no timeout, so this assumes that the other pods answer or refuse.
* database: weak, of a server's start (it is started again whenever it ends, as
  Kubernetes does), of its operation on users and of each request: a query is
  answered, or fails.
* library: weak for the pool, which takes what is queued when a thread is free,
  and for each call's next step.  No step waits for another call: a section
  with the mutex held is one step.  Nothing forces anybody to make a call.

The runs pgp, disk, vault, agent and field_cipher check safety and assume none.

## 4. Proofs

Every theorem is proved for all values of the constants that satisfy the
assumptions named in its module.  Each subject has an inductive invariant
(`IInv`, `VaultIInv`, `ServerIInv`), a lemma that the initial states satisfy it, one
that every step keeps it, and the theorems that follow.

| Module | Theorems | Inductive invariant, and why the properties alone do not suffice |
|---|---|---|
| `KeyRingManagerProofs` | `TypeCorrect`, `QueueIsBounded`, `QueuedKeysDiffer`, `NothingIsLost`, `ListingMissesNone`, `MemoryIsBounded`, `EvictionOrder`, `ImplementsPublicKeyCache`, `LockNeverLost` | `TypeOK /\ CacheBounded /\ QueuedOnce /\ NothingLeaks /\ ListingComplete`. The bound on memory follows from the bound on the queue only if every key that may go is queued, and eviction keeps that only if no key is queued twice. The refinement maps each section to one step of `PublicKeyCache` or to none. `LockNeverLost` assumes room for at least one key. |
| `PgpManagerProofs` | `TypeCorrect`, `EntitiesMissOnlyInTheGap`, `SubkeyEntitiesAreThere`, `MastersAreThere`, `KeysAreNotMixed`, `PasswordsAreChecked`, `NoSelfDeadlock` | `MemOK(mem) /\ SharedOK /\ KBOK /\ ThreadsTyped /\ MissingOnlyInTheGap` and, for each thread, `Local /\ HoldsOK`: which entity can be under which fingerprint and with which passwords (`EntitiesFit`), that a key is marked unlocked after the entities of its subkeys are there, and what a thread at each step knows of the maps. That knowledge lasts while others write, for entities and subkeys only ever come to the maps (`Grows`, a lemma for each operation). Uses `SubkeyAssumption`: a subkey is bound to one primary key and is none itself. |
| `KeyBackendProofs` (disk) | `TypeCorrect`, `AcknowledgedIsDurable`, `NothingIsPending` | adds what a request knows at each of its steps (`RequestsOK`), that a client in `alone` has left on disk what it has written so far and shares its name with nobody (`AloneOK`), and that only a writing client can be an orphan. |
| `KubeRoutineProofs` (cluster) | `TypeCorrect`, `OnlyItsPasswords` | the property with the type invariant: the store, the batch and the handler keep to the passwords of a key's files together, none of them alone. |
| `KubeRoutineProofs` (stop) | `ServerTypeCorrect`, `StopKeepsOrder` | `Steps`: which positions of the goroutines occur together. |
| `KeyBackendProofs` (Vault) | `VaultTypeCorrect`, `StampIsRecent`, `TokensAreHonoured` | adds how old the time kept, a pending login and the token of a request can be at each step. |
| `AgentProofs` | `TypeCorrect`, `NothingUndone`, `MayStop`, `RightOwner` | `FileInv`: a file that can be read holds every saved change, before there is one nothing is saved. `TokenInv`: requests hold tokens, and every stored token has the user it was issued to. |
| `DatabaseProofs` | `TypeCorrect`, `SchemaIsThere`, `DuplicatesAreBounded`, `KeysAreSettled`, `UsersAreSettled`, `ImplementsPublicKeySet` | `TypeOK /\ SchemaInv /\ RowsInv`. `SchemaInv`: what a server has seen or created exists, and all of a table it has done; nothing is ever dropped. `RowsInv`: a request that goes on to insert a key has no row of it yet, for it has searched first, and its rows and the attempts it has left are together at most `MaxRetryCount`. Each step of the rows maps to one of `PublicKeySet` or to none. |
| `ChevronLibProofs` | `Invariance`, `SigningIsExact`, `ChangeIsExact`, `ChangeLocksAgain` | `MapsOK`, `CallOK`, `QueueOK`, `Exclusive` and a `Story` for each call: see below. |
| `FieldCipherProofs` | `TypeCorrect`, `ReachedIs`, `UnmangledIs`, `Concealment`, `InverseUpToLines`, `ExactReports`, `Untouched`, `ExactRefusals`, `ExactFailures` | the encrypted document and `origin` together are, at each stage, the document with some of its fields somewhere else; what is shown, restored and reported follows from where a path came from. `ReachedIs` says what the recursion over prefixes computes: a field is reached unless it or an object around it is skipped; `UnmangledIs` that a path whose names are all their own blocks is reported as it is. |

The properties of `ChevronLib` speak of a call that is done, and are far from
inductive.  The story of a quiet call says for each of its positions what holds of
its key by then: at `encrypt`, for example, that the object under its fingerprint
is the one the call works on and holds the key of the file with the subkeys
opened and the primary key without a password, and that the key is unlocked.  A
step of another call keeps it because of two facts.  `Exclusive`: while a call is
quiet no call that changes the same key is pending.  `Owes`: a step changes only
what stands under fingerprints of its own primary key, as `MapsOK` has every object
under fingerprints of one primary key only (`SubkeyAssumption`); a call without a
fingerprint, of a key that cannot be read, changes none.  So each operation
is a lemma about its own call (`LoadKeyStep`, `LoadSubkeysStep`, `UnlockKeyStep`, ...) and `OneStep` covers
all the others at once.  LoadKey takes a free object; `FreeObject` proves that there is
one, by the pigeonhole principle, so that the model does not keep LoadKey from a
step.  `RequestsAssumption` says of the set of requests that each is a call the
library has.

`ReachedIs` is about a recursive function.  Its proof takes the first position on a
path at which the walk and its closed form differ, which exists as strict inclusion
of finite sets is well-founded (`First`); the library states that fact, and `WFMin`,
without an operator as parameter, unlike its induction rules.

`TokensAreHonoured` rests on `MarginAssumption`: two logins (from the issue of a
token to the time kept with it), one request from its look at the clock to the
server, and one second of rounding must together fit into the minute that
`validTokenTTL` takes off.  Two logins, because two goroutines that renew at
once may leave the older token with the younger time; the bound is tight.  The
code sets no timeout of its own that guarantees it, so the theorem is as good as
that assumption.

Model-checked only: the liveness properties `CallersReturn`, `Converges`,
`TakenSignalEnds`, `AllComeUp` and `PromisesSettle` (liveness and fairness are
beyond the prover), and the finding, which is a counterexample.  Every safety
property that a run expects to hold is also a theorem.  There is no liveness
property of the key manager: a panic that keeps its mutex ends all progress
(section 5), so that "every request ends" is false of the code.

## 5. Findings

One is a run of its own.  `chevron_lib_returned_key`: changeKeyPassword
(`pgpManager.go:778`) decrypts and encrypts again the primary key alone.  Its
subkeys have been decrypted in place by UnlockKey and are returned without a
password, or, if the key was unlocked before, with the old one.

Four more promises are stated in their modules and not kept.  To see one
violated, add it as an INVARIANT to the configuration of the run, with the
constants named here:

* `SignFindsEntity` (`pgp`; `Files <- OneKey`, `OnDemandKeyLoad = TRUE`): unlockKey
  marks a subkey unlocked (`pgpManager.go:310`) before it gives it an entity (`:312`).
  A SignData of the subkey in between dereferences nil (`:526`) and keeps the mutex for
  good, since SignData gives it back without a defer.  It takes two calls of
  SignData and a key whose password is saved.
* `WrongPasswordRefused` (`pgp`; `Threads = {t1}`, `Files <- OneKey`,
  `OnDemandKeyLoad = TRUE`): unlocking a key makes an entity without a password
  for each subkey (`pgpManager.go:313`).  Once the subkey is deleted from the
  unlocked ones, any password opens it.
* `DecryptFindsRoom` (`pgp`; the same constants): Decrypt stores a second key in a
  ring of length one (`pgpManager.go:1169`): after the deletion of an unlocked subkey
  it has the entity of the subkey and that of its primary key.
* `ReadsWhatWasSaved` (`disk`; two clients): Read sees a file a Save has emptied
  (`SaveToDisk.go:74`).

Met while modelling, without a property of their own:

* `keyRingManager.go:77`: with a cache size of 0 the eviction panics with the
  mutex held and no operation of the ring ends any more (`AddKeyPanics`;
  `LockNeverLost` proves that it cannot happen with another size).
* `keyRingManager.go:70`: a key that is queued stays erasable when it is added
  again to stay, and one that was deleted while queued is not cached again until
  it has left the queue; it is fetched on every use.
* `keyRingManager.go:113`: DeleteKey leaves the record that GetCachedKeys lists.
* `pgpManager.go:211`: loading the public half of an unlocked key hides it from
  GetLoadedPrivateKeys; `:627`: GetSubKeys dereferences the entity of each subkey,
  which is there unless files of one key list different subkeys (the premise
  `OneSubkeyList` of `SubkeysAreThere`).
* `pgpManager.go:478`: DeleteKey leaves the entity, and the secrets manager the
  password, so that the routine unlocks a deleted key again.
* `internalEndpoint.go:97`: passwords have no version.  After a key has been replaced,
  an older password that arrives takes the place of the newer one, and two pods
  may exchange theirs; with another master key, what the others hold cannot be
  read.  `Converges` therefore speaks of passwords that fit.
* `pgpManager.go:961`: a generated key has its second packet written as a primary
  key too, so that it is read back without subkeys.
* `SaveToDisk.go:114`: the error of the second removal is dropped; `:66`: with
  saving disabled Save answers OK without having saved; `:85`: SaveWithMetadata does
  not look at the flag.
* `gpgEndpoints.go:303`: with the fingerprint of a subkey a wrong password
  replaces the right one in the secrets manager, since UnlockKey accepts it.
* `kubeRoutine.go:44`: after the stop the routine makes one more pass, against a
  server that is closing.
* `remoteSigner.go:52`: `signal.Notify` is given a channel without a buffer, so a
  SIGTERM that comes before the goroutine receives is dropped (`Signal`).
* `vaultManager.go:151`: getClient returns nil after a failed login and its
  callers dereference it; `:201`: the answer's "data" is asserted to be a map.
* `server/agent/graphql.go:148`: expiresAfter 0 gives a login a token that has
  expired, while line 49 promises the default; GenerateToken keeps the promise.
* `JSONAuthManager.go:86`: a failing write is logged and the caller told OK (from
  then on memory and file differ, and `FileIsCurrent` says nothing until the next
  write that succeeds); a crash while the file is written, the first start included, leaves a file
  that the next start refuses (`Refuse`), until somebody repairs it.
* `MemoryTokenManager.go:118`: tokens that nobody verifies again stay in memory;
  a change of password leaves the tokens of the user valid.
* `models/GPGKey.go:65`: AddGPGKey passes its record by value to the cursor's
  Next, which fails, so that it never finds the row it looks for and always
  inserts (`Look`); only the search of PKSAdd before it keeps rows single.
* `models/UserModel.go:59`: AddUser inserts on what it saw.  If another server adds
  the user and changes its password in between, the old password comes back as a
  second row (allowed by `UsersSettle`, which speaks of settled users).  `:107`:
  an update that is repeated after a lost answer replaces nothing and reports
  "not found", although it was written.
* `pkg/chevronlib/keyManipulation.go:50`: "Clean key after changing password" locks
  the primary key; the subkeys stay unlocked.  Two calls that change the password
  of one key at once work on one object, and what they return depends on who was
  first; `quiet` leaves them out.  The maps of the key manager are written
  without its mutex (`pgpManager.go:211`), which may end the process (`Crash`).
* `pkg/fieldcipher/decipher.go:19`: `.` does not match a newline, so that a text
  comes back as its first line; `:175`: and only up to a NUL; `:144`: a skipped
  text that begins with "FCMN" fails the whole document.  `cipher.go:191`: an
  array that holds a null or an array is refused.  An array and an object with
  the key "0" share their paths, so that exchanging one for the other is not
  reported, nor is a field that is dropped or replaced in the clear.
  `tools.go:27`: a name with a "/", or whose base64 has one, is split in pieces when
  a moved field is reported, so that the report can name another field;
  `MovesReported` speaks of the paths of the other names.  `cipher.go:72`: keys that
  cannot be encrypted for (expired, only for signing, without a common algorithm)
  fail like keys that are not known.

## 6. Not modelled, and plan

Done, in this order: the key ring with its abstract specification, the key
manager, the disk backend, the cluster, the stop, the Vault token, the agent,
the database with its abstract specification, the Node.js library, the field
cipher.

What could follow: the table of tokens of the agent on RethinkDB
(`internal/agent/RethinkTokenManager.go`), key generation with its timing, an
abstract specification of the library that `ChevronLib` implements for quiet calls.

Not modelled:

* `pkg/openpgp`, a fork of `golang.org/x/crypto/openpgp`: third-party algorithms
  without state between calls.  The modules have what they need of it (a private
  key is encrypted, decrypted, written and read) as operators.  The cryptographic
  primitives are taken to do what they promise.
* The JavaScript of this repository but the wrapper
  `tools/wrappers/nodejs/src/index.ts`: `internal/server/agent/bundle/graphiql.js`
  (46,455 lines) and `examples/wasm/wasm_exec.js` are copies of other projects
  (GraphiQL, the Go distribution), and the bundles of the agent's user interface a
  few lines each.  Counted by lines of JavaScript the models cover little; the
  program itself is Go, and what is modelled of it is the code of section 1.
* HTTP routing and JSON, configuration from the environment, the void backend (no
  state), the SKS and HKP endpoints (they relay to the store or to a key server),
  the command line and the agent's user interface (one call of the key manager per
  command), static pages, AgentBypassLogin (the proxy signs without a token) and the
  root token mode of Vault (no state).
* Within the modelled parts: the identities of keys, messages for several
  recipients, what a decrypted message contains, searches by name or e-mail, the
  size of the buffer in which the library returns a result.
