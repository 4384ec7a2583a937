---------------------------- MODULE VaultManager ----------------------------
(***************************************************************************)
(* The token of the Vault key backend, internal/vaultManager/               *)
(* vaultManager.go, in userpass mode: one client and one VaultToken for all *)
(* goroutines, tested and renewed without a lock.  Every operation of the   *)
(* backend is a request of getClient() (deleteSecret is two of them).       *)
(*                                                                         *)
(* The clock is a number of ticks; a token is the time the server issued it *)
(* at.  How long a login and a request may take is a parameter, because     *)
(* whether a token is still good when it arrives depends on it.             *)
(***************************************************************************)
EXTENDS Integers

CONSTANTS
    Goroutines,
    TTL,            \* VaultTokenTTL, and how long the server honours a token
    Margin,         \* the minute validTokenTTL takes off
    Second,         \* validTokenTTL compares seconds
    MaxLogin,       \* ticks from the issue of a token to its time being kept
    MaxSend,        \* ticks from the look at the clock to the server
    MaxTime         \* bound of the clock

ASSUME TimeAssumption ==
    /\ TTL \in Nat /\ Margin \in Nat /\ MaxLogin \in Nat /\ MaxSend \in Nat /\ MaxTime \in Nat
    /\ Second \in Nat \ {0}
    /\ Margin <= TTL
    /\ MaxLogin <= MaxTime
(* The minute has room for two logins, a request and the rounding.          *)
ASSUME MarginAssumption == 2 * MaxLogin + MaxSend + Second <= Margin

VARIABLES
    clock,
    token,      \* the token of the shared client
    getTime,    \* the time kept with it
    at,         \* goroutine -> what it does next
    issued,     \* goroutine -> the token its login has got, else 0
    checked,    \* goroutine -> its last look at the clock, else 0
    carry       \* goroutine -> the token its request carries, else 0

vaultVars == <<clock, token, getTime, at, issued, checked, carry>>

Times == 0 .. MaxTime
VaultTypeOK ==
    /\ clock \in Times /\ token \in Times /\ getTime \in Times
    /\ at \in [Goroutines -> {"idle", "test", "login", "set", "stamp", "ready", "sent"}]
    /\ issued \in [Goroutines -> Times]
    /\ checked \in [Goroutines -> Times]
    /\ carry \in [Goroutines -> Times]

(* MakeVaultManager has logged in; without a token it returns nothing.      *)
VaultInit ==
    /\ clock \in 0 .. MaxLogin
    /\ token = 0
    /\ getTime = clock
    /\ at = [c \in Goroutines |-> "idle"]
    /\ issued = [c \in Goroutines |-> 0]
    /\ checked = [c \in Goroutines |-> 0]
    /\ carry = [c \in Goroutines |-> 0]

Moves(c, from, to) == at[c] = from /\ at' = [at EXCEPT ![c] = to]

-----------------------------------------------------------------------------
(* getClient: validTokenTTL looks at the clock, then at the time kept.      *)
GetClient(c) ==
    /\ Moves(c, "idle", "test")
    /\ checked' = [checked EXCEPT ![c] = clock]
    /\ UNCHANGED <<clock, token, getTime, issued, carry>>

(* Mutant: the token is used to its last second.                            *)
ValidWithoutMargin(now) == now \div Second <= (getTime + TTL) \div Second
validTokenTTL(now) == now \div Second <= (getTime + TTL - Margin) \div Second

Valid(c) ==
    /\ Moves(c, "test", "ready")
    /\ validTokenTTL(checked[c])
    /\ UNCHANGED <<clock, token, getTime, issued, checked, carry>>

Expired(c) ==
    /\ Moves(c, "test", "login")
    /\ ~validTokenTTL(checked[c])
    /\ checked' = [checked EXCEPT ![c] = 0]
    /\ UNCHANGED <<clock, token, getTime, issued, carry>>

(* The server answers a login with a token, whoever else logs in.           *)
Login(c) ==
    /\ Moves(c, "login", "set")
    /\ issued' = [issued EXCEPT ![c] = clock]
    /\ UNCHANGED <<clock, token, getTime, checked, carry>>

(* getClient returns nil, and the request panics; nothing else changes.     *)
LoginFails(c) ==
    /\ Moves(c, "login", "idle")
    /\ UNCHANGED <<clock, token, getTime, issued, checked, carry>>

SetToken(c) ==
    /\ Moves(c, "set", "stamp")
    /\ token' = issued[c]
    /\ UNCHANGED <<clock, getTime, issued, checked, carry>>

Stamp(c) ==
    /\ Moves(c, "stamp", "ready")
    /\ getTime' = clock
    /\ checked' = [checked EXCEPT ![c] = clock]
    /\ issued' = [issued EXCEPT ![c] = 0]
    /\ UNCHANGED <<clock, token, carry>>

(* The request is built with the token the client has by now.               *)
NewRequest(c) ==
    /\ Moves(c, "ready", "sent")
    /\ carry' = [carry EXCEPT ![c] = token]
    /\ UNCHANGED <<clock, token, getTime, issued, checked>>

Answered(c) ==
    /\ Moves(c, "sent", "idle")
    /\ checked' = [checked EXCEPT ![c] = 0]
    /\ carry' = [carry EXCEPT ![c] = 0]
    /\ UNCHANGED <<clock, token, getTime, issued>>

(* Time passes, but neither a login nor a request takes longer than it may. *)
Tick ==
    /\ clock < MaxTime
    /\ \A c \in Goroutines :
          /\ at[c] \in {"set", "stamp"} => clock < issued[c] + MaxLogin
          /\ at[c] \in {"test", "ready", "sent"} => clock < checked[c] + MaxSend
    /\ clock' = clock + 1
    /\ UNCHANGED <<token, getTime, at, issued, checked, carry>>

VaultNext ==
    \/ \E c \in Goroutines :
          \/ GetClient(c) \/ Valid(c) \/ Expired(c)
          \/ Login(c) \/ LoginFails(c) \/ SetToken(c) \/ Stamp(c)
          \/ NewRequest(c) \/ Answered(c)
    \/ Tick

VaultSpec == VaultInit /\ [][VaultNext]_vaultVars

-----------------------------------------------------------------------------
(* Properties *)

(* Two goroutines that log in at once may leave the token of one with the    *)
(* time of the other: the time kept is never later than the issue of the     *)
(* token by more than two logins take.                                       *)
StampFollowsToken == getTime <= token + 2 * MaxLogin

(* Whatever goroutines log in at the same time, and whichever of their       *)
(* tokens the client ends up with, no request carries a token the server     *)
(* does not honour any more.                                                 *)
NeverExpired == \A c \in Goroutines : at[c] = "sent" => clock < carry[c] + TTL
=============================================================================
