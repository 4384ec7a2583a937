------------------------------ MODULE Shutdown ------------------------------
(***************************************************************************)
(* How the server starts and stops: main and its signal goroutine           *)
(* (cmd/server/remoteSigner.go), the HTTP server and its closing goroutine  *)
(* (internal/server/server.go) and the Kubernetes routine                   *)
(* (internal/kubernetes/kubeRoutine.go).  They meet on unbuffered channels, *)
(* where sending and receiving is one step of two goroutines.               *)
(***************************************************************************)
EXTENDS Naturals

CONSTANTS
    MaxPods,        \* bound: other pods in the deployment
    MaxSignals      \* bound: signals sent to the process

ASSUME BoundAssumption == MaxPods \in Nat /\ MaxSignals \in Nat

VARIABLES
    inKubernetes,     \* checkInKubernetes, at the start
    process,          \* "up", or how it ended
    main,             \* the main routine
    stopper,          \* the goroutine that waits for a signal
    closer,           \* the goroutine that closes the HTTP server
    server,           \* ListenAndServe
    kube,             \* the Kubernetes routine
    routineRuns,      \* its flag
    rest,             \* pods it has still to ask
    routineReceived,  \* whether it received passwords
    signals           \* signals sent

passVars == <<routineRuns, rest, routineReceived>>
kubeVars == <<kube, passVars>>
serverVars == <<inKubernetes, process, main, stopper, closer, server, kubeVars, signals>>

ServerTypeOK ==
    /\ inKubernetes \in BOOLEAN
    /\ process \in {"up", "ended", "killed", "panicked"}
    /\ main \in {"boot", "serving", "notify", "spawn", "waiting", "ended"}
    /\ stopper \in {"none", "spawned", "signal", "kubeStop", "stop", "cleanup", "localStop", "done"}
    /\ closer \in {"none", "stop", "close", "cleaned", "done"}
    /\ server \in {"none", "starting", "listening", "failed", "closed"}
    /\ kube \in {"none", "waiting", "select", "list", "fetch", "post", "trigger", "sleep", "stopped"}
    /\ routineRuns \in BOOLEAN
    /\ rest \in 0 .. MaxPods
    /\ routineReceived \in BOOLEAN
    /\ signals \in 0 .. MaxSignals

ServerInit ==
    /\ inKubernetes \in BOOLEAN
    /\ process = "up" /\ main = "boot"
    /\ stopper = "none" /\ closer = "none" /\ server = "none"
    /\ kube = "none" /\ routineRuns = TRUE /\ rest = 0 /\ routineReceived = FALSE
    /\ signals = 0

-----------------------------------------------------------------------------
(* main                                                                     *)

RunRemoteSignerServer ==
    /\ process = "up" /\ main = "boot"
    /\ main' = "serving"
    /\ closer' = "stop" /\ server' = "starting"
    /\ UNCHANGED <<inKubernetes, process, stopper, kubeVars, signals>>

StartKubeRoutine ==
    /\ process = "up" /\ main = "serving"
    /\ main' = "notify"
    /\ kube' = IF inKubernetes THEN "waiting" ELSE "none"
    /\ UNCHANGED <<inKubernetes, process, stopper, closer, server, passVars, signals>>

Notify ==
    /\ process = "up" /\ main = "notify"
    /\ main' = "spawn"
    /\ UNCHANGED <<inKubernetes, process, stopper, closer, server, kubeVars, signals>>

SpawnStopper ==
    /\ process = "up" /\ main = "spawn"
    /\ main' = "waiting" /\ stopper' = "spawned"
    /\ UNCHANGED <<inKubernetes, process, closer, server, kubeVars, signals>>

AwaitSignal ==
    /\ process = "up" /\ stopper = "spawned"
    /\ stopper' = "signal"
    /\ UNCHANGED <<inKubernetes, process, main, closer, server, kubeVars, signals>>

(* Mutant: the HTTP server is told first and the routine never.             *)
SignalClosesHttp ==
    /\ process = "up" /\ signals < MaxSignals
    /\ signals' = signals + 1
    /\ IF main \in {"boot", "serving", "notify"}
       THEN process' = "killed" /\ UNCHANGED stopper
       ELSE /\ stopper' = IF stopper = "signal" THEN "stop" ELSE stopper
            /\ UNCHANGED process
    /\ UNCHANGED <<inKubernetes, main, closer, server, kubeVars>>

(* SIGTERM or an interrupt.  Before signal.Notify it ends the process; after *)
(* it, it goes to the goroutine that waits for it, and is dropped if none   *)
(* waits: the channel has no buffer and the runtime does not block.         *)
Signal ==
    /\ process = "up" /\ signals < MaxSignals
    /\ signals' = signals + 1
    /\ IF main \in {"boot", "serving", "notify"}
       THEN process' = "killed" /\ UNCHANGED stopper
       ELSE /\ stopper' = IF stopper # "signal" THEN stopper
                          ELSE IF inKubernetes THEN "kubeStop" ELSE "stop"
            /\ UNCHANGED process
    /\ UNCHANGED <<inKubernetes, main, closer, server, kubeVars>>

(* localStop <- true meets <-localStop: main returns, the process ends.     *)
LocalStop ==
    /\ process = "up" /\ stopper = "localStop" /\ main = "waiting"
    /\ stopper' = "done" /\ main' = "ended" /\ process' = "ended"
    /\ UNCHANGED <<inKubernetes, closer, server, kubeVars, signals>>

-----------------------------------------------------------------------------
(* The HTTP server                                                          *)

(* The address may be in use: the error is logged and the process goes on.  *)
ListenAndServe ==
    /\ process = "up" /\ server = "starting"
    /\ server' \in {"listening", "failed"}
    /\ UNCHANGED <<inKubernetes, process, main, stopper, closer, kubeVars, signals>>

StopHttp ==
    /\ process = "up" /\ stopper = "stop" /\ closer = "stop"
    /\ stopper' = "cleanup" /\ closer' = "close"
    /\ UNCHANGED <<inKubernetes, process, main, server, kubeVars, signals>>

(* Mutant: the goroutine does not answer on the channel.                    *)
CloseAndEnd ==
    /\ process = "up" /\ closer = "close"
    /\ closer' = "done"
    /\ server' = IF server = "failed" THEN server ELSE "closed"
    /\ UNCHANGED <<inKubernetes, process, main, stopper, kubeVars, signals>>

Close ==
    /\ process = "up" /\ closer = "close"
    /\ closer' = "cleaned"
    /\ server' = IF server = "failed" THEN server ELSE "closed"
    /\ UNCHANGED <<inKubernetes, process, main, stopper, kubeVars, signals>>

Cleaned ==
    /\ process = "up" /\ stopper = "cleanup" /\ closer = "cleaned"
    /\ stopper' = "localStop" /\ closer' = "done"
    /\ UNCHANGED <<inKubernetes, process, main, server, kubeVars, signals>>

-----------------------------------------------------------------------------
(* The Kubernetes routine                                                   *)

FirstWait ==
    /\ process = "up" /\ kube = "waiting"
    /\ kube' = "select"
    /\ UNCHANGED <<inKubernetes, process, main, stopper, closer, server, passVars, signals>>

(* The stop is taken if the signal goroutine is blocked on sending it; the  *)
(* pass is done in either case.                                             *)
Select ==
    /\ process = "up" /\ kube = "select"
    /\ kube' = "list"
    /\ IF stopper = "kubeStop"
       THEN routineRuns' = FALSE /\ stopper' = "stop"
       ELSE UNCHANGED <<routineRuns, stopper>>
    /\ UNCHANGED <<inKubernetes, process, main, closer, server, rest, routineReceived, signals>>

ListOtherPods ==
    /\ process = "up" /\ kube = "list"
    /\ kube' = "fetch"
    /\ rest' \in 0 .. MaxPods /\ routineReceived' = FALSE
    /\ UNCHANGED <<inKubernetes, process, main, stopper, closer, server, routineRuns, signals>>

(* A pod answers with passwords, or fails or has none.                      *)
FetchPod ==
    /\ process = "up" /\ kube = "fetch"
    /\ rest > 0 /\ rest' = rest - 1
    /\ \/ kube' = "post" /\ routineReceived' = TRUE
       \/ UNCHANGED <<kube, routineReceived>>
    /\ UNCHANGED <<inKubernetes, process, main, stopper, closer, server, routineRuns, signals>>

(* Posting to the own server, or to whoever else has its address; with      *)
(* nobody there the routine panics, and nothing recovers.                   *)
Post ==
    /\ process = "up" /\ kube = "post"
    /\ \/ server \in {"listening", "failed"} /\ kube' = "fetch" /\ UNCHANGED process
       \/ server # "listening" /\ process' = "panicked" /\ UNCHANGED kube
    /\ UNCHANGED <<inKubernetes, main, stopper, closer, server, passVars, signals>>

AllFetched ==
    /\ process = "up" /\ kube = "fetch" /\ rest = 0
    /\ kube' = IF routineReceived THEN "trigger" ELSE "sleep"
    /\ UNCHANGED <<inKubernetes, process, main, stopper, closer, server, passVars, signals>>

TriggerKeyUnlock ==
    /\ process = "up" /\ kube = "trigger"
    /\ kube' = "sleep"
    /\ UNCHANGED <<inKubernetes, process, main, stopper, closer, server, passVars, signals>>

Sleep ==
    /\ process = "up" /\ kube = "sleep"
    /\ kube' = IF routineRuns THEN "select" ELSE "stopped"
    /\ UNCHANGED <<inKubernetes, process, main, stopper, closer, server, passVars, signals>>

-----------------------------------------------------------------------------
Main == RunRemoteSignerServer \/ StartKubeRoutine \/ Notify \/ SpawnStopper
Http == ListenAndServe \/ Close
KubeRoutine ==
    \/ FirstWait \/ Select \/ ListOtherPods \/ FetchPod \/ Post \/ AllFetched
    \/ TriggerKeyUnlock \/ Sleep
Meet == StopHttp \/ Cleaned \/ LocalStop
ServerNext == Main \/ AwaitSignal \/ Http \/ KubeRoutine \/ Meet \/ Signal

ServerSpec == ServerInit /\ [][ServerNext]_serverVars

(* Every goroutine runs, and two that are ready to meet on a channel do: one *)
(* sends and one receives on each.                                          *)
ServerFairness ==
    /\ WF_serverVars(Main) /\ WF_serverVars(AwaitSignal) /\ WF_serverVars(Http)
    /\ WF_serverVars(KubeRoutine) /\ WF_serverVars(Meet)
FairServerSpec == ServerSpec /\ ServerFairness

-----------------------------------------------------------------------------
(* Properties *)

(* The order of a stop: the routine hears of it before the server it posts   *)
(* to closes, and the process ends by itself only when nothing listens.      *)
StopsInOrder ==
    /\ server = "closed" /\ inKubernetes => ~routineRuns
    /\ process = "ended" => server \notin {"starting", "listening"}

(* A signal that was taken ends the process, over four meetings on three     *)
(* channels, one of which is used in both directions.                        *)
TakenSignalEnds ==
    stopper \in {"kubeStop", "stop", "cleanup", "localStop"} ~> process # "up"
=============================================================================
