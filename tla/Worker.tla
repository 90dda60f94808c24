------------------------------- MODULE Worker -------------------------------
(***************************************************************************)
(* The Worker in front of the container (src/index.ts) and the start of    *)
(* the process in it (src/server.ts).  All requests go to one container,   *)
(* which may be stopped, starting, or gone although it was healthy when    *)
(* its state was read.                                                     *)
(*                                                                         *)
(* The container library is not in this repository: it keeps a status that *)
(* lags behind the process, starts a process that is down, waits for its   *)
(* port and gives up after a while, and passes a request on once.          *)
(***************************************************************************)
EXTENDS Integers

CONSTANTS
    Requests,
    RouteOf        \* the route each request is for

Routes == {"upload", "access", "mirror"}

ASSUME RouteAssumption == RouteOf \in [Requests -> Routes]

VARIABLES
    env,           \* the deployed settings, of which all but two are required
    process,       \* "down", "starting", "binding" its port, or "listening"
    routes,        \* the routes it has registered
    status,        \* the container's status, as the library keeps it
    worker,        \* where the Worker is with each request
    handled,       \* how often the process was given each request
    reply          \* the status the client gets, 0 before it does

processVars == <<process, routes, status>>
workerVars == <<env, process, routes, status, worker, handled, reply>>

(* Before its reply: reading the container's state, waiting for its ports, *)
(* fetching, being handled, or cut off.                                    *)
Waiting == {"asking", "starting", "fetching", "handling", "lost"}

(* tarballKey: TARBALL_ENC_KEY, garbled if it is not the base64 of 32 bytes. *)
Settings == [complete : BOOLEAN, mirrorSecret : BOOLEAN,
             tarballKey : {"unset", "valid", "garbled"}]

WorkerInit ==
    /\ env \in Settings
    /\ process = "down"
    /\ routes = {}
    /\ status = "stopped"
    /\ worker = [r \in Requests |-> "idle"]
    /\ handled = [r \in Requests |-> 0]
    /\ reply = [r \in Requests |-> 0]

Goto(r, stage) == worker' = [worker EXCEPT ![r] = stage]

Answer(r, code) == Goto(r, "done") /\ reply' = [reply EXCEPT ![r] = code]

-----------------------------------------------------------------------------
Arrive(r) ==
    /\ worker[r] = "idle"
    /\ Goto(r, "asking")
    /\ UNCHANGED <<env, processVars, handled, reply>>

(* getState: the request goes straight on if the status says healthy. *)
GetState(r) ==
    /\ worker[r] = "asking"
    /\ Goto(r, IF status = "healthy" THEN "fetching" ELSE "starting")
    /\ UNCHANGED <<env, processVars, handled, reply>>

(* startAndWaitForPorts, which fetch does as well: a process that is down is *)
(* started, by whichever request gets there first.                           *)
StartProcess(r) ==
    /\ worker[r] \in {"starting", "fetching"}
    /\ process = "down"
    /\ process' = "starting"
    /\ status' = "running"
    /\ UNCHANGED <<env, routes, worker, handled, reply>>

PortsReady(r) ==
    /\ worker[r] = "starting"
    /\ process = "listening"
    /\ status' = "healthy"
    /\ Goto(r, "fetching")
    /\ UNCHANGED <<env, process, routes, handled, reply>>

(* The process accepts the request. *)
Fetch(r) ==
    /\ worker[r] = "fetching"
    /\ process = "listening"
    /\ Goto(r, "handling")
    /\ handled' = [handled EXCEPT ![r] = @ + 1]
    /\ UNCHANGED <<env, processVars, reply>>

(* The route's answer, for which 200 stands, or Fastify's 404. *)
Respond(r) ==
    /\ worker[r] = "handling"
    /\ Answer(r, IF RouteOf[r] \in routes THEN 200 ELSE 404)
    /\ UNCHANGED <<env, processVars, handled>>

(* Mutant: the handler tries again when something was thrown. *)
RetryOnError(r) ==
    /\ worker[r] \in Waiting \ {"handling"}
    /\ Goto(r, "asking")
    /\ UNCHANGED <<env, processVars, handled, reply>>

(* Mutant: nothing is caught. *)
Uncaught(r) ==
    /\ worker[r] \in Waiting \ {"handling"}
    /\ Goto(r, "thrown")
    /\ UNCHANGED <<env, processVars, handled, reply>>

(* The state cannot be read, the ports do not open in time, or the connection *)
(* is refused or cut off: whatever is thrown is answered 502.                 *)
Catch(r) ==
    /\ worker[r] \in Waiting \ {"handling"}
    /\ Answer(r, 502)
    /\ UNCHANGED <<env, processVars, handled>>

-----------------------------------------------------------------------------
RegisteredRoutes == {"upload", "access"} \cup IF env.mirrorSecret THEN {"mirror"} ELSE {}

(* Mutant: the port is opened before the routes are registered. *)
ListenFirst ==
    /\ process = "starting"
    /\ process' = "listening"
    /\ UNCHANGED <<env, routes, status, worker, handled, reply>>

(* Mutant: a key that does not decode counts as none. *)
GarbledIsUnset == env.complete

(* requireEnv and decodeTarballEncKey throw nothing. *)
SettingsInOrder == env.complete /\ env.tarballKey # "garbled"

(* main() runs on from its first await: the settings are read and the routes *)
(* registered, or it throws and the process exits.                           *)
Register ==
    /\ process = "starting"
    /\ \/ SettingsInOrder /\ process' = "binding" /\ routes' = RegisteredRoutes
       \/ ~SettingsInOrder /\ process' = "down" /\ UNCHANGED routes
    /\ UNCHANGED <<env, status, worker, handled, reply>>

Listen ==
    /\ process = "binding"
    /\ process' = "listening"
    /\ UNCHANGED <<env, routes, status, worker, handled, reply>>

(* A crash, a port that cannot be bound, a deployment, or the end of ten idle *)
(* minutes.  Requests being handled are cut off.                              *)
ProcessEnds ==
    /\ process # "down"
    /\ process' = "down"
    /\ routes' = {}
    /\ worker' = [r \in Requests |-> IF worker[r] = "handling" THEN "lost" ELSE worker[r]]
    /\ UNCHANGED <<env, status, handled, reply>>

(* The library notices, sooner or later. *)
NoticeStop ==
    /\ process = "down"
    /\ status # "stopped"
    /\ status' = "stopped"
    /\ UNCHANGED <<env, process, routes, worker, handled, reply>>

Progress(r) == GetState(r) \/ PortsReady(r) \/ Fetch(r) \/ Respond(r) \/ Catch(r)

WorkerNext ==
    \/ \E r \in Requests : Arrive(r) \/ StartProcess(r) \/ Progress(r)
    \/ Register \/ Listen \/ ProcessEnds \/ NoticeStop

WorkerSpec == WorkerInit /\ [][WorkerNext]_workerVars

(* The Worker runs on, and what it awaits answers or throws; the container   *)
(* need not be noticed to have stopped, nor its process ever come up.        *)
WorkerFairSpec == WorkerSpec /\ \A r \in Requests : WF_workerVars(Progress(r))

-----------------------------------------------------------------------------
WorkerTypeOK ==
    /\ env \in Settings
    /\ process \in {"down", "starting", "binding", "listening"}
    /\ routes \subseteq Routes
    /\ status \in {"stopped", "running", "healthy"}
    /\ worker \in [Requests -> Waiting \cup {"idle", "done"}]
    /\ handled \in [Requests -> Nat]
    /\ reply \in [Requests -> {0, 200, 404, 502}]

(* A request reaches the process at most once, however often the container    *)
(* stops and starts under it: a publish is never repeated by the service, and *)
(* what is answered by a route was handled.                                   *)
HandledOnce ==
    \A r \in Requests :
        /\ handled[r] <= 1
        /\ reply[r] \in {200, 404} => handled[r] = 1

(* Only a process that is set up entirely answers: a request for a route is   *)
(* never told that there is no such route because the process is half up, and *)
(* a deployment without its settings, or with a key for private tarballs that *)
(* cannot be used, answers nothing but 502 rather than store them in the      *)
(* clear (server.ts: "`${name} must be set`", "a deploy without the secret    *)
(* still boots"; tarballEncryption.ts: "must decode to exactly 32 bytes").    *)
AnsweredBySetUp ==
    \A r \in Requests :
        /\ reply[r] \in {200, 404} => env.complete /\ env.tarballKey # "garbled"
        /\ reply[r] = 404 => RouteOf[r] = "mirror" /\ ~env.mirrorSecret

(* Every request is answered, though the container may never come up or stop *)
(* at any moment.                                                            *)
EveryRequestAnswered == \A r \in Requests : worker[r] = "asking" ~> reply[r] # 0
=============================================================================
