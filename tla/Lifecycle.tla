----------------------------- MODULE Lifecycle -----------------------------
(***************************************************************************)
(* The life of a boot.App: New (module Startup), Run from setup to its     *)
(* return, the graceful shutdown, Close, the start and stop of components, *)
(* service registration and signal handling (boot/app.go).                 *)
(*                                                                         *)
(* Two goroutines execute this code: "run", in New and then in Run, and    *)
(* "closer", user code with a deferred call of App.Close.  Around them run *)
(* component Start and Stop calls (each in a goroutine of its own that Run *)
(* stops waiting for at a timeout), the servers, their requests, the       *)
(* watcher of the remote configuration, and the operating system's         *)
(* signals.                                                                *)
(*                                                                         *)
(* Components are numbered in the order of their registration; they start  *)
(* in the order that module Components computes from what they depend on.  *)
(* A timeout is a step that may be taken at any moment of a wait.          *)
(***************************************************************************)
EXTENDS Startup, Components

CONSTANTS
    N,              \* number of components
    Servers         \* the listeners of this configuration

ASSUME NAssumption == N \in Nat
ASSUME ServersAssumption == "http" \in Servers /\ Servers \subseteq {"http", "grpc", "pprof"}

VARIABLES
    pc,             \* where "run" and "closer" are
    order,          \* orderComponents' result, once startComponents has it
    needs,          \* history: the dependencies it was computed from
    idx,            \* place in order of the component that Run starts or a
                    \* stop loop stops
    comp,           \* state of each component
    started,        \* a.startedComponents: all (after a full start) or none
    stopOnce,       \* componentStopOnce: "free", its holder, or "done"
    closeOnce,      \* closeOnce: "free", its holder, or "done"
    ready,          \* a.ready
    serving,        \* servers that accept connections
    serveErr,       \* servers whose Serve returned an error, in the channel
    requests,       \* servers with a request in flight
    registered,     \* the instance is in the registry
    named,          \* a.instanceID and a.registeredName are set
    watcher,        \* the remote configuration watcher
    notify,         \* signal.Notify is in effect
    quit,           \* a signal waits in the quit channel
    killed,         \* a signal found no handler: the process is gone
    gaveUp          \* history: what has been abandoned at a timeout or error

orderVars == <<order, needs>>
compVars == <<comp, started, stopOnce>>
netVars == <<serving, serveErr, requests>>
regVars == <<registered, named>>
sigVars == <<notify, quit, killed>>
runVars == <<pc, orderVars, idx, compVars, closeOnce, ready, netVars, regVars, watcher,
          sigVars, gaveUp>>
appVars == <<runVars, opened>>
vars == <<newVars, appVars>>

Threads == {"run", "closer"}
Components == 1 .. N

RunPCs == {"setup", "listen", "pprof", "register", "watch", "onStart", "start",
           "rollback", "notify", "wait", "deregister", "stop", "drain",
           "drainWait", "watchWait", "onClose", "close", "closeStop",
           "closeWatch", "release", "exited"}
CloserPCs == {"idle", "close", "closeStop", "closeWatch", "release", "exited"}

\* starting: Start runs, Run waits; abandoned: it runs, Run gave up;
\* orphan: an abandoned Start succeeded after all; stopping: Stop runs and
\* is waited for; lingering: Stop runs, nobody waits.
CompStates == {"new", "starting", "failed", "up", "abandoned", "orphan",
               "stopping", "lingering", "stopped"}
GiveUps == {"start", "stop", "drain", "watcher", "deregister"}

TypeOK ==
    /\ pc \in [Threads -> RunPCs \cup CloserPCs]
    /\ pc["run"] \in RunPCs /\ pc["closer"] \in CloserPCs
    /\ StartupTypeOK
    /\ order \in Seq(Components) /\ needs \subseteq Components \X Components
    /\ idx \in 0 .. N
    /\ comp \in [Components -> CompStates]
    /\ started \in BOOLEAN
    /\ stopOnce \in {"free", "done"} \cup Threads
    /\ closeOnce \in {"free", "done"} \cup Threads
    /\ ready \in BOOLEAN
    /\ serving \subseteq Servers /\ serveErr \subseteq Servers
    /\ requests \subseteq Servers
    /\ registered \in BOOLEAN /\ named \in BOOLEAN
    /\ watcher \in {"off", "on", "cancelled", "done"}
    /\ notify \in BOOLEAN /\ quit \in BOOLEAN /\ killed \in BOOLEAN
    /\ gaveUp \subseteq GiveUps

Init ==
    /\ NewInit
    /\ order = <<>> /\ needs = {}
    /\ pc = [t \in Threads |-> IF t = "run" THEN "setup" ELSE "idle"]
    /\ idx = 0
    /\ comp = [i \in Components |-> "new"]
    /\ started = FALSE
    /\ stopOnce = "free" /\ closeOnce = "free"
    /\ ready = FALSE
    /\ serving = {} /\ serveErr = {} /\ requests = {}
    /\ registered = FALSE /\ named = FALSE
    /\ watcher = "off"
    /\ notify = FALSE /\ quit = FALSE /\ killed = FALSE
    /\ gaveUp = {}

At(t, p) == ~killed /\ pc[t] = p
Goto(t, p) == pc' = [pc EXCEPT ![t] = p]

\* The first thing shutdown does: no longer ready, watcher cancelled.
BeginShutdown ==
    /\ Goto("run", "deregister")
    /\ ready' = FALSE
    /\ watcher' = IF watcher = "on" THEN "cancelled" ELSE watcher

-----------------------------------------------------------------------------
(* Run: from setup to the wait for a signal.                               *)

\* setup(a): an error closes the App.
Setup ==
    /\ At("run", "setup") /\ step = "running"
    /\ Goto("run", "listen") \/ Goto("run", "close")
    /\ UNCHANGED <<idx, compVars, closeOnce, ready, netVars, regVars, watcher,
                   opened, sigVars, gaveUp>>

\* The HTTP and gRPC ports are bound before anything else starts; if one
\* cannot be, the other is closed again and the App is closed.
Listen ==
    /\ At("run", "listen")
    /\ \/ /\ Goto("run", "pprof")
          /\ serving' = Servers \ {"pprof"}
       \/ /\ Goto("run", "close")
          /\ UNCHANGED serving
    /\ UNCHANGED <<idx, compVars, closeOnce, ready, serveErr, requests, regVars,
                   watcher, opened, sigVars, gaveUp>>

\* The diagnostics listener, when configured; a failure shuts down.
ListenPprof ==
    /\ At("run", "pprof")
    /\ \/ /\ Goto("run", "register")
          /\ serving' = serving \cup (Servers \cap {"pprof"})
          /\ UNCHANGED <<ready, watcher>>
       \/ /\ "pprof" \in Servers
          /\ BeginShutdown
          /\ UNCHANGED serving
    /\ UNCHANGED <<idx, compVars, closeOnce, serveErr, requests, regVars,
                   opened, sigVars, gaveUp>>

\* Mutant: the instance ID is stored only after a successful Register.
RegisterNamesLate ==
    /\ At("run", "register")
    /\ \/ /\ registered' = ("registry" \in opened)
          /\ named' = registered'
          /\ Goto("run", "watch")
          /\ UNCHANGED <<ready, watcher>>
       \/ /\ "registry" \in opened
          /\ registered' \in BOOLEAN
          /\ UNCHANGED named
          /\ BeginShutdown
    /\ UNCHANGED <<idx, compVars, closeOnce, netVars, opened, sigVars, gaveUp>>

\* Register, if there is a registry, bounded by five seconds.  An error may hide a registration that
\* took effect; either way the App shuts down, knowing its instance ID.
Register ==
    /\ At("run", "register")
    /\ named' = ("registry" \in opened)
    /\ \/ /\ registered' = ("registry" \in opened)
          /\ Goto("run", "watch")
          /\ UNCHANGED <<ready, watcher>>
       \/ /\ "registry" \in opened
          /\ registered' \in BOOLEAN
          /\ BeginShutdown
    /\ UNCHANGED <<idx, compVars, closeOnce, netVars, opened, sigVars, gaveUp>>

\* The remote configuration watcher, when configured.
StartWatcher ==
    /\ At("run", "watch")
    /\ watcher' \in {"off", "on"}
    /\ Goto("run", "onStart")
    /\ UNCHANGED <<idx, compVars, closeOnce, ready, netVars, regVars, opened,
                   sigVars, gaveUp>>

\* OnStart callbacks; one that panics shuts the App down.
OnStart ==
    /\ At("run", "onStart")
    /\ \/ /\ Goto("run", IF N = 0 THEN "notify" ELSE "start")
          /\ idx' = IF N = 0 THEN 0 ELSE 1
          /\ ready' = (N = 0)
          /\ UNCHANGED watcher
       \/ BeginShutdown /\ UNCHANGED idx
    /\ UNCHANGED <<compVars, closeOnce, netVars, regVars, opened, sigVars, gaveUp>>

-----------------------------------------------------------------------------
(* startComponents.                                                        *)

\* What DependsOn may return: nothing, a component, or an unknown name.
Dependencies == {<<>>} \cup {<<d>> : d \in 1 .. N + 1}

\* What startComponents relies on.
OrdersAreRight == \A deps \in [Components -> Dependencies] : OrderIsRight(N, deps)

\* orderComponents: an order, or an error before anything was started.
OrderComponents ==
    /\ At("run", "start") /\ order = <<>>
    /\ \E deps \in [Components -> Dependencies] :
          LET result == orderComponents(N, deps)
          IN  \/ /\ result.error = "none"
                 /\ order' = result.ordered
                 /\ needs' = DependsOn(N, deps)
                 /\ UNCHANGED <<pc, ready, watcher>>
              \/ /\ result.error # "none"
                 /\ BeginShutdown
                 /\ UNCHANGED orderVars
    /\ UNCHANGED <<idx, compVars, closeOnce, netVars, regVars, opened, sigVars, gaveUp>>

\* runComponentStart launches Start in a goroutine.
StartBegins ==
    /\ At("run", "start") /\ order # <<>> /\ comp[order[idx]] = "new"
    /\ comp' = [comp EXCEPT ![order[idx]] = "starting"]
    /\ UNCHANGED <<pc, idx, started, stopOnce, closeOnce, ready, netVars, regVars,
                   watcher, opened, sigVars, gaveUp>>

\* Start returns nil, or an error (a panic is turned into one).
StartReturns(i) ==
    /\ ~killed
    /\ \/ comp[i] = "starting" /\ comp' \in {[comp EXCEPT ![i] = r] : r \in {"up", "failed"}}
       \/ comp[i] = "abandoned" /\ comp' \in {[comp EXCEPT ![i] = r] : r \in {"orphan", "failed"}}
    /\ UNCHANGED <<pc, idx, started, stopOnce, closeOnce, ready, netVars, regVars,
                   watcher, opened, sigVars, gaveUp>>

\* Run sees the result: the next component, or the end of the start phase,
\* where the list of started components is stored and readiness announced.
StartSucceeded ==
    /\ At("run", "start") /\ order # <<>> /\ comp[order[idx]] = "up"
    /\ IF idx < N
       THEN idx' = idx + 1 /\ UNCHANGED <<pc, started, ready>>
       ELSE /\ started' = TRUE
            /\ ready' = TRUE
            /\ Goto("run", "notify")
            /\ UNCHANGED idx
    /\ UNCHANGED <<comp, stopOnce, closeOnce, netVars, regVars, watcher, opened,
                   sigVars, gaveUp>>

\* Start failed, or its timeout fired while it is still running: the
\* components started so far are stopped in reverse order.
StartFailed ==
    /\ At("run", "start") /\ order # <<>>
    /\ \/ comp[order[idx]] = "failed" /\ UNCHANGED <<comp, gaveUp>>
       \/ /\ comp[order[idx]] = "starting"
          /\ comp' = [comp EXCEPT ![order[idx]] = "abandoned"]
          /\ gaveUp' = gaveUp \cup {"start"}
    /\ idx' = idx - 1
    /\ Goto("run", "rollback")
    /\ UNCHANGED <<started, stopOnce, closeOnce, ready, netVars, regVars, watcher,
                   opened, sigVars>>

-----------------------------------------------------------------------------
(* Stop loops: runComponentStop for idx, idx - 1, ... 1.                   *)

\* t runs a stop loop: the rollback of startComponents, or stopComponents
\* under componentStopOnce.
InStopLoop(t) ==
    /\ ~killed
    /\ \/ t = "run" /\ pc[t] = "rollback"
       \/ pc[t] \in {"stop", "closeStop"} /\ stopOnce = t

\* Where stopComponents returns to.
AfterStop(p) == IF p = "stop" THEN "drain" ELSE "closeWatch"

\* Mutant: the loop counts up from the first component.
StopLoopStartForward == IF started THEN 1 ELSE 0

\* The loop starts at the end of the list of started components.
StopLoopStart == IF started THEN N ELSE 0

\* stopComponents: the once is free (take it, or consume it on an empty
\* list) or already done; while another goroutine is inside, Do blocks.
StopComponents(t) ==
    /\ ~killed /\ pc[t] \in {"stop", "closeStop"}
    /\ \/ /\ stopOnce = "free" /\ started
          /\ stopOnce' = t
          /\ idx' = StopLoopStart
          /\ UNCHANGED pc
       \/ /\ stopOnce = "free" /\ ~started
          /\ stopOnce' = "done"
          /\ Goto(t, AfterStop(pc[t]))
          /\ UNCHANGED idx
       \/ /\ stopOnce = "done"
          /\ Goto(t, AfterStop(pc[t]))
          /\ UNCHANGED <<stopOnce, idx>>
    /\ UNCHANGED <<comp, started, closeOnce, ready, netVars, regVars, watcher,
                   opened, sigVars, gaveUp>>

StopBegins(t) ==
    /\ InStopLoop(t) /\ idx > 0 /\ comp[order[idx]] = "up"
    /\ comp' = [comp EXCEPT ![order[idx]] = "stopping"]
    /\ UNCHANGED <<pc, idx, started, stopOnce, closeOnce, ready, netVars, regVars,
                   watcher, opened, sigVars, gaveUp>>

\* Stop returns, whether anybody still waits for it or not.
StopReturns(i) ==
    /\ ~killed /\ comp[i] \in {"stopping", "lingering"}
    /\ comp' = [comp EXCEPT ![i] = "stopped"]
    /\ UNCHANGED <<pc, idx, started, stopOnce, closeOnce, ready, netVars, regVars,
                   watcher, opened, sigVars, gaveUp>>

\* The loop moves on when Stop has returned or the shared stop context ends.
StopAdvances(t) ==
    /\ InStopLoop(t) /\ idx > 0
    /\ \/ comp[order[idx]] = "stopped" /\ UNCHANGED <<comp, gaveUp>>
       \/ /\ comp[order[idx]] = "stopping"
          /\ comp' = [comp EXCEPT ![order[idx]] = "lingering"]
          /\ gaveUp' = gaveUp \cup {"stop"}
    /\ idx' = idx - 1
    /\ UNCHANGED <<pc, started, stopOnce, closeOnce, ready, netVars, regVars,
                   watcher, opened, sigVars>>

\* The end of a loop: the rollback goes on to shutdown, stopComponents
\* releases its once.
StopLoopEnds(t) ==
    /\ InStopLoop(t) /\ idx = 0
    /\ IF pc[t] = "rollback"
       THEN BeginShutdown /\ UNCHANGED stopOnce
       ELSE /\ stopOnce' = "done"
            /\ Goto(t, AfterStop(pc[t]))
            /\ UNCHANGED <<ready, watcher>>
    /\ UNCHANGED <<idx, comp, started, closeOnce, netVars, regVars, opened,
                   sigVars, gaveUp>>

-----------------------------------------------------------------------------
(* Run: signals and shutdown.                                              *)

\* signal.Notify: from here on SIGINT and SIGTERM are delivered to quit.
InstallNotify ==
    /\ At("run", "notify")
    /\ notify' = TRUE
    /\ Goto("run", "wait")
    /\ UNCHANGED <<idx, compVars, closeOnce, ready, netVars, regVars, watcher,
                   opened, quit, killed, gaveUp>>

\* The select: a signal or the first server error ends the wait.
WaitEnds ==
    /\ At("run", "wait")
    /\ \/ quit /\ quit' = FALSE /\ UNCHANGED serveErr
       \/ /\ \E s \in serveErr : serveErr' = serveErr \ {s}
          /\ UNCHANGED quit
    /\ BeginShutdown
    /\ UNCHANGED <<idx, compVars, closeOnce, serving, requests, regVars, opened,
                   notify, killed, gaveUp>>

\* shutdown: Deregister, bounded by three seconds; a failure is only logged.
Deregister ==
    /\ At("run", "deregister")
    /\ \/ ~named /\ UNCHANGED <<registered, gaveUp>>
       \/ named /\ registered' = FALSE /\ UNCHANGED gaveUp
       \/ named /\ UNCHANGED registered /\ gaveUp' = gaveUp \cup {"deregister"}
    /\ Goto("run", "stop")
    /\ UNCHANGED <<idx, compVars, closeOnce, ready, netVars, named, watcher,
                   opened, sigVars>>

\* http.Server.Shutdown and GracefulStop close the listeners at once ...
DrainBegins ==
    /\ At("run", "drain")
    /\ serving' = {}
    /\ Goto("run", "drainWait")
    /\ UNCHANGED <<idx, compVars, closeOnce, ready, serveErr, requests, regVars,
                   watcher, opened, sigVars, gaveUp>>

\* Mutant: shutdown does not wait for the requests in flight.
DrainEndsAtOnce ==
    /\ At("run", "drainWait")
    /\ Goto("run", "watchWait")
    /\ UNCHANGED <<idx, compVars, closeOnce, ready, netVars, regVars, watcher,
                   opened, sigVars, gaveUp>>

\* Mutant: the wait for the requests in flight has no timeout.
DrainWithoutTimeout ==
    /\ At("run", "drainWait")
    /\ requests = {}
    /\ Goto("run", "watchWait")
    /\ UNCHANGED <<idx, compVars, closeOnce, ready, netVars, regVars, watcher,
                   opened, sigVars, gaveUp>>

\* ... and wait for the requests in flight, up to the shutdown timeout.
DrainEnds ==
    /\ At("run", "drainWait")
    /\ \/ requests = {} /\ UNCHANGED gaveUp
       \/ requests # {} /\ gaveUp' = gaveUp \cup {"drain"}
    /\ Goto("run", "watchWait")
    /\ UNCHANGED <<idx, compVars, closeOnce, ready, netVars, regVars, watcher,
                   opened, sigVars>>

\* The wait for the watcher, in shutdown and again in Close: three seconds.
AfterWatch(p) == IF p = "watchWait" THEN "onClose" ELSE "release"
WatcherWait(t) ==
    /\ ~killed /\ pc[t] \in {"watchWait", "closeWatch"}
    /\ watcher' = IF watcher = "on" THEN "cancelled" ELSE watcher
    /\ \/ watcher \in {"off", "done"} /\ UNCHANGED gaveUp
       \/ watcher \in {"on", "cancelled"} /\ gaveUp' = gaveUp \cup {"watcher"}
    /\ Goto(t, AfterWatch(pc[t]))
    /\ UNCHANGED <<idx, compVars, closeOnce, ready, netVars, regVars, opened,
                   sigVars>>

\* OnClose callbacks (a panic is recovered), then Close.
OnClose ==
    /\ At("run", "onClose")
    /\ Goto("run", "close")
    /\ UNCHANGED <<idx, compVars, closeOnce, ready, netVars, regVars, watcher,
                   opened, sigVars, gaveUp>>

-----------------------------------------------------------------------------
(* Close.                                                                  *)

\* When Run returns its deferred signal.Stop runs.
Leave(t) ==
    /\ Goto(t, "exited")
    /\ notify' = (notify /\ t # "run")

\* User code calls Close when Run is itself in Close or has returned.
CloserCalls ==
    /\ At("closer", "idle")
    /\ pc["run"] \in {"close", "closeStop", "closeWatch", "release", "exited"}
    /\ Goto("closer", "close")
    /\ UNCHANGED <<idx, compVars, closeOnce, ready, netVars, regVars, watcher,
                   opened, sigVars, gaveUp>>

\* closeOnce.Do: the first caller goes in, later ones return when it is done.
EnterClose(t) ==
    /\ At(t, "close")
    /\ \/ /\ closeOnce = "free"
          /\ closeOnce' = t
          /\ Goto(t, "closeStop")
          /\ UNCHANGED notify
       \/ /\ closeOnce = "done"
          /\ Leave(t)
          /\ UNCHANGED closeOnce
    /\ UNCHANGED <<idx, compVars, ready, netVars, regVars, watcher, opened,
                   quit, killed, gaveUp>>

\* Databases, the registry client, Redis and telemetry are closed.  Closing
\* the registry client drops the registration if the registry answers.
Release(t) ==
    /\ At(t, "release")
    /\ opened' = {}
    /\ registered' \in {registered, FALSE}
    /\ closeOnce' = "done"
    /\ Leave(t)
    /\ UNCHANGED <<idx, compVars, ready, netVars, named, watcher, quit, killed, gaveUp>>

-----------------------------------------------------------------------------
(* The environment (external).                                             *)

Signal ==
    /\ ~killed /\ pc["run"] # "exited"
    /\ IF notify
       THEN quit' = TRUE /\ UNCHANGED killed
       ELSE killed' = TRUE /\ UNCHANGED quit
    /\ UNCHANGED <<pc, idx, compVars, closeOnce, ready, netVars, regVars, watcher,
                   opened, notify, gaveUp>>

ServerFails(s) ==
    /\ ~killed /\ s \in serving
    /\ serving' = serving \ {s}
    /\ serveErr' = serveErr \cup {s}
    /\ UNCHANGED <<pc, idx, compVars, closeOnce, ready, requests, regVars, watcher,
                   opened, sigVars, gaveUp>>

RequestBegins(s) ==
    /\ ~killed /\ s \in serving \ requests
    /\ requests' = requests \cup {s}
    /\ UNCHANGED <<pc, idx, compVars, closeOnce, ready, serving, serveErr, regVars,
                   watcher, opened, sigVars, gaveUp>>

RequestEnds(s) ==
    /\ ~killed /\ s \in requests
    /\ requests' = requests \ {s}
    /\ UNCHANGED <<pc, idx, compVars, closeOnce, ready, serving, serveErr, regVars,
                   watcher, opened, sigVars, gaveUp>>

\* The watcher ends when cancelled, or earlier on an error of its own.
WatcherEnds ==
    /\ ~killed /\ watcher \in {"on", "cancelled"}
    /\ watcher' = "done"
    /\ UNCHANGED <<pc, idx, compVars, closeOnce, ready, netVars, regVars,
                   opened, sigVars, gaveUp>>

\* The end of the program: nothing left to do, so no deadlock.
Terminated ==
    /\ killed \/ (\A t \in Threads : pc[t] = "exited")
    /\ UNCHANGED vars

-----------------------------------------------------------------------------
\* New, still without an App.
Boot ==
    /\ ~killed
    /\ NewStep
    /\ UNCHANGED runVars

\* New returned.  With an App, Run begins: of what New worked with only the
\* open resources matter from here on, so the rest is forgotten.  With an
\* error, the program ends.
NewReturns ==
    /\ At("run", "setup")
    /\ \/ /\ step = "app"
          /\ step' = "running"
          /\ file' = CHOOSE f \in Files : TRUE
          /\ env' = CHOOSE e \in Envs : TRUE
          /\ cfg' = file' /\ localCfg' = file'
          /\ layers' = [k \in {"service", "node"} |-> Missing]
          /\ contacts' = {}
          /\ UNCHANGED <<pc, refusal>>
       \/ /\ step = "error"
          /\ pc' = [t \in Threads |-> "exited"]
          /\ UNCHANGED newVars
    /\ UNCHANGED <<orderVars, idx, compVars, closeOnce, ready, netVars, regVars,
                   watcher, opened, sigVars, gaveUp>>

RunStep ==
    /\ \/ OrderComponents
       \/ /\ \/ Setup \/ Listen \/ ListenPprof \/ Register \/ StartWatcher \/ OnStart
             \/ StartBegins \/ StartSucceeded \/ StartFailed \/ InstallNotify
             \/ WaitEnds \/ Deregister \/ DrainBegins \/ DrainEnds \/ OnClose
          /\ UNCHANGED orderVars
    /\ UNCHANGED newVars

\* What both goroutines can execute.
SharedStep(t) ==
    /\ \/ StopComponents(t) \/ StopBegins(t) \/ StopAdvances(t) \/ StopLoopEnds(t)
       \/ WatcherWait(t) \/ EnterClose(t) \/ Release(t)
    /\ UNCHANGED <<newVars, orderVars>>

Environment ==
    /\ \/ \E i \in Components : StartReturns(i) \/ StopReturns(i)
       \/ Signal
       \/ \E s \in Servers : ServerFails(s) \/ RequestBegins(s) \/ RequestEnds(s)
       \/ WatcherEnds
       \/ CloserCalls
    /\ UNCHANGED <<newVars, orderVars>>

Next ==
    \/ Boot \/ NewReturns \/ RunStep
    \/ \E t \in Threads : SharedStep(t)
    \/ Environment
    \/ Terminated

Spec == Init /\ [][Next]_vars

\* Run and a Close in progress are scheduled, and every wait in them has a
\* timeout.  Components, requests, the watcher, the registry and the closer
\* need not do anything.
FairSpec ==
    /\ Spec
    /\ WF_vars(RunStep)
    /\ \A t \in Threads : WF_vars(SharedStep(t))

-----------------------------------------------------------------------------
StopBegun == {"stopping", "lingering", "stopped"}

\* /ready can answer OK only between the end of a complete start and the
\* start of the shutdown: every component is up, the instance registered and
\* the resources open.
ReadyMeansRunning ==
    ready => /\ pc["run"] \in {"notify", "wait"}
             /\ \A i \in Components : comp[i] = "up"
             /\ "registry" \in opened => registered
             /\ opened # {}

\* A component starts only when all it depends on is up, and components stop
\* in the reverse of their start order, in a rollback and in a shutdown alike:
\* a component is asked to stop only when everything started after it has
\* been asked before.
StartAndStopOrder ==
    /\ \A n \in needs :
          comp[n[1]] \in {"starting", "up"} => comp[n[2]] = "up"
    /\ \A i, j \in DOMAIN order : i < j =>
          /\ comp[order[i]] \in StopBegun => comp[order[j]] # "up"
          /\ comp[order[j]] \in {"starting", "up"} => comp[order[i]] = "up"

\* When Run has returned or Close has completed, everything New opened is
\* closed, no server listens, no request is under way unless the wait for it
\* was given up, and no component that was started is left without a Stop,
\* except one whose Start outlived its timeout and succeeded afterwards; and,
\* when Run has returned, whichever way, the instance is out of the registry,
\* unless the registry did not answer.
NothingLeftUp ==
    pc["run"] = "exited" \/ closeOnce = "done" =>
        /\ opened = {} /\ serving = {}
        /\ requests # {} => "drain" \in gaveUp
        /\ \A i \in Components : comp[i] \notin {"up", "starting"}
        /\ pc["run"] = "exited" /\ "deregister" \notin gaveUp => ~registered

\* Databases and Redis are closed only when nothing uses them any more: no
\* component, no request and no configuration watcher, unless the wait for
\* it was given up at its timeout.
ResourcesOutliveUsers ==
    pc["run"] # "setup" /\ opened = {} =>
        /\ (\E i \in Components : comp[i] \in {"up", "stopping", "lingering"})
              => "stop" \in gaveUp
        /\ requests # {} => "drain" \in gaveUp
        /\ watcher \in {"on", "cancelled"} => "watcher" \in gaveUp

\* A registered instance accepts connections: it is registered after the
\* ports are bound and deregistered before the listeners are closed, unless
\* the deregistration or the server itself failed.
RegisteredIsReachable ==
    registered /\ ~killed /\ "deregister" \notin gaveUp
        => "http" \in serving \cup serveErr \/ pc["run"] = "deregister"

\* What others see of the instance is true: /ready and the registry announce
\* only what serves, and components start and stop in order.
Inv ==
    /\ TypeOK
    /\ ReadyMeansRunning /\ StartAndStopOrder /\ RegisteredIsReachable
    /\ EnvironmentWins

\* A signal that was received, or a server that failed, makes Run return,
\* although components, requests and the watcher may hang for ever.
ShutdownCompletes ==
    (~killed /\ (quit \/ serveErr # {})) ~> (killed \/ pc["run"] = "exited")
=============================================================================
