---------------------------- MODULE CellLifecycle ----------------------------
(***************************************************************************)
(* The life of the cells' containers under concurrent `cell` commands      *)
(* (internal/engine/docker: run.go, reap.go, proxy_sidecar.go, runner.go;  *)
(* cmd/start.go, cmd/stop.go, cmd/reap.go).                                *)
(*                                                                         *)
(* Commands run as separate processes that share nothing but the docker    *)
(* daemon: every `docker` invocation is one atomic step here, and what a   *)
(* command learnt from one invocation may be stale at its next one.        *)
(***************************************************************************)
EXTENDS FiniteSets

CONSTANTS
    Agents,         \* runs of an agent command: cell claude, cell shell, ...
    Starts,         \* runs of `cell start`
    Stops,          \* runs of `cell stop`
    Reapers,        \* runs of `cell reap`, answered with yes
    Cells,          \* a cell is a container name
    CellOf,         \* the cell each run of Agents, Starts and Stops is for
    ConfigOf,       \* the configuration hash each run of Agents, Starts loaded
    Proxied,        \* the cells whose configuration enables the egress proxy
    Interruptible,  \* the runs the user may kill before they end
    None            \* no configuration, no creator

Launchers == Agents \union Starts
Runs      == Launchers \union Stops \union Reapers

ASSUME CellsAssumption == CellOf \in [Launchers \union Stops -> Cells]
ASSUME ConfigAssumption == /\ None \notin Runs
                           /\ \A s \in Launchers : ConfigOf[s] # None
ASSUME KindsAssumption ==
    /\ Agents \intersect (Starts \union Stops \union Reapers) = {}
    /\ Starts \intersect (Stops \union Reapers) = {}
    /\ Stops \intersect Reapers = {}

VARIABLES
    pc,          \* where each run is
    containers,  \* the daemon's record of each cell's container
    agents,      \* the agent runs whose process lives inside their container
    starters,    \* the agent runs for which Run's alreadyRunning is false
    gateways,    \* the state of each cell's proxy sidecar
    networks,    \* the cells whose internal network exists
    suspects,    \* what a run listed and has still to deal with
    condemned    \* the sidecar a run found orphaned and is about to remove

command == <<starters, suspects, condemned>>
proxies == <<gateways, networks>>
daemon  == <<containers, agents, proxies>>
vars    == <<pc, daemon, command>>

-----------------------------------------------------------------------------
(* The daemon.                                                              *)

Absent == [state |-> "absent", lifecycle |-> "none", config |-> None, by |-> None]

\* ContainerRunning: docker inspect says "running"; a booting container does.
Running(c) == containers[c].state \in {"booting", "up"}

\* ContainerLabel devcell.lifecycle: "none" when there is no container.
Lifecycle(c) == containers[c].lifecycle

Inside(c) == {s \in agents : CellOf[s] = c}

\* docker stop: every process in the container dies with it, and a container
\* that is not running is left as it is.
DockerStop(c) ==
    /\ containers' = IF Running(c)
                     THEN [containers EXCEPT ![c].state = "exited"]
                     ELSE containers
    /\ agents' = agents \ Inside(c)

\* docker rm -f: whatever has the name goes, running or not.
DockerRemove(c) ==
    /\ containers' = [containers EXCEPT ![c] = Absent]
    /\ agents' = agents \ Inside(c)

\* docker rm -f of the sidecar, docker network rm: the network stays while
\* the cell's container is on it.
DropGateway(c) ==
    /\ gateways' = [gateways EXCEPT ![c] = "absent"]
    /\ networks' = IF Running(c) THEN networks ELSE networks \ {c}

Goto(s, l) == pc' = [pc EXCEPT ![s] = l]

ContainerBoots(c) ==
    /\ containers[c].state = "booting"
    /\ containers' = [containers EXCEPT ![c].state = "up"]
    /\ UNCHANGED <<pc, agents, proxies, command>>

ContainerDies(c) ==
    /\ containers[c].state = "booting"
    /\ DockerStop(c)
    /\ UNCHANGED <<pc, proxies, command>>

\* --rm: the daemon removes an exited container in its own time.
AutoRemove(c) ==
    /\ containers[c].state = "exited"
    /\ containers' = [containers EXCEPT ![c] = Absent]
    /\ UNCHANGED <<pc, agents, proxies, command>>

-----------------------------------------------------------------------------
(* Run, group 1: network, sidecar, orphans.                                 *)

BeginAgent(s) ==
    /\ s \in Agents /\ pc[s] = "idle"
    /\ Goto(s, "prepare")
    /\ UNCHANGED <<daemon, command>>

\* `cell start` looks before it calls Run.
BeginStart(s) ==
    /\ s \in Starts /\ pc[s] = "idle"
    /\ Goto(s, IF Running(CellOf[s]) THEN "ended" ELSE "prepare")
    /\ UNCHANGED <<daemon, command>>

EnsureIsolatedNetwork(s) ==
    /\ pc[s] = "prepare"
    /\ IF CellOf[s] \in Proxied
       THEN /\ networks' = networks \union {CellOf[s]}
            /\ Goto(s, "gateway")
       ELSE /\ UNCHANGED networks
            /\ Goto(s, "proxies")
    /\ UNCHANGED <<containers, agents, gateways, command>>

CheckGateway(s) ==
    /\ pc[s] = "gateway"
    /\ Goto(s, IF gateways[CellOf[s]] = "running" THEN "proxies" ELSE "createGateway")
    /\ UNCHANGED <<daemon, command>>

\* docker rm -f of a leftover, docker create, docker cp; when one fails, the
\* sidecar of this name is gone.
CreateGateway(s) ==
    LET c == CellOf[s] IN
    /\ pc[s] = "createGateway"
    /\ \/ gateways' = [gateways EXCEPT ![c] = "created"] /\ Goto(s, "startGateway")
       \/ gateways' = [gateways EXCEPT ![c] = "absent"] /\ Goto(s, "ended")
    /\ UNCHANGED <<containers, agents, networks, command>>

\* docker start, by name; a sidecar that cannot start is removed.
StartGateway(s) ==
    LET c == CellOf[s] IN
    /\ pc[s] = "startGateway"
    /\ IF gateways[c] # "absent" /\ c \in networks
       THEN /\ gateways' = [gateways EXCEPT ![c] = "running"]
            /\ Goto(s, "connectGateway")
       ELSE /\ gateways' = [gateways EXCEPT ![c] = "absent"]
            /\ Goto(s, "ended")
    /\ UNCHANGED <<containers, agents, networks, command>>

\* docker network connect and the wait for port 3128.
ConnectGateway(s) ==
    /\ pc[s] = "connectGateway"
    /\ Goto(s, IF gateways[CellOf[s]] = "running" THEN "proxies" ELSE "ended")
    /\ UNCHANGED <<daemon, command>>

\* CleanupOrphanedProxies: docker ps, then per sidecar an inspect and, when
\* the cell's container is not running, the removal.
ListProxies(s) ==
    /\ pc[s] = "proxies"
    /\ suspects' = [suspects EXCEPT
                      ![s] = {c \in Cells \ {CellOf[s]} : gateways[c] = "running"}]
    /\ Goto(s, "sweep")
    /\ UNCHANGED <<daemon, starters, condemned>>

CheckProxy(s, c) ==
    /\ pc[s] = "sweep" /\ condemned[s] = {} /\ c \in suspects[s]
    /\ suspects'  = [suspects EXCEPT ![s] = @ \ {c}]
    /\ condemned' = [condemned EXCEPT ![s] = IF Running(c) THEN {} ELSE {c}]
    /\ UNCHANGED <<pc, daemon, starters>>

RemoveProxy(s, c) ==
    /\ pc[s] = "sweep" /\ c \in condemned[s]
    /\ condemned' = [condemned EXCEPT ![s] = {}]
    /\ DropGateway(c)
    /\ UNCHANGED <<pc, containers, agents, starters, suspects>>

-----------------------------------------------------------------------------
(* The reaper, and the leftover with the run's own name.                    *)

\* Mutant: the lifecycle label is not looked at.
StaleAny(c) == Inside(c) = {}

\* IsStaleOneshot on docker top: no agent and no shell in the container.
StaleOneshot(c) == Lifecycle(c) = "oneshot" /\ Inside(c) = {}

\* FindStaleCells. While a container boots its entrypoint and services may or
\* may not show a shell in docker top; a booted one runs `sleep infinity`.
ListStale(s, from, others) ==
    /\ pc[s] = from /\ suspects[s] = {} /\ condemned[s] = {}
    /\ \E shells \in SUBSET {c \in others : containers[c].state = "booting"} :
         suspects' = [suspects EXCEPT
                        ![s] = {c \in others \ shells : Running(c) /\ StaleOneshot(c)}]
    /\ Goto(s, "reap")
    /\ UNCHANGED <<daemon, starters, condemned>>

FindStaleCells(s) ==
    \/ s \in Launchers /\ ListStale(s, "sweep", Cells \ {CellOf[s]})
    \/ s \in Reapers   /\ ListStale(s, "idle", Cells)

\* ReapStaleCells: one docker stop per listed container, errors ignored.
ReapStaleCell(s, c) ==
    /\ pc[s] = "reap" /\ c \in suspects[s]
    /\ suspects' = [suspects EXCEPT ![s] = @ \ {c}]
    /\ DockerStop(c)
    /\ UNCHANGED <<pc, proxies, starters, condemned>>

\* All stopped, or the phase's 30 seconds are over.
ReapEnds(s) ==
    /\ pc[s] = "reap"
    /\ suspects' = [suspects EXCEPT ![s] = {}]
    /\ Goto(s, IF s \in Reapers THEN "ended" ELSE "orphan")
    /\ UNCHANGED <<daemon, starters, condemned>>

CheckOrphan(s) ==
    /\ pc[s] = "orphan"
    /\ Goto(s, IF Running(CellOf[s]) THEN "phases" ELSE "inspectOrphan")
    /\ UNCHANGED <<daemon, command>>

\* RemoveOrphanedContainer: inspect, then docker rm -f unless running.
InspectOrphan(s) ==
    /\ pc[s] = "inspectOrphan"
    /\ Goto(s, CASE containers[CellOf[s]].state = "absent" -> "phases"
                 [] Running(CellOf[s])                     -> "ended"
                 [] OTHER                                  -> "removeOrphan")
    /\ UNCHANGED <<daemon, command>>

RemoveOrphan(s) ==
    /\ pc[s] = "removeOrphan"
    /\ DockerRemove(CellOf[s])
    /\ Goto(s, "phases")
    /\ UNCHANGED <<proxies, command>>

\* The nix store, closure, secrets and configuration phases.
Phases(s) ==
    /\ pc[s] = "phases"
    /\ Goto(s, IF s \in Starts THEN "create" ELSE "attach")
    /\ UNCHANGED <<daemon, command>>

\* A phase that fails before the container is started ends Run at once.
PhaseFails(s) ==
    /\ pc[s] \in {"prepare", "createGateway", "connectGateway", "removeOrphan", "phases"}
    /\ Goto(s, "ended")
    /\ UNCHANGED <<daemon, command>>

-----------------------------------------------------------------------------
(* Run, group 3: find, restart or start the container, and wait for it.     *)

CheckAlreadyRunning(s) ==
    /\ pc[s] = "attach"
    /\ IF Running(CellOf[s])
       THEN Goto(s, "drift") /\ UNCHANGED starters
       ELSE Goto(s, "ensure") /\ starters' = starters \union {s}
    /\ UNCHANGED <<daemon, suspects, condemned>>

\* configDrifted reads the config-hash label; no label is no drift.
ConfigDrifted(s) ==
    /\ pc[s] = "drift"
    /\ Goto(s, IF containers[CellOf[s]].config \in {None, ConfigOf[s]}
               THEN "gate" ELSE "restart")
    /\ UNCHANGED <<daemon, command>>

RestartDrifted(s) ==
    /\ pc[s] = "restart"
    /\ DockerStop(CellOf[s])
    /\ starters' = starters \union {s}
    /\ Goto(s, "ensure")
    /\ UNCHANGED <<proxies, suspects, condemned>>

EnsureRunning(s) ==
    /\ pc[s] = "ensure"
    /\ Goto(s, IF Running(CellOf[s]) THEN "boot" ELSE "create")
    /\ UNCHANGED <<daemon, command>>

\* docker run -d creates the container; a name in use is an error.
CreateContainer(s) ==
    LET c == CellOf[s] IN
    /\ pc[s] = "create"
    /\ IF containers[c] = Absent
       THEN /\ containers' = [containers EXCEPT ![c] =
                 [state |-> "created", config |-> ConfigOf[s], by |-> s,
                  lifecycle |-> IF s \in Starts THEN "persistent" ELSE "oneshot"]]
            /\ Goto(s, "launch")
       ELSE /\ UNCHANGED containers
            /\ Goto(s, "ended")
    /\ UNCHANGED <<agents, proxies, command>>

Mine(s) == containers[CellOf[s]].by = s /\ containers[CellOf[s]].state = "created"

\* ... and starts the container it created, by its id.
LaunchContainer(s) ==
    LET c == CellOf[s] IN
    /\ pc[s] = "launch" /\ Mine(s)
    /\ c \in Proxied => c \in networks
    /\ containers' = [containers EXCEPT ![c].state = "booting"]
    /\ Goto(s, IF s \in Starts THEN "ended" ELSE "poll")
    /\ UNCHANGED <<agents, proxies, command>>

LaunchFails(s) ==
    LET c == CellOf[s] IN
    /\ pc[s] = "launch"
    /\ containers' = IF Mine(s) THEN [containers EXCEPT ![c] = Absent] ELSE containers
    /\ Goto(s, "ended")
    /\ UNCHANGED <<agents, proxies, command>>

\* Mutant: the deadline wins over a container that runs by then.
PollRunningLate(s) ==
    /\ pc[s] = "poll"
    /\ \E l \in {"boot", "ended"} : Goto(s, l)
    /\ UNCHANGED <<daemon, command>>

\* ensureRunning polls for ten seconds; Run registers its safety net only
\* after it succeeded.
PollRunning(s) ==
    /\ pc[s] = "poll"
    /\ Goto(s, IF Running(CellOf[s]) THEN "boot" ELSE "ended")
    /\ UNCHANGED <<daemon, command>>

BootReady(s) ==
    /\ pc[s] = "boot"
    /\ containers[CellOf[s]].state = "up"
    /\ Goto(s, "gate")
    /\ UNCHANGED <<daemon, command>>

\* The log stream ended, or ninety seconds passed.
BootFails(s) ==
    /\ pc[s] = "boot"
    /\ Goto(s, "cleanup")
    /\ UNCHANGED <<daemon, command>>

GateOpens(s) ==
    /\ pc[s] = "gate"
    /\ Goto(s, "exec")
    /\ UNCHANGED <<daemon, command>>

\* Mutant: a failed attach skips the safety net.
AttachFailsBare(s) ==
    /\ pc[s] \in {"gate", "exec"}
    /\ Goto(s, "ended")
    /\ UNCHANGED <<daemon, command>>

\* BeforeAttach or the start of docker exec failed; the safety net is
\* registered only when this run did not find the container running.
AttachFails(s) ==
    /\ pc[s] \in {"gate", "exec"}
    /\ Goto(s, IF s \in starters THEN "cleanup" ELSE "ended")
    /\ UNCHANGED <<daemon, command>>

-----------------------------------------------------------------------------
(* Run: the agent, and what follows its exit.                               *)

Exec(s) ==
    /\ pc[s] = "exec"
    /\ IF Running(CellOf[s])
       THEN Goto(s, "agent") /\ agents' = agents \union {s}
       ELSE Goto(s, "left") /\ UNCHANGED agents
    /\ UNCHANGED <<containers, proxies, command>>

\* The user leaves the agent, or the container went away under it.
AgentExits(s) ==
    /\ pc[s] = "agent"
    /\ agents' = agents \ {s}
    /\ Goto(s, "left")
    /\ UNCHANGED <<containers, proxies, command>>

CheckAutoStop(s) ==
    /\ pc[s] = "left"
    /\ Goto(s, IF s \in starters /\ Lifecycle(CellOf[s]) = "oneshot"
               THEN "autoStop" ELSE "checkGone")
    /\ UNCHANGED <<daemon, command>>

AutoStop(s) ==
    /\ pc[s] = "autoStop"
    /\ DockerStop(CellOf[s])
    /\ Goto(s, "checkGone")
    /\ UNCHANGED <<proxies, command>>

CheckGone(s) ==
    /\ pc[s] = "checkGone"
    /\ Goto(s, IF CellOf[s] \in Proxied /\ ~Running(CellOf[s])
               THEN "dropGateway" ELSE "ended")
    /\ UNCHANGED <<daemon, command>>

RemoveGateway(s) ==
    /\ pc[s] = "dropGateway"
    /\ DropGateway(CellOf[s])
    /\ Goto(s, "ended")
    /\ UNCHANGED <<containers, agents, command>>

\* The deferred safety net.
CheckCleanup(s) ==
    /\ pc[s] = "cleanup"
    /\ Goto(s, IF Lifecycle(CellOf[s]) = "oneshot" THEN "cleanupStop" ELSE "ended")
    /\ UNCHANGED <<daemon, command>>

CleanupStop(s) ==
    /\ pc[s] = "cleanupStop"
    /\ DockerStop(CellOf[s])
    /\ Goto(s, "ended")
    /\ UNCHANGED <<proxies, command>>

-----------------------------------------------------------------------------
(* cell stop, and the user's interrupts.                                    *)

BeginStop(s) ==
    /\ s \in Stops /\ pc[s] = "idle"
    /\ Goto(s, IF Running(CellOf[s]) THEN "stop" ELSE "ended")
    /\ UNCHANGED <<daemon, command>>

\* docker stop of a container that is gone is an error.
StopContainer(s) ==
    /\ pc[s] = "stop"
    /\ DockerStop(CellOf[s])
    /\ Goto(s, IF containers[CellOf[s]] = Absent THEN "ended" ELSE "dropGateway")
    /\ UNCHANGED <<proxies, command>>

\* No handler for SIGINT is installed before the agent runs: the process
\* dies without its deferred calls. While the agent runs the signal is its.
Interrupt(s) ==
    /\ s \in Interruptible
    /\ pc[s] \notin {"idle", "agent", "ended", "killed"}
    /\ Goto(s, "killed")
    /\ UNCHANGED <<daemon, command>>
-----------------------------------------------------------------------------
(* The specification.                                                       *)

Init ==
    /\ pc = [s \in Runs |-> "idle"]
    /\ containers = [c \in Cells |-> Absent]
    /\ agents = {}
    /\ starters = {}
    /\ gateways = [c \in Cells |-> "absent"]
    /\ networks = {}
    /\ suspects = [s \in Runs |-> {}]
    /\ condemned = [s \in Runs |-> {}]

Prepare(s) ==
    \/ BeginAgent(s) \/ BeginStart(s)
    \/ EnsureIsolatedNetwork(s) \/ CheckGateway(s)
    \/ CreateGateway(s) \/ StartGateway(s) \/ ConnectGateway(s)
    \/ ListProxies(s) \/ \E c \in Cells : CheckProxy(s, c) \/ RemoveProxy(s, c)

Reap(s) ==
    \/ FindStaleCells(s) \/ ReapEnds(s)
    \/ \E c \in Cells : ReapStaleCell(s, c)
    \/ CheckOrphan(s) \/ InspectOrphan(s) \/ RemoveOrphan(s)
    \/ Phases(s) \/ PhaseFails(s)

Boot(s) ==
    \/ CheckAlreadyRunning(s) \/ ConfigDrifted(s) \/ RestartDrifted(s)
    \/ EnsureRunning(s) \/ CreateContainer(s) \/ LaunchContainer(s) \/ LaunchFails(s)
    \/ PollRunning(s) \/ BootReady(s) \/ BootFails(s)
    \/ GateOpens(s) \/ AttachFails(s)

Attached(s) ==
    \/ Exec(s) \/ AgentExits(s)
    \/ CheckAutoStop(s) \/ AutoStop(s) \/ CheckGone(s) \/ RemoveGateway(s)
    \/ CheckCleanup(s) \/ CleanupStop(s)
    \/ BeginStop(s) \/ StopContainer(s)

RunStep(s) == Prepare(s) \/ Reap(s) \/ Boot(s) \/ Attached(s)

Daemon(c) == ContainerBoots(c) \/ ContainerDies(c) \/ AutoRemove(c)

Next ==
    \/ \E s \in Runs : RunStep(s) \/ Interrupt(s)
    \/ \E c \in Cells : Daemon(c)

Spec == Init /\ [][Next]_vars

\* A command keeps executing, and its user leaves the agent some day. The
\* daemon owes no boot: the ninety seconds of BootFails stand for it.
LiveSpec == Spec /\ \A s \in Runs : WF_vars(RunStep(s))

-----------------------------------------------------------------------------
(* Properties.                                                              *)

Lines == {"idle", "prepare", "gateway", "createGateway", "startGateway",
          "connectGateway", "proxies", "sweep", "reap", "orphan", "inspectOrphan",
          "removeOrphan", "phases", "attach", "drift", "restart", "ensure",
          "create", "launch", "poll", "boot", "gate", "exec", "agent", "left",
          "autoStop", "checkGone", "dropGateway", "cleanup", "cleanupStop",
          "stop", "ended", "killed"}

Container == [state     : {"absent", "created", "booting", "up", "exited"},
              lifecycle : {"none", "oneshot", "persistent"},
              config    : {ConfigOf[s] : s \in Launchers} \union {None},
              by        : Launchers \union {None}]

\* The types of the commands' and the daemon's state.
TypeOK ==
    /\ pc \in [Runs -> Lines]
    /\ containers \in [Cells -> Container]
    /\ agents \subseteq Agents
    /\ starters \subseteq Agents
    /\ gateways \in [Cells -> {"absent", "created", "running"}]
    /\ networks \subseteq Cells
    /\ suspects \in [Runs -> SUBSET Cells]
    /\ condemned \in [Runs -> SUBSET Cells]

\* Where a run that started its container still has a stop ahead of it.
Owing == {"poll", "boot", "gate", "exec", "agent", "left", "autoStop",
          "cleanup", "cleanupStop"}

\* Run's safety net and auto-stop (run.go:641-655, 751-761): a oneshot
\* container that runs always has a run which will stop it -- whatever other
\* commands do to the container in between -- unless that run was killed.
OneshotHasOwner ==
    \A c \in Cells : Running(c) /\ Lifecycle(c) = "oneshot" =>
        \E s \in starters : CellOf[s] = c /\ pc[s] \in Owing \union {"killed"}

\* No command is under way and the container of `cell start` is up.
Settled(c) ==
    /\ \A s \in Runs : pc[s] \in {"idle", "ended", "killed"}
    /\ containers[c].state = "up" /\ Lifecycle(c) = "persistent"

\* ... nor will a `cell stop` or a run with another configuration come.
Undisturbed(c) ==
    /\ Settled(c)
    /\ \A s \in Stops : CellOf[s] = c => pc[s] # "idle"
    /\ \A s \in Launchers : CellOf[s] = c /\ pc[s] = "idle" => ConfigOf[s] = containers[c].config

\* A settled container of `cell start` is left running by every later run, the
\* reaper's included, that loaded the same configuration: they attach to it
\* and leave it (run.go:575-576, cmd/reap.go:22-23).
PersistentStays == \A c \in Cells : [](Undisturbed(c) => []Running(c))

\* Whatever it meets -- a failed boot, a lost container, a name conflict -- a
\* oneshot container that runs is stopped some day, when no run is killed.
OneshotStops ==
    \A c \in Cells : Running(c) /\ Lifecycle(c) = "oneshot"
                       ~> ~(Running(c) /\ Lifecycle(c) = "oneshot")
=============================================================================
