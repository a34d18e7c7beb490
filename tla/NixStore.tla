------------------------------- MODULE NixStore -------------------------------
(***************************************************************************)
(* The shared nix volume of the thin images: who puts closures there, who  *)
(* keeps them there, and who takes them away                               *)
(* (internal/engine/docker: build.go, thin_build.go, cleanup.go, prune.go, *)
(* hygiene.go, nix_health*.go, closure_alive.go; cmd/build_prune.go,       *)
(* cmd/cleanup.go).                                                        *)
(*                                                                         *)
(* A closure is a home-manager profile and a home-manager generation that  *)
(* refers to it.  A build realises the closure of its cell on the volume,  *)
(* pins it with symlinks in gcroots/devcell and bakes it into an image.    *)
(* `cell build prune` collects the closures of the running containers,     *)
(* asks the user, stamps roots for what it collected and runs nix's        *)
(* collector; `cell cleanup` and `--auto-cleanup` collect and then remove  *)
(* the roots that no collected closure is named in.                        *)
(***************************************************************************)
EXTENDS Integers, Sequences, FiniteSets

CONSTANTS Cells,        \* each has one `cell` process at a time
          Commands,     \* prunes and cleanups, each started once
          Profiles, Generations,   \* store paths
          ProfileOf,    \* the profile a generation refers to
          Wants,        \* per cell: the generation its configuration builds
          TagOf,        \* per cell: the tag of its image (stack and modules)
          Tags,
          KindsOf,      \* per command: what the user may have started
          MaxLaunches,  \* bound: commands the user runs on each cell
          None

ASSUME ClosureAssumption ==
    /\ ProfileOf \in [Generations -> Profiles]
    /\ Wants \in [Cells -> Generations]
    /\ TagOf \in [Cells -> Tags]
    /\ Profiles \cap Generations = {}
    /\ None \notin Profiles \cup Generations
Kinds == {"prune", "cleanup", "auto", "force"}
ASSUME BoundAssumption == MaxLaunches \in Nat /\ KindsOf \in [Commands -> SUBSET Kinds]

VARIABLES
    store,      \* the paths on the volume
    roots,      \* gcroots/devcell: links <hash>-<kind> and their targets
    links,      \* per-user/root/profile-*-link of older builds
    tools,      \* whether the devcell-tools profile is on the volume
    daemon,     \* the docker daemon
    images,     \* closures some image was built with
    tag,        \* per tag: the closure of the image it names, or None
    container,  \* per cell: the closure of its running container, or None
    builder,    \* per cell: the step of its builder container
    run,        \* per cell: the `cell` process
    launches,   \* per cell: launches so far
    cmd,        \* per command
    unrooted    \* history: paths that lost a root, with the volume, to a reaper or for
                \* being absent when a sweep looked, and were not stamped since

volume == <<store, roots, links, tools>>
docker == <<daemon, images, tag, container>>
vars == <<volume, docker, builder, run, launches, cmd, unrooted>>

Paths == Profiles \cup Generations
Closure == [profile : Profiles, generation : Generations]
Root == [hash : Paths, kind : {"profile", "generation", "meta"}, target : Paths]
PathsOf(c) == {c.profile, c.generation}
Built(cell) == [profile |-> ProfileOf[Wants[cell]], generation |-> Wants[cell]]

\* The steps of a command: what it does, and how a failure is taken.
Step(do) == [do |-> do, ignore |-> FALSE, dry |-> FALSE]
Tolerated(do) == [Step(do) EXCEPT !.ignore = TRUE]
DryRun(do) == [Step(do) EXCEPT !.dry = TRUE]

NoCommand == [kind |-> "none", at |-> "new", listed |-> {}, seen |-> {},
              failed |-> {}, plan |-> <<>>]
Idle == [at |-> "idle", next |-> "idle", image |-> None]

\* A root protects what its target refers to; a profile link of an older
\* build protects that profile.
Protected == {r.target : r \in {x \in roots : x.kind # "meta"}} \cup links
Reachable == Protected \cup {ProfileOf[g] : g \in Protected \cap Generations}

Init ==
    /\ store \in {Paths, {}} /\ tools = (IF store = {} THEN "no" ELSE "yes")
    /\ roots = {} /\ links \in SUBSET (store \cap Profiles)
    /\ daemon = "up"
    /\ images = (IF store = {} THEN {} ELSE {Built(c) : c \in Cells})
    /\ tag \in [Tags -> images \cup {None}]
    /\ \A t \in Tags : images # {} => \E c \in Cells : TagOf[c] = t /\ Built(c) = tag[t]
    /\ container = [c \in Cells |-> None]
    /\ builder = [c \in Cells |-> "none"]
    /\ run = [c \in Cells |-> Idle]
    /\ launches = [c \in Cells |-> 0]
    /\ cmd = [m \in Commands |-> NoCommand]
    /\ unrooted = {}

-----------------------------------------------------------------------------
(* What nix and docker do.                                                  *)

\* nix-store --gc in a container that mounts the volume. The roots under
\* auto/ lead into the containers that made them and resolve in no other.
CollectGarbage == store' = store \cap Reachable

\* docker volume rm -f: refused while a container uses the volume.
VolumeUsed == \/ \E c \in Cells : container[c] # None
              \/ \E c \in Cells : builder[c] \notin {"none", "exited"}
RemoveVolume ==
    IF VolumeUsed THEN UNCHANGED <<volume, unrooted>>
    ELSE /\ store' = {} /\ roots' = {} /\ links' = {} /\ tools' = "no"
         /\ unrooted' = Paths

Hydrated == tools = "yes"

\* docker image prune -af: images that no container was started from.
PruneImages ==
    /\ images' = {i \in images : \E c \in Cells : container[c] = i}
    /\ tag' = [t \in Tags |-> IF tag[t] \in images' THEN tag[t] ELSE None]

\* ln -sfT: the link of that name, whatever it led to.
Links(new) == {r \in roots : \A n \in new : r.hash # n.hash \/ r.kind # n.kind} \cup new

-----------------------------------------------------------------------------
(* A build: build.go, and the script of thin_build.go in its container.     *)

\* What a pre-existing builder of this name means (ReclaimBuilderSlot).
ReclaimBuilderSlot(state) ==
    CASE state = "none" -> "free" [] state = "exited" -> "remove" [] OTHER -> "refuse"

EndRun(c) == run' = [run EXCEPT ![c] = Idle]
Goto(c, at) == run' = [run EXCEPT ![c].at = at]
BuildThen(c, next) == run' = [run EXCEPT ![c].at = "prepare", ![c].next = next]

\* `cell build`, with --update the volume is recreated first.
Build(c) ==
    /\ run[c].at = "idle" /\ launches[c] < MaxLaunches /\ daemon = "up"
    /\ launches' = [launches EXCEPT ![c] = @ + 1]
    /\ BuildThen(c, "idle")
    /\ UNCHANGED <<volume, docker, builder, cmd, unrooted>>

BuildUpdate(c) ==
    /\ run[c].at = "idle" /\ launches[c] < MaxLaunches /\ daemon = "up"
    /\ launches' = [launches EXCEPT ![c] = @ + 1]
    /\ RemoveVolume
    /\ run' = [run EXCEPT ![c].at = "shell", ![c].next = "idle"]
    /\ UNCHANGED <<docker, builder, cmd>>

\* An empty volume is filled from the cache image. A pull that fails midway
\* removes the volume, for docker to populate it anew.
HydrateNixCache(c) ==
    /\ run[c].at = "prepare" /\ Goto(c, "shell")
    /\ \/ UNCHANGED <<volume, unrooted>>
       \/ /\ ~Hydrated /\ tools' = "yes" /\ UNCHANGED <<store, roots, links, unrooted>>
       \/ /\ ~Hydrated /\ RemoveVolume
    /\ UNCHANGED <<docker, builder, launches, cmd>>

\* EnsureVolumeShell: a changed core image invalidates devcell-tools.
EnsureVolumeShell(c) ==
    /\ run[c].at = "shell" /\ Goto(c, "slot")
    /\ \/ UNCHANGED tools
       \/ tools' = "no"
    /\ UNCHANGED <<store, roots, links, docker, builder, launches, cmd, unrooted>>

\* The slot is this cell's own; docker run starts the builder.
StartBuilder(c) ==
    /\ run[c].at = "slot" /\ daemon = "up"
    /\ IF ReclaimBuilderSlot(builder[c]) = "refuse"
       THEN EndRun(c) /\ UNCHANGED builder
       ELSE /\ Goto(c, "building")
            /\ builder' = [builder EXCEPT ![c] = "switch"]
    /\ UNCHANGED <<volume, docker, launches, cmd, unrooted>>

\* devcell-tools, then home-manager switch: the closure is realised. The
\* roots nix makes for it are the container's own.
Switch(c) ==
    /\ builder[c] = "switch"
    /\ store' = store \cup PathsOf(Built(c))
    /\ tools' = "yes"
    /\ builder' = [builder EXCEPT ![c] = "pin"]
    /\ UNCHANGED <<roots, links, docker, run, launches, cmd, unrooted>>

\* The profile to pin: the one just switched to, or, once that is gone, the
\* profile of an older build.
ResolveProfile(c) ==
    IF Built(c).profile \in store THEN {Built(c).profile} ELSE links \cap store

\* Both links are named by the profile's hash.
Pin(c) ==
    /\ builder[c] = "pin"
    /\ \E p \in ResolveProfile(c) :
         LET g == Wants[c]
             new == {[hash |-> p, kind |-> "profile", target |-> p],
                     [hash |-> p, kind |-> "meta", target |-> p]}
                    \cup (IF g \in store
                          THEN {[hash |-> p, kind |-> "generation", target |-> g]} ELSE {})
         IN /\ roots' = Links(new)
            /\ builder' = [builder EXCEPT ![c] = "image"]
            /\ run' = [run EXCEPT ![c].image = [profile |-> p, generation |-> g]]
    /\ UNCHANGED <<store, links, tools, docker, launches, cmd, unrooted>>

\* No profile to resolve, or anything else in the script fails. A container
\* run with --rm leaves its name behind when the daemon dies under it.
BuilderFails(c) ==
    /\ builder[c] \in {"switch", "pin", "image"}
    /\ \/ builder' = [builder EXCEPT ![c] = "none"]
       \/ builder' = [builder EXCEPT ![c] = "exited"]
    /\ IF run[c].at = "building" THEN EndRun(c) ELSE UNCHANGED run
    /\ UNCHANGED <<volume, docker, launches, cmd, unrooted>>

\* docker build through the socket: the image's tag moves.
BakeImage(c) ==
    /\ builder[c] = "image" /\ daemon = "up"
    /\ run[c].image # None
    /\ images' = images \cup {run[c].image}
    /\ tag' = [tag EXCEPT ![TagOf[c]] = run[c].image]
    /\ builder' = [builder EXCEPT ![c] = "none"]
    /\ IF run[c].at = "building"
       THEN run' = [run EXCEPT ![c] = [Idle EXCEPT !.at = run[c].next]]
       ELSE run' = [run EXCEPT ![c].image = None]
    /\ UNCHANGED <<volume, daemon, container, launches, cmd, unrooted>>

\* Ctrl-C: the docker client dies, and the builder is removed by name.
Interrupt(c) ==
    /\ run[c].at = "building"
    /\ EndRun(c)
    /\ builder' = [builder EXCEPT ![c] = "none"]
    /\ UNCHANGED <<volume, docker, launches, cmd, unrooted>>

-----------------------------------------------------------------------------
(* A run of an agent: Engine.Run up to the container.                       *)

Launch(c) ==
    /\ run[c].at = "idle" /\ launches[c] < MaxLaunches /\ builder[c] # "image"
    /\ daemon = "up"                       \* DockerDaemonReachable
    /\ launches' = [launches EXCEPT ![c] = @ + 1]
    /\ run' = [run EXCEPT ![c] = [Idle EXCEPT !.at = "gate"]]
    /\ UNCHANGED <<volume, docker, builder, cmd, unrooted>>

\* The auto-build gate: no image, or a volume without the entrypoint.
Gate(c) ==
    /\ run[c].at = "gate"
    /\ IF tag[TagOf[c]] = None \/ ~Hydrated
       THEN BuildThen(c, "phase") ELSE Goto(c, "phase")
    /\ UNCHANGED <<volume, docker, builder, launches, cmd, unrooted>>

Dangling(r) == r.kind # "meta" /\ r.target \notin store

\* Both scripts drop every link named by the hash of a dangling one, and the
\* metadata without a profile link.
WithoutStale ==
    LET stale == {r.hash : r \in {x \in roots : Dangling(x)}}
        kept == {r \in roots : r.hash \notin stale}
    IN {r \in kept : r.kind = "meta" =>
                       \E x \in kept : x.hash = r.hash /\ x.kind = "profile"}

\* The "Nix store" phase: the probe, and hygiene when it saw stale roots.
\* Whatever fails, the phase goes on; the nudge about an older nixpkgs may
\* be answered with an abort.
NixStorePhase(c) ==
    /\ run[c].at = "phase"
    /\ \/ roots' = WithoutStale /\ unrooted' = unrooted \cup (Paths \ store)
       \/ UNCHANGED <<roots, unrooted>>
    /\ \/ Goto(c, "check")
       \/ EndRun(c)
    /\ UNCHANGED <<store, links, tools, docker, builder, launches, cmd>>

\* The probe runs in the image and looks at the profile.
ClosureAlive(i) == i # None /\ i.profile \in store

ClosureCheck(c) ==
    /\ run[c].at = "check"
    /\ \/ /\ ClosureAlive(tag[TagOf[c]]) /\ Goto(c, "start")
       \/ /\ ~ClosureAlive(tag[TagOf[c]]) /\ BuildThen(c, "start")
       \/ /\ ~ClosureAlive(tag[TagOf[c]]) /\ EndRun(c)
    /\ UNCHANGED <<volume, docker, builder, launches, cmd, unrooted>>

\* The image's id is looked up, then docker run is given the id.
PinImage(c) ==
    /\ run[c].at = "start"
    /\ run' = [run EXCEPT ![c].at = "docker run", ![c].image = tag[TagOf[c]]]
    /\ UNCHANGED <<volume, docker, builder, launches, cmd, unrooted>>

\* The entrypoint is on the volume; a container that runs is attached to.
StartContainer(c) ==
    /\ run[c].at = "docker run"
    /\ EndRun(c)
    /\ IF container[c] = None /\ daemon = "up" /\ Hydrated /\ run[c].image \in images
       THEN container' = [container EXCEPT ![c] = run[c].image]
       ELSE UNCHANGED container
    /\ UNCHANGED <<volume, daemon, images, tag, builder, launches, cmd, unrooted>>

StopContainer(c) ==
    /\ container[c] # None
    /\ container' = [container EXCEPT ![c] = None]
    /\ UNCHANGED <<volume, daemon, images, tag, builder, run, launches, cmd, unrooted>>

-----------------------------------------------------------------------------
(* `cell build prune`, `cell cleanup`, --auto-cleanup.                      *)

\* BuildDockerPruneSteps. The three force plans differ in where docker lives;
\* stopped containers, loose volumes and the build cache are one step.
DockerPruneSteps(force) ==
    IF force
    THEN <<Step("stop daemon"), Step("wipe data"), Step("start daemon")>>
    ELSE <<Step("prune images"), Step("prune rest")>>

\* BuildNixPruneSteps. The collector's script is two steps: links, then gc;
\* the report before it changes nothing.
NixPruneSteps(force, goos, seen) ==
    IF ~force
    THEN (IF seen = {} THEN <<>> ELSE <<Step("stamp")>>)
         \o <<Step("sweep"), Step("gc"), Tolerated("registry")>>
    ELSE IF goos = "darwin"
    THEN <<DryRun("builder vm"), Tolerated("registry")>>
    ELSE <<Step("host gc"), Tolerated("registry")>>

PrunePlan(kind, goos, seen) ==
    DockerPruneSteps(kind = "force") \o NixPruneSteps(kind = "force", goos, seen)

Set(m, fields) == cmd' = [cmd EXCEPT ![m] = fields]
Finish(m) == Set(m, [NoCommand EXCEPT !.kind = cmd[m].kind, !.at = "done"])

\* docker ps. --force looks at no container.
ListRunning(m) ==
    /\ cmd[m].at = "new"
    /\ \E kind \in KindsOf[m] :
         LET started == [NoCommand EXCEPT !.kind = kind]
         IN IF kind = "force" THEN Set(m, [started EXCEPT !.at = "confirm"])
            ELSE IF daemon = "down" THEN Set(m, [started EXCEPT !.at = "done"])
            ELSE Set(m, [started EXCEPT !.at = "listed",
                                        !.listed = {c \in Cells : container[c] # None}])
    /\ UNCHANGED <<volume, docker, builder, run, launches, unrooted>>

\* CollectLiveClosures: two docker exec in each container, either may fail.
\* With failures the user is asked to stop those containers; --auto-cleanup
\* passes them over.
CollectLiveClosures(m) ==
    /\ cmd[m].at = "listed"
    /\ \E failed \in SUBSET cmd[m].listed :
         /\ {c \in cmd[m].listed : container[c] = None} \subseteq failed
         /\ Set(m, [cmd[m] EXCEPT
              !.seen = {container[c] : c \in cmd[m].listed \ failed},
              !.failed = failed,
              !.at = IF cmd[m].kind = "auto" THEN "reap"
                     ELSE IF failed # {} THEN "broken" ELSE "confirm"])
    /\ UNCHANGED <<volume, docker, builder, run, launches, unrooted>>

\* ConfirmDestructive: --yes, else a terminal and the answer yes.
ConfirmDestructive(yes, tty, answer) == yes \/ (tty /\ answer)

\* The answer to stopping the containers that failed. docker stop may fail,
\* and nobody looks.
StopBroken(m) ==
    /\ cmd[m].at = "broken"
    /\ \E yes, tty, answer \in BOOLEAN :
         IF ConfirmDestructive(yes, tty, answer)
         THEN \E stopped \in SUBSET cmd[m].failed :
                /\ container' = [c \in Cells |-> IF c \in stopped THEN None ELSE container[c]]
                /\ Set(m, [cmd[m] EXCEPT !.at = "confirm"])
         ELSE Finish(m) /\ UNCHANGED container
    /\ UNCHANGED <<volume, daemon, images, tag, builder, run, launches, unrooted>>

\* The prompt, for as long as the user likes; then the plan.
Confirm(m, goos) ==
    /\ cmd[m].at = "confirm"
    /\ \E yes, tty, answer \in BOOLEAN :
         IF ~ConfirmDestructive(yes, tty, answer) THEN Finish(m)
         ELSE IF cmd[m].kind = "cleanup" THEN Set(m, [cmd[m] EXCEPT !.at = "reap"])
         ELSE Set(m, [cmd[m] EXCEPT !.at = "exec",
                        !.plan = PrunePlan(cmd[m].kind, goos, cmd[m].seen)])
    /\ UNCHANGED <<volume, docker, builder, run, launches, unrooted>>

LiveHashes(closures) == UNION {PathsOf(c) : c \in closures}

\* BuildCleanupScript: every link whose hash is not live.
Reap(m) ==
    /\ cmd[m].at = "reap" /\ Finish(m)
    /\ roots' = {r \in roots : r.hash \in LiveHashes(cmd[m].seen)}
    /\ unrooted' = unrooted \cup {r.target : r \in roots \ roots'}
    /\ UNCHANGED <<store, links, tools, docker, builder, run, launches>>

\* Mutant: the profile only.
StampedProfile(c) == {[hash |-> c.profile, kind |-> "profile", target |-> c.profile]}

\* StampRootsScript: each path under its own hash.
Stamped(c) == {[hash |-> c.profile, kind |-> "profile", target |-> c.profile],
               [hash |-> c.generation, kind |-> "generation", target |-> c.generation]}

Stamp(closures) ==
    /\ roots' = Links(UNION {Stamped(c) : c \in closures})
    /\ unrooted' = unrooted \ LiveHashes(closures)
    /\ UNCHANGED <<store, links, tools>>

\* SafeNixGCScript before the collector: stale roots, orphaned metadata, and
\* the profile links no root leads to. Without a project root it stops.
SweepLinks ==
    /\ roots' = WithoutStale
    /\ LET live == {r.target : r \in {x \in roots : x.kind # "meta" /\ ~Dangling(x)}}
       IN links' = IF live = {} THEN links ELSE links \cap live
    /\ unrooted' = unrooted \cup (Paths \ store)
    /\ UNCHANGED <<store, tools>>

NothingProtected == \A r \in roots : r.kind = "meta" \/ Dangling(r)

\* The effect of a step that is carried out.
Effect(m, do) ==
    CASE do = "prune images" -> PruneImages /\ UNCHANGED <<volume, daemon, container, unrooted>>
      [] do = "stamp" -> Stamp(cmd[m].seen) /\ UNCHANGED docker
      [] do = "sweep" -> SweepLinks /\ UNCHANGED docker
      [] do = "gc" -> /\ CollectGarbage
                      /\ UNCHANGED <<roots, links, tools, docker, unrooted>>
      [] do = "stop daemon" -> /\ daemon' = "down"
                               /\ container' = [c \in Cells |-> None]
                               /\ UNCHANGED <<volume, images, tag, unrooted>>
      [] do = "wipe data" -> /\ images' = {} /\ tag' = [t \in Tags |-> None]
                             /\ store' = {} /\ roots' = {} /\ links' = {} /\ tools' = "no"
                             /\ unrooted' = Paths
                             /\ UNCHANGED <<daemon, container>>
      [] do = "start daemon" -> /\ daemon' = "up"
                                /\ UNCHANGED <<volume, images, tag, container, unrooted>>
      [] OTHER -> UNCHANGED <<volume, docker, unrooted>>

\* The steps that are docker commands.
UsesDocker(do) == do \in {"prune images", "prune rest", "stamp", "sweep", "gc"}

\* What is left once a step was carried out.
Rest(m) ==
    LET plan == cmd[m].plan
    IN IF plan[1].do = "sweep" /\ NothingProtected
       THEN SubSeq(plan, 3, Len(plan)) ELSE Tail(plan)

\* Mutant: the command goes on without a step.
ContinueEmpty(m, plan) == Set(m, [cmd[m] EXCEPT !.plan = plan])

Continue(m, plan) ==
    IF plan = <<>> THEN Finish(m) ELSE Set(m, [cmd[m] EXCEPT !.plan = plan])

\* RunPrune's loop. A dry-run step is printed only.
StepDone(m) ==
    /\ cmd[m].at = "exec"
    /\ LET step == cmd[m].plan[1]
       IN IF step.dry THEN UNCHANGED <<volume, docker, builder, unrooted>>
          ELSE /\ UsesDocker(step.do) => daemon = "up"
               /\ Effect(m, step.do)
               /\ builder' = IF step.do = "stop daemon"
                             THEN [c \in Cells |-> IF builder[c] = "none" THEN "none" ELSE "exited"]
                             ELSE IF step.do = "wipe data" THEN [c \in Cells |-> "none"]
                             ELSE builder
    /\ Continue(m, Rest(m))
    /\ run' = [c \in Cells |-> IF builder'[c] # builder[c] THEN Idle ELSE run[c]]
    /\ UNCHANGED launches

\* A step that fails ends the command, unless its failure is tolerated.
StepFails(m) ==
    /\ cmd[m].at = "exec" /\ ~cmd[m].plan[1].dry
    /\ IF cmd[m].plan[1].ignore THEN Continue(m, Tail(cmd[m].plan)) ELSE Finish(m)
    /\ UNCHANGED <<volume, docker, builder, run, launches, unrooted>>

-----------------------------------------------------------------------------
CellStep(c) ==
    \/ Build(c) \/ BuildUpdate(c) \/ HydrateNixCache(c) \/ EnsureVolumeShell(c)
    \/ StartBuilder(c) \/ Switch(c) \/ Pin(c) \/ BuilderFails(c) \/ BakeImage(c)
    \/ Interrupt(c) \/ Launch(c) \/ Gate(c) \/ NixStorePhase(c) \/ ClosureCheck(c)
    \/ PinImage(c) \/ StartContainer(c) \/ StopContainer(c)

CommandStep(m) ==
    \/ ListRunning(m) \/ CollectLiveClosures(m) \/ StopBroken(m)
    \/ \E goos \in {"darwin", "linux"} : Confirm(m, goos)
    \/ Reap(m) \/ StepDone(m) \/ StepFails(m)

Next == (\E c \in Cells : CellStep(c)) \/ (\E m \in Commands : CommandStep(m))

Spec == Init /\ [][Next]_vars

-----------------------------------------------------------------------------
(* Properties.                                                              *)

Image == Closure \cup {None}
RunAt == {"idle", "prepare", "shell", "slot", "building", "gate", "phase", "check",
          "start", "docker run"}
CommandAt == {"new", "listed", "broken", "confirm", "exec", "reap", "done"}

\* The types; and a command that executes has a step left.
TypeOK ==
    /\ store \subseteq Paths /\ roots \subseteq Root /\ links \subseteq Profiles
    /\ tools \in {"yes", "no"} /\ daemon \in {"up", "down"}
    /\ images \subseteq Closure
    /\ tag \in [Tags -> Image] /\ \A t \in Tags : tag[t] \in images \cup {None}
    /\ container \in [Cells -> Image]
    /\ builder \in [Cells -> {"none", "switch", "pin", "image", "exited"}]
    /\ run \in [Cells -> [at : RunAt, next : {"idle", "phase", "start"}, image : Image]]
    /\ launches \in [Cells -> 0..MaxLaunches]
    /\ \A m \in Commands :
         /\ cmd[m].at \in CommandAt
         /\ cmd[m].kind \in Kinds \cup {"none"}
         /\ cmd[m].seen \subseteq Closure
         /\ cmd[m].failed \subseteq cmd[m].listed /\ cmd[m].listed \subseteq Cells
         /\ cmd[m].at = "exec" <=> cmd[m].plan # <<>>
    /\ unrooted \subseteq Paths

Collects(m) ==
    /\ cmd[m].at = "exec" /\ cmd[m].plan[1].do = "gc"
    /\ cmd'[m] # cmd[m] /\ store' # store

\* "Every closure reachable from a running cell is rooted BEFORE gc runs"
\* (prune.go:144): a prune takes no path of a running container's closure
\* that it collected, unless that path lost its root in the meantime: to a
\* reaper, with a volume that was recreated, or for being absent already when a
\* sweep looked.
KeepsCollected ==
    [][\A m \in Commands, c \in Cells :
         Collects(m) /\ container[c] \in cmd[m].seen
           => PathsOf(container[c]) \cap (store \ store') \subseteq unrooted]_vars

\* "Running containers and their nix closures are always protected"
\* (cmd/build_prune.go:21): a prune takes no path of a running closure.
RunningProtected ==
    [][\A m \in Commands, c \in Cells :
         Collects(m) /\ container[c] # None
           => PathsOf(container[c]) \cap (store \ store') = {}]_vars
================================================================================
