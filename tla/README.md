# Verification of devcell

devcell runs coding agents inside cells: docker containers (or virtual
machines) that hold the agent, its tools and a desktop.  `cell <agent>` boots
the cell of the current project, attaches the agent to the terminal and, when
the agent exits, stops the cell again; `cell start`, `cell stop`, `cell reap`
manage cells by hand; `cell cage` puts a boot panel over the terminal while a
cell boots; `cell serve` offers the agents over an HTTP API.

This directory holds TLA+ modules of the parts of that program whose
correctness depends on the order in which things happen, TLC configurations
that check them on small instances, and proofs that TLAPS checks for all
instances.  `PROJECT.json` maps every definition to the lines it models and
lists the hazards each property is about.

    tlc -config BootPopup.cfg BootPopup      # a run; see the table of runs
    tlapm BootPopupProofs.tla                # a proof


## 1. Inventory

For every part: the state it keeps, its operations, whom it meets, what is
hard about it, and what makes it correct.

**Boot popup of the cage** (`internal/cage/popup.go`, `bootui.go`,
`internal/ux/bootview.go`).  State: the display mode (undecided, popup,
inline, skipped), where stdio points, the event log of the boot panel and its
sink, two channels (`ackDone`, `clientDone`), a unix listener, and three other
processes: tmux's display-popup client, boot-ui inside the popup, and the
user.  Operations: start the popup, bind the panel, emit events, the gate
before the agent is attached, finish.  Hard: five goroutines and four timers
race for one terminal; each of the other processes may die or fall silent at
any point.  Correct when there is one writer on the terminal, the agent is
attached only to a free terminal of a cell that booted, a failure is read by
the user before the window closes, and nothing waits for ever.

**Container log watcher** (`internal/engine/docker/container_log_watcher.go`,
`boot_panel.go`).  State: a `docker logs --follow` subprocess, a reader
goroutine, a channel of 64 events, a consumer, and the engine that waits for
it or for 90 s.  Hard: who is left to drain the channel when someone stops
reading, and a line too long for the scanner.  Correct when a boot is reported
interrupted only where the log, or what can be read of it, ended, and `Close`
returns.

**Container lifecycle** (`internal/engine/docker/run.go`, `runner.go`,
`reap.go`, `proxy_sidecar.go`; `cmd/start.go`, `cmd/stop.go`, `cmd/reap.go`).
State: everything lives in the docker daemon (containers with labels, exec
sessions, sidecars, networks); each command is a process of its own that holds
only what it inspected.  Operations: attach to or create the cell's container,
restart it on configuration drift, sweep orphaned sidecars, reap stale cells,
auto-stop.  Hard: there is no lock; every decision is an inspect followed by an
action, with the commands of other terminals in between; a run may be killed
between any two steps.  Correct when a oneshot container never outlives
everybody who would stop it, a `cell start` container is left alone, and what
one run prepared is not taken away by another.

**Background responses of `cell serve`** (`internal/serve/jobs.go`,
`responses.go`, `responses_get.go`, `server.go`).  State: a map of jobs under
a mutex, one goroutine per job, a sweeper.  Hard: replies are written from a
copy and travel, cancel races completion, eviction races polling.  Correct when
the outcome a client heard is final, the same for all clients, and dropped in
the end.

**Streamed answers of `cell serve`** (`internal/serve/exec_stream.go`,
`claude_stream.go`, `sse_chat.go`, `sse_responses.go`).  State: a subprocess,
a scanner and a wrapper goroutine, two channels of 16 events, a pump that
writes server-sent events.  Hard: bounded channels whose reader may leave, a
subprocess that may fail half-way or be killed.  Correct when deltas arrive in
order and complete, a failure is never shown as success, and the subprocess is
reaped.

**Requests of `cell serve`** (`handler.go`, `responses.go`, `exec.go`,
`models.go`, `auth.go`).  State: none between requests, but for the jobs.
Operations: check a request, choose the agent by the model's prefix, build its
command line, and answer in one of three ways: buffered, streamed, in the
background.  Hard: the rule of what an answer is exists three times, and the
table of the agents twice.  Correct when the three ways agree, and whatever
`/v1/models` lists is answered.

**Interactive agent session of `cell serve`** (`internal/serve/pty_exec.go`,
`internal/ptyctl`).  State: one pseudo-terminal and one agent shared by all
requests under a mutex; an answer is what the screen shows once it has been
stable for two seconds.  Hard: an answer that arrives after its request timed
out, an agent that dies between requests, `Close` behind a five minute
request, a terminal of 500 rows that forgets the others.  Correct when an answer
is its request's own, as far as a screen can tell.

**Nix store** (`internal/engine/docker`: `build.go`, `thin_build.go`,
`cleanup.go`, `prune.go`, `closure_alive.go`, `hygiene.go`, `nix_health*.go`;
`cmd/build_prune.go`, `cmd/cleanup.go`).  State: one docker volume with a nix
store for all cells; links in `gcroots/devcell` and the profile links of older
builds that keep closures alive; images with a closure's path baked in; running
containers that use them.  Operations: build (hydrate, switch, pin, bake), run
(gate, store phase, closure check, start), prune, cleanup.  Hard: nothing in
docker holds a closure; a command collects what runs, asks the user, and acts
on what it collected minutes ago.  Correct when a collector takes nothing that
a running cell uses, and a cleanup removes no root that is needed.

**Configuration** (`internal/cfg`, `internal/config`).  State: three TOML files
edited at any time, the hash of the configuration a container was created
with, the lists a gateway was started with.  Operations: load and merge the
layers, decide about drift, validate, migrate old files.  Hard: each field has
its own way of merging; absent, empty and set are three things.  Correct when
a project cannot widen the network, what was asked for and no more is there,
and a running cell has what its files say.

**Command line and docker's arguments** (`cmd/root.go`, agents' commands;
`runner.go`).  No state: the words are read by three functions and the
container is described by hundreds of lines of rules.  Correct when the
functions agree about every word, and no combination of rules goes round the
proxy or hides the home.

**Files of a project** (`internal/scaffold`, `docker/init.go`, `build.go`,
`thin_context.go`).  State: `devcell.toml` in the project, and under `.devcell`
a copy of nixhome, `flake.nix` and `flake.lock`.  Operations: `cell init`, the
scaffold of an agent's first run, the sync and the overlay of every build.
Hard: the copy is removed and written entry by entry and may be cut off
anywhere; some failures are ignored, others end the command; commands share the
directory without a lock.  Correct when a build sends what it was asked for
whatever was left behind, and a lock never pins another nixhome than the one
beside it.

**macOS virtual machines** (`internal/engine/tart`).  State: VMs as files with
names, shared by every command of the host; one disk image with the nix store
of all of them; a marker in each template.  Operations: build a base template
or a stack's, clone an instance per cell, boot it unless it runs, stop it if
this session booted it.  Hard: builds fail or are interrupted anywhere and
leave VMs under fixed names; two of them work in the same one.  Correct when a
template that exists is complete and an instance that runs has a session that owns it.

**Windows virtual machines** (`internal/engine/winkit`).  State: cached
installer media, one image per stack, a record per VM in its cell's directory,
one fixed port.  Operations: download, install, run, `cell start`, `cell stop`
with its escalation.  Hard: records outlive their VMs and are removed by name;
media come in two kinds with one cache.  Correct when no VM runs that nobody
knows of, and no image is installed from the wrong medium.

**Disk usage reports** (`df.go`, `df_collect.go`): read docker's listing, rank,
filter, cap, add up, advise.  Correct when the shown rows are the largest of
the kinds asked for and the totals are the sums of what is there.

The remaining parts (panels, session files, model catalogues, viewers,
telemetry, the nix and s6 generators) turn an input into an output and keep no
state anybody decides by; `PROJECT.json` lists each with its reason.

How the parts meet: `Run` of the docker engine is the spine.  It loads the
configuration (`ConfigLayers`), passes the store's gates (`NixStore`), builds
docker's arguments (`RunArgs`), drives the popup (`BootPopup`), owns the log
watcher (`BootLog`) and performs the lifecycle's docker calls
(`CellLifecycle`).  Each of these modules abstracts its neighbours to what they
hand over: `CellLifecycle` a boot to "ready or not", `BootPopup` the watcher to
its consumer's verdict, `NixStore` a run to its closure's way from the gate to
the container, `ConfigLayers` the container to the configuration it was created
with.  The virtual machines replace the docker engine and meet none of them;
`cell serve` runs inside a cell and shares nothing with them.


## 2. Modules

| module | models | atomic step |
|---|---|---|
| `BootGate` | abstract: what the popup promises about terminal, verdict and agent | |
| `BootPopup` | the popup protocol, implements `BootGate` | a goroutine's step between two blocking points |
| `BootLog` | log watcher, its consumer, and the engine's wait | one channel or pipe operation |
| `CellLifecycle` | all cell commands against one docker daemon | one `docker` invocation |
| `NixStore` | builds, runs, prunes and cleanups on the nix volume | one `docker` invocation, or one step of a script in a container |
| `NetworkPolicy` | merge of `[network]`, presets, what squid's lists let through | (operators) |
| `ConfigLayers` | the files, their merge, drift, the cell and its gateway | one file read, one decision of a command |
| `Migrate` | `cell config migrate` on the contents of `ConfigLayers` | (operators) |
| `CommandLine` | flags of cell and agent, engine and guest, providers, prompts | (operators) |
| `RunArgs` | docker run's network, mounts, devices, capabilities, ports, variables | (operators) |
| `BuildLimits` | ceilings of a build and nix's parallelism | (operators) |
| `ServeRequests` | a request to `cell serve` from the key to the answer | (operators) |
| `DiskUsage` | `cell build df` | (operators) |
| `Rules` | the six modules above and what they promise, of any inputs | one function applied to one input |
| `JobStore` | background responses, their clients, sweeper | one critical section, or one message |
| `StreamPipe` | one streamed answer | one channel or pipe operation |
| `PtySession` | the shared interactive agent | one terminal operation under the mutex |
| `ProjectFiles` | `devcell.toml` and `.devcell` of one project, and the commands that write them | one file or directory removed or written |
| `TartVM` | macOS templates, instances and sessions | one `tart` command, one provisioning script |
| `WinkitVM` | Windows media, image, VMs and their records | one call of winkit, one signal |
| `MC...` | instances for TLC | |
| `BootPopupProofs`, `CellLifecycleProofs`, `StreamPipeProofs`, `NixStoreProofs` | theorems about the module of that name | |
| `RulesProofs` | theorems about `Rules`: eight of its nine properties | |
| `ServeProofs` | theorems about `JobStore` and `PtySession` | |
| `ProjectProofs` | theorems about `ConfigLayers` and `ProjectFiles` | |
| `MachineProofs` | theorems about `BootLog`, `TartVM` and `WinkitVM` | |

**BootPopup.**  `pc` is the main goroutine of the window process, with the
steps of `StartPopup` (`redirect`, `spawn`, ...), the boot (`phases`,
`waitBoot`), `BeforeAttach` (`gate`, `ackWait`, `clientWait`, `killWait`,
`gateClose`), the agent and `Finish`.  The goroutines are `binder`
(`NewBootView`), the accept and ack loops, `ReapClient` and the consumer.
`events` is the panel's log with four kinds of event; their texts are left
out.  A timer is an action that may fire as soon as it is armed, so all
orders of a timer and what it races with are explored.

**BootLog.**  Lines of the log are events, `ready` or `long`: one that is longer
than the scanner's 64 KiB and ends its work (`ScanTooLong`); the reader then waits
for docker logs, which goes on.  Lines that are no JSON event are skipped by the
reader without a trace and left out.  docker logs may fail to start (`LogInit`),
which closes the channel at once.

**CellLifecycle.**  A run of a command is an element of `Agents`, `Starts`,
`Stops` or `Reapers`; `pc[s]` names the next docker call.  `containers`,
`gateways` and `networks` are the daemon's record; `agents` are the processes
inside containers, which die with them.  `suspects` and `condemned` are lists
a run took and will act upon: that they are state, and not recomputed, is the
point of the model.  `starters` are the runs for which `alreadyRunning` is
false.  Phases of `Run` that touch no cell are one step that may fail; inspects
answer truthfully.

**NixStore.**  A closure is a profile and a generation that refers to it; two
generations may share a profile, which is what tells the roots' two kinds
apart.  `roots` are the links `<hash>-<kind>` of `gcroots/devcell`, written with
`ln -sfT` (`Links`); `links` the profile links of older builds; `Reachable` is
what nix's collector keeps.  `run[c]` walks a cell's one `cell` process through
the gate, the store phase, the build and docker run; `builder[c]` is its builder
container, which is another process: Ctrl-C, and a daemon that is stopped, hit
the two differently.  `cmd[m]` is a prune or cleanup: `listed` (docker ps),
`seen` (the closures of those that answered docker exec), the prompt, then
`plan`, the list of steps that `RunPrune` walks, each of which may fail.
`unrooted` is a history variable for the property `KeepsCollected` and guards
nothing.

**ConfigLayers.**  A file's content has one field per way of merging rather
than one per key; `Scalars` are the keys whose last value counts, `ProjectWins`
and `Kept` say which of them `Merge` takes from the project and which it takes
from the global file alone.  `step` is the command that loads (it reads the
files one after the other, while they are edited), compares the hash with that
of the container, and then attaches, restarts or creates.

**The rules** (`CommandLine`, `RunArgs`, `BuildLimits`, `Migrate`,
`ServeRequests`, `DiskUsage`) are functions of their input.  A word of a command
line is a name with or without a value after `=`; a path is a sequence of names,
so that nesting of mounts is what it is; a size is the word docker prints;
arithmetic that is an int64 in the code wraps at `Word`.  `Rules` states what they
promise of any inputs: its constants are sets of inputs, whose assumptions say
only how an input is typed (a line is a sequence of words, a path a sequence of
names, a request has the keys of the Go struct).  A step picks a rule (`topic`)
and one of its inputs; a property says what the functions make of it.  They are
written over positions (`KeptWords` is the set of positions that are kept, `At`
the entries at some positions), not by walking a list, so that they hold of
lists of any length.

**BuildLimits.**  `BuildArguments` is what nix is started with: max-jobs and cores
come from the environment, else from `[build]`, else they are derived from the
builder's limits, or `auto` and 0 where there is no ceiling on memory.

**JobStore.**  `request[c]` is the client's request under way or the reply
travelling back, `told` what it has read.  The clock is bounded and its ticks
are coarse: only the order of completion, expiry and sweep matters.

**StreamPipe.**  Lines are numbers in the order claude wrote them, the failure
event is 0, and a result is claude's last line.  An `is_error` result is kept
apart in `lastWord`, and `IsResult` takes it like any result, since
`decodeStreamLine` does not hand the flag on.

**PtySession.**  `screen` is the sequence of the pieces of text written to it, a
row each and named by the request they answer, of which the terminal shows the
last `Rows` (`Visible`).  `before` is how much a request had seen when it typed its
prompt, `todo` what the agent has yet to write, `pause` an agent that thinks for
longer than the two seconds that count as stable, `wiped` that rows of its own
changed.  An answer is cut out of the screen (`apart`) while the rows that were
seen are still in their places and new ones follow; once the screen has scrolled,
or when nothing but wiping made the difference, it is the whole screen
(`Extract`, `pty_exec.go:163-190`).

**ProjectFiles.**  A choice stands for a stack, its modules and packages; a
source is one version of a nixhome, with the entries `TreeOf` gives it in the
order of the walk that copies them.  `nixhome` says of each entry which source
it is from.  `run[a]` is the command of a terminal: its line, what it copies
for (`use`: the first copy of `cell init`, whose failure is ignored, the
scaffold's, a build's), and `alone`, a history variable: whether no other
command was at work at the same time.  `Killed` may happen anywhere; a sync
that fails goes on or ends the command, as in the code.

**TartVM.**  `vms` maps every name of the host to a VM or `Nil`.  A build goes
through `clear`, `clone`, `boot`, the provisioning steps and `save`; each may
fail, and then deletes the build VM.  A killed command deletes nothing.  Every
build, a session's own included, works in the VM that has the name at that
moment: nothing keeps two builds apart.  `by` is a history variable on a VM, which
guards nothing: the command that did all the work on its disk, or `Nil` when there
were several.  `managed` is what makes a session stop the instance at its end.
`Reactivate` is the session's activation of whatever profile the shared disk has.

**WinkitVM.**  A VM is named by the command that started it, `record[c]` is the
file in the cell's state directory.  What the winkit library does (media,
install, boot, stop, signals) is external, modelled as its callers use it: a stop
may fail, which a run logs and `cell start` ignores (`left`), and so may SIGKILL,
whose error `cell stop` ignores before it removes the record (`killed`).  An ISO
that the user names (`own`) is used without a look at what is on it.


## 3. Runs

| run | instance | shows |
|---|---|---|
| `popup` | log of up to 3 events before the boot ends | `OneTerminalWriter`, `AgentOwnsTerminal`, `OnePanel`, `FailureAcknowledged`, `KeepsPromise` (refinement of `BootGate`), `GateOpens`, `RunReturns` |
| `popup_agent_exit` | 2 events | **violated** `AgentExitReturns` |
| `cells_shared` | one cell; 2 agents with different configurations, a start, a stop, a reap; one agent may be killed | `OneshotHasOwner`, `PersistentStays` |
| `cells_neighbours` | two cells, one proxied; an agent each and a reap | `OneshotStops` |
| `stream_result_then_failure` | a streamed answer of one line | **violated** `FailedIfExitedNonZero` |
| `store` | two cells, generations that share a profile, a prune (safe or forced) and a cleanup (asked or automatic) | `KeepsCollected` |
| `store_protected` | two cells and a prune | **violated** `RunningProtected` |
| `rules` | three files with two contents each and one edit; bounded inputs of nine rules; the files of one project: two terminals, one of them for builds only, two stacks, two nixhomes that differ in an entry | `NetworkOnlyTightens`, `ModulesAsDeclared`, `ModelStaysWithProvider`, `AttachedAsLoaded`, `EveryWordReadOnce`, `RunAsAsked`, `BuildFits`, `MigrationMeansTheSame`, `SettingsRespectProxy`, `MountsAsPromised`, `AnswersAgree`, `ListedModelsServed`, `DiskCounted`, `BuiltAsAsked`, `LockMatchesNixhome` |
| `config_gateway` | the same | **violated** `GatewayCurrent` |
| `machines` | six parts side by side: a job with two clients; a streamed answer of 4 lines through channels of 1; a log of 5 events through a channel of 2; two macOS cells with a build and two sessions, of which two run; two Windows cells, two runs, a start, a stop; two requests to one interactive agent on 3 rows | `ClientsAgree`, `ToldOnce`, `Evicted`, `InOrder`, `CompletedIsWhole`, `Answered`, `ReapedWhenHeard`, `InterruptedOnlyAtEnd`, `CloseReturnsAfterTimeout`, `TemplatesComplete`, `InstancesOwned`, `GuestsAccounted`, `MediaComplete`, `OwnAnswers` |
| `tart_base_stack` | one macOS cell of the default stack, a build, a session | **violated** `AgentHasStack` |
| `tart_overlap` | one macOS cell, a build, a session | **violated** `TemplatesProvisioned` |

`rules` and `machines` put parts that share no state into one run: the initial
state, or the first step, picks the part, and the others stay where they are.
`MCRules` gives `Rules` its sets of inputs; the configuration and the files of a
project are systems of steps in the same run.  `part` says which of the three
runs in a behaviour.

**Bounds.**  *popup*: a log needs a step before and after the panel is bound
and an end; a second end (the consumer's and the engine's) comes on top of the
bound.  *machines* (streams and log): with the channel's capacity smaller than
the events under way every blocked state occurs; a larger channel only takes
longer to fill.  What does not depend on the capacity is proved for all of them.
*cells*: races need a victim, an intruder and a third party that changes what
both saw; two agents with a start, a stop and a reap on one cell, and two
agents on two cells, are the smallest instances with all pairs of commands.
*rules* (files of a project): one terminal shows every crash and restart, a second one
that a command's leftovers may be a mixture of two; with two entries, one of
which a source lacks, a copy may be partial, mixed, or have too much in it.
*store*: `MaxLaunches` is 1 per cell, so that each cell either builds, runs, or
builds on the way to a run, while one command of either sort acts; what the
prune promises needs a closure it collected, another build that shares the
profile, and a reaper between stamp and collector, and all three are there.
Beyond the listed run the same properties were checked with two launches per
cell and one command.  *rules*: contents are chosen so that each way of merging
meets absent, empty and set in every layer; command lines have up to four
words, since a flag, its value, and a word on either side are all that three
functions can disagree about; sizes lie on both sides of each ceiling and of the
word's end.  *machines*: jobs do not interact, so one suffices; two sessions of
one macOS cell share an instance while a build works on another cell's template;
three commands at once would be most of the run, so `TwoCommands` lets any two of
the three run, which is what an overlap takes; four macOS commands and more are
left to the proofs.  A Windows `cell stop` meets the records of a run and of a
start.  Two requests of two pieces each and three rows make a screen that scrolls
under the second one.  Deadlock is not
checked where the system rightly ends: commands finish, answers end, windows
close.

**Fairness.**  Weak fairness, and only of what the program itself schedules:
its goroutines, its timers once armed, and processes it has killed
(`ProgramFairness`, `LiveSpec`, `MCSpec` of `MCMachines`).  Nothing is assumed
of a container's boot, of an agent, of claude, of an HTTP client.  `RunReturns`
assumes that boot-ui runs and that a user who looks at a failure presses a key
(`UIFairness`), as the panel asks for; `GateOpens` does not.  `OneshotStops`
assumes that runs keep executing, so it is checked without interruptions.

**What the violated runs show.**

* `popup_agent_exit`: `BeforeAttach` and `Finish` both receive the only value
  of `clientDone` when the agent's exit status is not 0; the window process
  never returns (`popup.go:334-339`, `:367-371`; docs/cage.md:125).
* `stream_result_then_failure`: the pump returns at claude's result line, before
  its exit status is known, and the result's `is_error` is lost in decoding: a
  run that failed is streamed as completed (`sse_responses.go:277`,
  `claude_stream.go:155-168`, against `responses.go:166`).
* `store_protected`: a cell that was starting when `cell build prune` listed the
  running containers runs when the user has answered the prompt; its closure is
  in no list, and the collector takes it (`prune.go:243`, against
  `cmd/build_prune.go:21`).
* `config_gateway`: a change of the allowed hosts restarts the container for the
  drift, but the gateway that runs is kept with its old lists
  (`proxy_sidecar.go:98`, against `run.go:592-593`).
* `tart_base_stack`: the base template has the name of the template of the stack
  `base`, the default; after `cell build --stage=base` an agent of such a cell
  runs where no stack was activated (`image.go:7`, against `:5-6`).
* `tart_overlap`: a build that shuts its VM down loses it to a session that builds
  the template of the same cell: the session deletes `devcell-build-tmp` as a
  left-over and clones its own, and the first build saves that bare clone as its
  template (`engine_darwin.go:75`, `:173-178`, against `:35`).  What holds however
  builds overlap is `TemplatesComplete`: a template that is one command's work.

**Smaller things met while modelling,** kept in the modules as the code has
them, each outside the properties or excepted in their comments: a project
file's `registry`, `thin`, `docker_socket` and `experimental` are dropped by
`Merge` (`Kept`); a project file
that says nothing of the proxy's mode turns a global block list into an allow
list, which tightens it; a project file's `[build] threads` is dropped too
(`cfg.go:1541-1560`), though the type has it; what `[build]` or the environment
asks of nix is passed on whatever the builder can take, so `BuildFits` limits only
what is derived; `cap_add = ["ALL"]` passes `validate_proxy.go:24-31` and reaches
docker of a cell that is not solitary (`runner.go:293-300`), a volume that contains
a denied path (`/`, `/var`) passes, for the check looks below those paths only, and
a solitary cell's own filter (`runner.go:665-677`) follows no symbolic link:
`SettingsRespectProxy` names these three; a streamed answer holds the text of all
turns of claude (`sse_responses.go:266-282`), an answer that is waited for only the
result's (`claude_json.go:82`), so `AnswersAgree` compares texts where claude said
nothing before the result; `pty_exec.go:160-162` says that the 500 rows "ensure large
responses don't scroll off", but the session is kept from request to request, and
once its screen has scrolled every answer is a whole screen, earlier answers
included, which `OwnAnswers` excepts; a `cell stop` whose SIGKILL fails removes the
record of a VM that runs, which `GuestsAccounted` excepts; a forced macOS
rebuild deletes the old template before the new one exists; an image size docker
reports as `N/A` is counted as -1; the prompt of a chat
request is its last message, whatever its role; the alias of the project that
docker run makes the working directory is not mounted when it nests in another
alias (a project `/home/u/home` in the workspace `devcell`: `/devcell/home/u/home`
lies in the alias `/devcell/home`): `runner.go:527-540` skips the mount,
`--workdir` (`:249`, `:629`) still names it, so `MountsAsPromised` excepts it; a reaper's decision is about
hashes, so a generation's root named by its profile's hash survives with the
profile.


## 4. Proofs

Every theorem is proved for all values of the constants, from the constants'
named assumptions alone, which TLC evaluates on every run: `MaxStepsAssumption`,
`LogAssumption`, `CellsAssumption`, `ConfigAssumption`, `KindsAssumption`,
`TimeAssumption`, `NoJobAssumption`, `StreamAssumption`, `PtyAssumption`,
`ClosureAssumption`, `BoundAssumption`, `FilesAssumption`, `KeysAssumption`,
`ContentsAssumption`, `PresetsAssumption`, `ProjectAssumption`,
`MacAssumption`, `NilAssumption`, `CommandsAssumption`, `UnitsAssumption`,
`CapsAssumption`, and the seven of `Rules`.  They type the
constants and keep names apart that are different things in the code; none
bounds an instance.  No theorem has another hypothesis.

An invariant below was checked with TLC on its run's instance before it was
proved.

**BootPopupProofs.**  `TypeCorrect`; `TerminalHasOneWriter`, `AgentGated`,
`PanelDrawnOnce`, `ModeIsDecidedOnce`; and `ImplementsPromise`, that every step
of the protocol is a step of `BootGate` or a stutter under the mapping `Stage`,
`Verdict`, `Cover`.  None of the safety properties is inductive.  The
invariant `IInv` adds where the client can be at each line of the main
goroutine (`ClientInv`), what the mode says about it (`GateInv`: the gate's
later lines exist only in popup mode, `gateClose` only after the client's
exit was received), that no verdict was logged before the boot's end and the
first one is a finish from the gate on (`VerdictInv`), and which sink goes with
which mode (`PanelInv`).  That the first end of a log stays the first end when
the log grows (`FirstEndStable`) carries the verdict through every `Emit`.
`FailuresAcknowledged` needs `AckInv` besides: popup mode means that boot-ui was
dialled (`DialInv`); a client ends by itself only when boot-ui ends or is refused,
and in popup mode is killed only behind the gate, after a finish (`EndInv`);
boot-ui leaves its panel alone until it has read the log's first end (`ReadInv`).

**CellLifecycleProofs.**  `TypeCorrect`, `OneshotOwned` and `SettledStays`, for
any number of commands and cells.  A running oneshot container is tied to the
run that created it through the record's `by`: `RunningOwned` says that this run
is a starter of that cell and stands at a line from which a stop follows, or was
killed; `CreatedMine` says the same of a container between `docker create` and
its start; `Kinds` says which commands can stand at which line, so that a run of
`cell start` is never taken for the owner.  `SettledStays` says that a settled
container stays up from then on; what every later step keeps is not that it is
settled but `Kept`: while the container's runs share its configuration, none of
its commands stands before a stop or a removal (`Harmful`) and no reaper lists
it, the next step leaves it running and leaves all of this so.

**NixStoreProofs.**  `StampsSurvive` and `CollectedIsKept`, for any cells,
commands, closures and launches.  `KeepsCollected` speaks of one step, the
collector's; what makes it true happened steps earlier, when the command stamped
roots, and has to survive everything that other terminals do to the roots since.
The invariant `NixInv` says so: before the sweep and the collector of a command
every path it saw is `Safe`, with its stamped root or with an excuse
(`SeenSafe`).  Eight lemmas, one for each way the volume is changed (`SafeWhen...`),
show that what is safe stays safe.  Two of them need `RootsSound`: a build's
links replace a stamped root only by the same one, since a link named by a
profile's hash and of kind profile leads to that profile; and a sweep, which drops
all links of a dangling one's hash, drops a stamped root only if its path is
gone, since the only link that shares the hash and leads elsewhere is a build's
generation, and that one is never dangling.  `CommandsSound` says that what is
left of a plan is in order (`Ordered`): the stamp stands right before the sweep,
unless nothing was seen, and the sweep right before the collector; `PlansOrdered`
shows it of the four plans, `RestOrdered` of what any step leaves of them.

**ServeProofs.**  Of `JobStore`: `JobTypesHold`, `OutcomeAgreed`,
`OutcomeToldOnce`, for any number of jobs and clients.  The
invariant has to speak of replies that are travelling: `Heard` is what a client
was told or is about to be, `Agree` extends agreement to it, `Current` says the
store still holds what was heard or has dropped the job, and `InOrder` that a
reply under way does not take back what its client heard.
Of `PtySession`: `OneRequestAtATime` and `AnswersAreOwn`, for any number of
requests, sessions, rows and pieces of text.  An answer is cut from the screen by
position, so the invariant `PtyInv` counts positions, on the screen and in what
the agent has yet to write (`Pieces`).  `Beyond` says that after what a request
saw before it typed its prompt nothing comes but its own text and that of requests
that were cut short; `Whole` that its own answer is complete and comes last while
the agent lives.  Since it comes last, a whole screen ends with it as well
(`Extracted`, `Scrolled`: where a piece of an answer stood among all that was
written).  Both rest on the mutex (`OneAtATime`), on the agent working only
for the request that waits or one that gave up (`Awaited`), on nobody being cut
short before it returns (`CutAtReturn`), and on a dead agent writing nothing
(`Living`).

**StreamPipeProofs.**  `TypeCorrect`, `ReadInOrder`, `WholeWhenCompleted`, for
channels of any capacity.  `Numbered` gives every place of the pipeline the
number of the line that stands there (`AtOut`, `AtScanned`, `AtHand`,
`AtPipe` count what is ahead of it), `FailureIsLast` says that nothing follows
a failure, and `Accounted` that while a client listens either a failure is
under way to it (`Failing`) or the scanner left no line behind.

**ProjectProofs.**  Of `ProjectFiles`: `FilesTypesHold`, `BuildsAreAsAsked`,
`LocksMatch`, for any nixhomes, stacks and terminals.  `OthersIdle` says that a
command that is alone has nobody else at work, so that only its own steps touch
the files; `MadeBy` what it has made of them at each of its lines (`PartOf`: the
entries copied so far, over nothing that was there before), and `Unlocked` that
nobody copies while there is a lock of a known nixhome.
Of `ConfigLayers`, for any number of files with any contents, edited at any time:
`LayersAreRead`, `PolicyOnlyTightens`, `ModulesDeclared`, `ModelAndProvider`,
`AttachedToItsConfig`.  The properties speak of the configuration and of all
files read; the merge takes one file at a time.  So each has an invariant about
the files read so far that the next merge preserves.  `Tight` (what the merged
policy reaches each file's own policy reaches, or another file allows by name)
goes through `MergedPolicy`, which says domain by domain what one merge lets
through, and `ExpandedOfBoth`, that expanding presets commutes with the union of
two lists.  `Declared` (the modules since the last file that clears them) is
`DeclaredByNext`: the next file clears, or adds.  `Stays` (the model was named by a
file after which the provider never changed) needs the last file that selects a
provider (`Last`, which exists in a finite sequence) and `ProviderOfNext`: a
further file does not change what earlier ones select.  `AttachedToItsConfig`
rests on `HashShowsDrift`, that configurations of equal hash show no drift.

**MachineProofs.**  Of `BootLog`: `LogTypesHold` and `InterruptedAtTheEnd`, for a
channel of any capacity.  The consumer's end is tied to the reader's
(`ConsumerEnds`: the channel is closed only by a reader that is done), that to the
subprocess's (`ReaderEnds`) and the scanner's to the log's (`ScannerEnds`: it ends at
the end of the pipe, or with a line that is too long at its head, and stays there).
Of `WinkitVM`: `WinkitTypesHold`, `NoGuestForgotten`,
`InstalledFromCompleteMedia`, for any number of cells and commands.  That a VM is
accounted for is not inductive: `NotYetBooted` says that a command before its
boot has no VM, so that no step but its own boot can bring one up, and
`TargetsBooted` that what a `cell stop` works on was booted, so that it cannot
come up after it was stopped; `LauncherMoves` and `StopMoves` say once what a step
of a command may do to the VMs and the records.
Of `TartVM`: `InstancesAreOwned` and `TemplatesAreComplete`, for any cells,
stacks, builds and sessions.  The first needs the types and that a session is where
its cell is (`Placed`), so that a step on one cell's instance leaves the others'
owners alone.  The second holds however builds overlap.  It follows a build through
a VM that is its own work (`Own`): `Made` says what such a VM holds at each of the
build's lines, `Progress` that every command finds it so, and `Complete` that
templates are.  Whatever another command does to the build VM takes it away,
marks it as the work of several, or leaves it as it is (`Apart`), and then a
command's progress there is kept (`OthersBuild`).

**RulesProofs.**  For inputs of any size, eight of the nine properties of `Rules`,
all from one invariant, that a rule is applied to one of its inputs (`Applied`);
what there is to prove lies in the functions.
`WordsReadOnce`: whether a word is a value is decided by how many flags that take
one stand right before it (`IsValue`), so that of two neighbours at most one is a
value (`ValueIsNoFlag`, `ValueFollowsFlag`); and the first place where a flag
stands is none that another flag consumed (`ScanFindsFirst`).
`RunsAsAsked` follows the cases of `Resolve` (`ResolvedAsAsked`) and of `GuestFor`.
`BuildsFit`: a setting of nix is the environment's, the section's, or derived; of the
last, with `BuildAlwaysFits` and `DefaultCeilingKept` (the comment of
`defaultBuildMemory`) for any daemon, unit of memory and width of the word:
`ConcurrencyFits` divides twice, so it rests on `TimesQuotient`, and holds of a
ceiling that is negative because a size overflows the word (`Wrap`): it gets one job.
`MigrationsMeanTheSame`: the rewritten file has no deprecated key left
(`RewrittenIsCurrent`) and loads as what the old one loaded as
(`RewrittenMeansTheSame`).  The hard part is the volumes, where a list beside a
table becomes one list: what `mergeCellVolumes` makes of either is the same set of
mounts (`RewrittenVolumes`), with the entries picked by their rank
(`RanksOfPositions`, `PickedEntries`).
`ProxyIsRespected`: the variable that names the gateway comes after every file
(`GatewayVariable`), a denied mount is never the user's (`UserMountsAllowed`), and
devcell's own are directories the cell is about (`OwnMounts`).
`MountsArePromised`: home and project are mounted before everything that could
take their paths (`FirstMounts`), and nothing that is mounted above a path changes
what is seen there (`MountedIsSeen`).
`AnswersAreTheSame` follows one request through its three ways: they pass the same
checks (`HandledInMode`), start the same command, and build their object from the
same result (`JobIsAnswer`, `StreamAgrees`).
`ListedAreServed`: what is listed has an agent that is installed (`ListedRoutes`),
and that agent's command line carries prompt, effort and model (`ArgvFits`).

Only model-checked: liveness (`GateOpens`, `RunReturns`,
`CloseReturnsAfterTimeout`, `OneshotStops`, `Evicted`, `Answered`,
`ReapedWhenHeard`), which the prover does not do under fairness; and `DiskCounted`, which compares
sums and a sorted listing: docker's rows are added with a fold and ranked by a
sort, and what those compute of every listing takes induction over its length.


## 5. What is left out

* Failing or slow inspects in `CellLifecycle`: `ContainerRunning` answers false
  when docker fails, and the sweep then takes a live cell for a dead one.
* A boot that times out while `boot.ready` is already in the panel's log: the
  popup shows success for a run that returns an error.  The model has this
  behaviour; `FailureAcknowledged` is stated for the failures that are the
  log's first end.
* The log watcher's `Close` after a boot that was ready: it waits for a reader
  that may be blocked in a send nobody takes; only `CloseReturnsAfterTimeout` is
  checked.
* In the model, and not the subject of a property: a container that changes
  between the label check and the stop of auto-stop, or between the inspect and
  the `rm -f` of an orphan; the restart for a drift that makes a `cell start`
  container a oneshot one; a session that a reaper's stale list kills; a gateway
  swept before its container runs; a cancelled background job whose agent runs
  on; all macOS VMs' one nix disk, which a build from an OCI image erases.
* Of a project's files: how a git source is spelled, starship.toml, the text of
  the snippets in `devcell.toml`, and a `cell build` where there is no
  `devcell.toml` yet, which works in the global configuration directory.
  Commands that overlap in one project are in the model and may mix their files;
  `BuiltAsAsked` is about builds that had the directory to themselves.
* Of the thin build: the Dockerfile and scripts' text, the
  mirroring to binary caches, and the display of progress.  Of the store's
  health: the numbers in its reports.
* Of the configuration: TOML itself, the expansion of `~` and of variables, and
  the chains of single settings through the environment.
* Of the disk report: the probe inside docker's virtual machine, the nix section,
  and `cell top`.
* Of `cell serve`: the RDP feed and icons of the workspace, request logging, the
  layout of JSON and of server-sent events.
* Texts, rendering and logging; panels, session files, model catalogues,
  viewers, telemetry, the generators of nix and s6 text, calls to
  external secret stores: an input and an output, no state to be wrong about.


## 6. What could come next

1. `CellLifecycle` with inspects that fail, and liveness of sidecars and networks
   left by failed runs; an abstract `Cell` (one container, one owner) that it
   implements.
2. The disk report with its sums defined over sets of rows, so that `DiskCounted`
   can be proved from facts about one row.
3. `TartVM`: whose store is on the shared disk, as a property.
4. The chains of single settings (environment, file, default) in `ConfigLayers`.
