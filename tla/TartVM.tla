------------------------------- MODULE TartVM -------------------------------
(***************************************************************************)
(* macOS cells in tart virtual machines (internal/engine/tart): `cell      *)
(* build` makes a template VM out of an image, and a session clones its    *)
(* cell's instance from the template, boots it unless it runs, and stops   *)
(* it if it booted it.                                                     *)
(*                                                                         *)
(* VMs are files with names, shared by every command of the host.  A build *)
(* works in the VM named "tmp", whichever command cloned it, and no lock   *)
(* keeps two builds apart.  The nix store is one disk image for all VMs.   *)
(*                                                                         *)
(* Left out: ssh keys (the agent runs through `tart exec`), the simulated  *)
(* run of other platforms, and the reformat question, which no script      *)
(* asks (nothing prints DEVCELL_REFORMAT_NEEDED).                          *)
(***************************************************************************)
EXTENDS Naturals, Sequences

CONSTANTS Stacks,     \* strings; a stack may be called "base"
          MacCells,   \* macOS cells
          StackOf,    \* per cell
          Builds,     \* `cell build` commands, each started once
          Sessions,   \* agent runs, each started once
          MacOf,      \* the cell of a session and of a build
          Nil         \* no VM, no stack, and no command

\* Every command has a cell, and every cell a stack.
ASSUME MacAssumption ==
    /\ MacOf \in [Builds \cup Sessions -> MacCells]
    /\ StackOf \in [MacCells -> Stacks]
    /\ Nil \notin Stacks /\ Nil \notin Builds \cup Sessions

VARIABLES vms,        \* per name: a VM, or Nil
          nixDisk,    \* the shared disk image (nix.img)
          tart        \* per command

tartVars == <<vms, nixDisk, tart>>

TartCommands == Builds \cup Sessions
\* image.go: names are "devcell-tart-<stack>", "devcell-tart-base",
\* "devcell-build-tmp" and "<cell>-tart".
Template(stack) == <<"template", stack>>
BaseTemplate == <<"template", "base">>
BuildVM == <<"build", "tmp">>
Instance(c) == <<"instance", c>>
Names == {Template(s) : s \in Stacks} \cup {BaseTemplate, BuildVM} \cup {Instance(c) : c \in MacCells}

\* Whether the VM runs, and what matters of its boot disk.  "by" is history:
\* the command that has done all the work in it, Nil when several have.
VM == [running : {"yes", "no"}, nix : {"yes", "no"}, stack : Stacks \cup {Nil}, marker : {"yes", "no"},
       by : TartCommands \cup {Nil}]
ASSUME NilAssumption == Nil \notin VM
Image(p) == [running |-> "no", nix |-> "no", stack |-> Nil, marker |-> "no", by |-> p]
Exists(n) == vms[n] # Nil
Running(n) == vms[n] # Nil /\ vms[n].running = "yes"
Off(vm) == [vm EXCEPT !.running = "no"]
Touched(p, vm) == [vm EXCEPT !.by = IF @ = p THEN p ELSE Nil]

\* Where a command is in the middle of a build, and in the rest of a session.
Building == {"clear", "clone", "resources", "boot", "agentWait", "provision", "stamp", "check",
             "shutdown", "save", "giveUp"}
InSession == {"find", "cloneInstance", "acquire", "verify", "prepare", "agent", "leave"}

TartTypes ==
    /\ vms \in [Names -> VM \cup {Nil}]
    /\ nixDisk \in [store : {"yes", "no"}, profile : Stacks \cup {Nil}]
    /\ tart \in [TartCommands -> [pc : {"idle", "ended", "dead"} \cup Building \cup InSession,
                                 stage : {"base", "full"}, force : {"yes", "no"},
                                 fromBase : {"yes", "no"}, step : Nat, seen : {"yes", "no"},
                                 managed : {"yes", "no"}]]

Fresh(pc) == [pc |-> pc, stage |-> "full", force |-> "no", fromBase |-> "no", step |-> 1,
              seen |-> "no", managed |-> "no"]
TartInit ==
    /\ vms = [n \in Names |-> Nil]
    /\ nixDisk = [store |-> "no", profile |-> Nil]
    /\ tart = [p \in TartCommands |-> Fresh("idle")]

\* A command that ended is forgotten, but for what it left behind.
GoOn(p, pc) ==
    tart' = [tart EXCEPT ![p] = IF pc = "ended" THEN Fresh(pc)
                                ELSE IF pc = "dead" THEN [Fresh(pc) EXCEPT !.managed = tart[p].managed]
                                ELSE [@ EXCEPT !.pc = pc]]
Stack(p) == StackOf[MacOf[p]]

-----------------------------------------------------------------------------
(* tart_cli.go, tart_pull.go *)

TartClone(from, to) == vms' = [vms EXCEPT ![to] = Off(vms[from])]
TartDelete(names) == vms' = [n \in Names |-> IF n \in names THEN Nil ELSE vms[n]]
TartStop(n) == vms' = IF Exists(n) THEN [vms EXCEPT ![n].running = "no"] ELSE vms

\* nix-darwin activates the system profile of its disk when it boots.
Booted(vm) ==
    [vm EXCEPT !.running = "yes",
               !.stack = IF @ # Nil /\ nixDisk.profile # Nil THEN nixDisk.profile ELSE @]
TartRun(p, n) ==
    vms' = IF Exists(n) /\ ~Running(n) THEN [vms EXCEPT ![n] = Touched(p, Booted(@))] ELSE vms

-----------------------------------------------------------------------------
(* engine_darwin.go, build *)

TemplateName(p) == IF tart[p].stage = "base" THEN BaseTemplate ELSE Template(Stack(p))

\* The template of the requested stage is built from the base template when
\* there is one: decided here, used after the clean-up.
BeginBuild(p, stage, force) ==
    tart' = [tart EXCEPT ![p].pc = "clear", ![p].stage = stage, ![p].force = force,
                         ![p].step = 1,
                         ![p].fromBase = IF stage = "full" /\ Exists(BaseTemplate) THEN "yes" ELSE "no"]

StartBuild(p) ==
    /\ p \in Builds /\ tart[p].pc = "idle"
    /\ \E stage \in {"base", "full"}, force \in {"yes", "no"} : BeginBuild(p, stage, force)
    /\ UNCHANGED <<vms, nixDisk>>

\* An existing template is refused, or with --force deleted before the new
\* one is built; what an interrupted build left in the build VM is deleted.
Clear(p) ==
    /\ tart[p].pc = "clear"
    /\ IF Exists(TemplateName(p)) /\ tart[p].force = "no"
       THEN GoOn(p, "ended") /\ UNCHANGED vms
       ELSE GoOn(p, "clone") /\ TartDelete({TemplateName(p), BuildVM})
    /\ UNCHANGED nixDisk

BaseClone(p) == [Off(vms[BaseTemplate]) EXCEPT !.by = IF @ = Nil THEN Nil ELSE p]
Clone(p) ==
    /\ tart[p].pc = "clone"
    /\ \/ /\ tart[p].fromBase = "no" \/ Exists(BaseTemplate)
          /\ ~Exists(BuildVM)
          /\ vms' = [vms EXCEPT ![BuildVM] =
                        IF tart[p].fromBase = "yes" THEN BaseClone(p) ELSE Image(p)]
          /\ GoOn(p, "resources")
       \/ GoOn(p, "ended") /\ UNCHANGED vms
    /\ UNCHANGED nixDisk

\* Setting CPUs and memory, and starting `tart run`: a failure deletes the VM.
Resources(p) ==
    /\ tart[p].pc = "resources"
    /\ \/ Exists(BuildVM) /\ GoOn(p, "boot") /\ UNCHANGED vms
       \/ GoOn(p, "ended") /\ TartDelete({BuildVM})
    /\ UNCHANGED nixDisk

BootBuild(p) ==
    /\ tart[p].pc = "boot"
    /\ \/ GoOn(p, "agentWait") /\ TartRun(p, BuildVM)
       \/ GoOn(p, "ended") /\ TartDelete({BuildVM})
    /\ UNCHANGED nixDisk

\* Two minutes for the guest agent; every later failure stops the VM, too,
\* and leaves it for the next build to delete.
AgentWait(p) ==
    /\ tart[p].pc = "agentWait"
    /\ GoOn(p, IF Running(BuildVM) THEN "provision" ELSE "giveUp")
    /\ UNCHANGED <<vms, nixDisk>>

GiveUp(p) ==
    /\ tart[p].pc = "giveUp"
    /\ TartStop(BuildVM)
    /\ GoOn(p, "ended")
    /\ UNCHANGED nixDisk

\* observer.go: the steps of the three kinds of builds.  "setup" stands for
\* ssh, key, sudo and the home mount.
BaseSteps == <<"setup", "disk", "nix", "swap">>
StackSteps == <<"activate">>
Steps(p) ==
    IF tart[p].stage = "base" THEN BaseSteps
    ELSE IF tart[p].fromBase = "yes" THEN StackSteps
    ELSE BaseSteps \o StackSteps

\* Mutant: a step that fails is logged, and the next one tried.
StepLogged(p) ==
    /\ tart[p].pc = "provision"
    /\ tart' = [tart EXCEPT ![p].step = @ + 1,
                            ![p].pc = IF tart[p].step = Len(Steps(p)) THEN "stamp" ELSE "provision"]
    /\ UNCHANGED <<vms, nixDisk>>

\* Any step of a build in the VM may fail; it does when the VM is gone.
StepFails(p) ==
    /\ tart[p].pc \in {"agentWait", "provision", "stamp", "check"}
    /\ GoOn(p, "giveUp")
    /\ UNCHANGED <<vms, nixDisk>>

\* provision.go, the scripts.  The disk is erased, whoever else uses it.
PrepareDisk == nixDisk' = [store |-> "no", profile |-> Nil] /\ UNCHANGED vms
InstallNix(p) ==
    /\ vms' = [vms EXCEPT ![BuildVM] = Touched(p, [@ EXCEPT !.nix = "yes"])]
    /\ UNCHANGED nixDisk
SwapStore ==
    /\ vms[BuildVM].nix = "yes"
    /\ nixDisk' = [nixDisk EXCEPT !.store = "yes"]
    /\ UNCHANGED vms
Activate(p) ==
    /\ nixDisk.store = "yes"
    /\ vms' = [vms EXCEPT ![BuildVM] = Touched(p, [@ EXCEPT !.stack = Stack(p)])]
    /\ nixDisk' = [nixDisk EXCEPT !.profile = Stack(p)]

Provision(p) ==
    /\ tart[p].pc = "provision" /\ Running(BuildVM)
    /\ LET step == Steps(p)[tart[p].step]
       IN  \/ step = "setup" /\ UNCHANGED <<vms, nixDisk>>
           \/ step = "disk" /\ PrepareDisk
           \/ step = "nix" /\ InstallNix(p)
           \/ step = "swap" /\ SwapStore
           \/ step = "activate" /\ Activate(p)
    /\ tart' = [tart EXCEPT ![p].step = @ + 1,
                            ![p].pc = IF tart[p].step = Len(Steps(p)) THEN "stamp" ELSE "provision"]

\* The provisioned marker: written, and read again before the shutdown.
Stamp(p) ==
    /\ tart[p].pc = "stamp" /\ Running(BuildVM)
    /\ vms' = [vms EXCEPT ![BuildVM] = Touched(p, [@ EXCEPT !.marker = "yes"])]
    /\ GoOn(p, "check")
    /\ UNCHANGED nixDisk

Check(p) ==
    /\ tart[p].pc = "check" /\ Running(BuildVM) /\ vms[BuildVM].marker = "yes"
    /\ GoOn(p, "shutdown")
    /\ UNCHANGED <<vms, nixDisk>>

StopBuild(p) ==
    /\ tart[p].pc = "shutdown"
    /\ TartStop(BuildVM)
    /\ GoOn(p, "save")
    /\ UNCHANGED nixDisk

\* After a build a session goes on to clone its instance.
Built(p) == IF p \in Builds THEN "ended" ELSE "cloneInstance"
Save(p) ==
    /\ tart[p].pc = "save"
    /\ \/ /\ Exists(BuildVM) /\ ~Exists(TemplateName(p))
          /\ vms' = [vms EXCEPT ![TemplateName(p)] = Touched(p, Off(vms[BuildVM])), ![BuildVM] = Nil]
          /\ GoOn(p, Built(p))
       \/ GoOn(p, "ended") /\ UNCHANGED vms
    /\ UNCHANGED nixDisk

BuildStep(p) ==
    \/ Clear(p) \/ Clone(p) \/ Resources(p) \/ BootBuild(p) \/ AgentWait(p) \/ GiveUp(p)
    \/ StepFails(p) \/ Provision(p) \/ Stamp(p) \/ Check(p) \/ StopBuild(p) \/ Save(p)

-----------------------------------------------------------------------------
(* engine.go, Run; acquire_darwin.go, AcquireDarwinVM *)

Mine(p) == Instance(MacOf[p])

\* With --force the instance is stopped and deleted, and the template deleted.
StartSession(p) ==
    /\ p \in Sessions /\ tart[p].pc = "idle"
    /\ \/ UNCHANGED vms
       \/ TartDelete({Mine(p), Template(Stack(p))})
    /\ GoOn(p, "find")
    /\ UNCHANGED nixDisk

\* An instance; else a template to clone it from; else a build.
FindInstance(p) ==
    /\ tart[p].pc = "find"
    /\ IF Exists(Mine(p))
       THEN tart' = [tart EXCEPT ![p].pc = "acquire", ![p].seen = vms[Mine(p)].running]
       ELSE IF Exists(Template(Stack(p))) THEN GoOn(p, "cloneInstance")
       ELSE BeginBuild(p, "full", "no")
    /\ UNCHANGED <<vms, nixDisk>>

CloneInstance(p) ==
    /\ tart[p].pc = "cloneInstance"
    /\ \/ /\ Exists(Template(Stack(p))) /\ ~Exists(Mine(p))
          /\ TartClone(Template(Stack(p)), Mine(p))
          /\ tart' = [tart EXCEPT ![p].pc = "acquire", ![p].seen = "no"]
       \/ GoOn(p, "ended") /\ UNCHANGED vms
    /\ UNCHANGED nixDisk

\* A VM that ran when it was looked up is used and left alone; otherwise it
\* is started and is the session's to stop.  It counts as started as soon as
\* the name has an address, whoever started it.
Acquire(p) ==
    /\ tart[p].pc = "acquire"
    /\ \/ /\ tart[p].seen = "yes" /\ Running(Mine(p))
          /\ GoOn(p, "verify") /\ UNCHANGED vms
       \/ /\ tart[p].seen = "no" /\ Exists(Mine(p))
          /\ TartRun(p, Mine(p))
          /\ tart' = [tart EXCEPT ![p].pc = "verify", ![p].managed = "yes"]
       \/ GoOn(p, "ended") /\ UNCHANGED vms
    /\ UNCHANGED nixDisk

\* Mutant: the stop is deferred after the marker was found.
VerifyBare(p) ==
    /\ tart[p].pc = "verify"
    /\ \/ Running(Mine(p)) /\ vms[Mine(p)].marker = "yes" /\ GoOn(p, "prepare")
       \/ GoOn(p, "ended")
    /\ UNCHANGED <<vms, nixDisk>>

\* The marker is looked for ten times, through a guest agent that may not
\* answer; then the user, the home, the services and the project are set up,
\* some of which may fail.
Verify(p) ==
    /\ tart[p].pc = "verify"
    /\ \/ Running(Mine(p)) /\ vms[Mine(p)].marker = "yes" /\ GoOn(p, "prepare")
       \/ GoOn(p, "leave")
    /\ UNCHANGED <<vms, nixDisk>>

\* In a VM where nothing was activated (no /run/current-system), the system
\* profile of the shared disk is, when there is one; a failure is logged.
Reactivate(p) ==
    /\ Running(Mine(p)) /\ vms[Mine(p)].stack = Nil /\ nixDisk.profile # Nil
    /\ vms' = [vms EXCEPT ![Mine(p)].stack = nixDisk.profile]

Prepare(p) ==
    /\ tart[p].pc = "prepare"
    /\ \/ Running(Mine(p)) /\ GoOn(p, "agent") /\ (Reactivate(p) \/ UNCHANGED vms)
       \/ GoOn(p, "leave") /\ UNCHANGED vms
    /\ UNCHANGED nixDisk

MacAgentExits(p) ==
    /\ tart[p].pc = "agent"
    /\ GoOn(p, "leave")
    /\ UNCHANGED <<vms, nixDisk>>

\* The deferred stop, which ends the other sessions' agents as well.
LeaveVM(p) ==
    /\ tart[p].pc = "leave"
    /\ IF tart[p].managed = "yes" THEN TartStop(Mine(p)) ELSE UNCHANGED vms
    /\ GoOn(p, "ended")
    /\ UNCHANGED nixDisk

\* The command is killed; the VM whose `tart run` it started may go with it.
Killed(p) ==
    /\ tart[p].pc \notin {"idle", "ended", "dead"}
    /\ \/ UNCHANGED vms
       \/ tart[p].managed = "yes" /\ TartStop(Mine(p))
       \/ tart[p].pc \in Building /\ TartStop(BuildVM)
    /\ GoOn(p, "dead")
    /\ UNCHANGED nixDisk

SessionStep(p) ==
    \/ StartSession(p) \/ FindInstance(p) \/ CloneInstance(p) \/ Acquire(p) \/ Verify(p)
    \/ Prepare(p) \/ MacAgentExits(p) \/ LeaveVM(p)

TartNext == \E p \in TartCommands : StartBuild(p) \/ BuildStep(p) \/ SessionStep(p) \/ Killed(p)
TartSpec == TartInit /\ [][TartNext]_tartVars

-----------------------------------------------------------------------------
FullyProvisioned(s) ==
    LET vm == vms[Template(s)] IN vm.nix = "yes" /\ vm.stack = s /\ vm.marker = "yes"

\* A template that exists, and whose disk is the work of one build, is fully
\* provisioned for its stack, whatever failed or was killed on the way, and
\* however many other builds started, deleted, stopped or cloned meanwhile.
TemplatesComplete ==
    \A s \in Stacks \ {"base"} : Exists(Template(s)) /\ vms[Template(s)].by # Nil => FullyProvisioned(s)

\* Every template is fully provisioned (engine_darwin.go:35, "build creates a
\* fully provisioned macOS VM template from an OCI image").
TemplatesProvisioned == \A s \in Stacks \ {"base"} : Exists(Template(s)) => FullyProvisioned(s)

\* An instance that runs has a session that will stop it, or that was killed:
\* the deferred stop covers every failure after the boot.
InstancesOwned ==
    \A c \in MacCells : Running(Instance(c)) =>
        \E p \in Sessions : MacOf[p] = c /\ tart[p].managed = "yes" /\ tart[p].pc # "ended"

\* An agent runs in a VM in which its stack was activated (engine.go:43-48:
\* a build provisions nix, nix-darwin and the stack; stage "base" builds the
\* stack-agnostic template instead).
AgentHasStack ==
    \A p \in Sessions : tart[p].pc = "agent" /\ Running(Mine(p)) => vms[Mine(p)].stack = Stack(p)
=============================================================================
