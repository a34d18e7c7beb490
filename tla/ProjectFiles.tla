---------------------------- MODULE ProjectFiles ----------------------------
(***************************************************************************)
(* The files that devcell keeps in one project: devcell.toml, and under    *)
(* .devcell/ the copy of nixhome, flake.nix and flake.lock (package        *)
(* scaffold, docker/init.go, docker/build.go, docker/thin_context.go).     *)
(* Commands that run in the project share them without a lock, and may be  *)
(* killed, or give up after an error, between any two steps.               *)
(*                                                                         *)
(* A choice stands for a stack with its modules and packages; a source is  *)
(* one version of a nixhome.  starship.toml, entrypoint.sh's link and the  *)
(* record of the origin, which nothing reads back, are left out, as is a   *)
(* `cell build` before there is a devcell.toml, whose files lie in the     *)
(* global configuration directory.                                         *)
(***************************************************************************)
EXTENDS Naturals, Sequences

CONSTANTS
    Actors,     \* terminals in which commands are run
    Builders,   \* those in which it is only `cell build`
    Choices,    \* stacks, with their modules and packages
    Base,       \* the choice of one who makes none
    Sources,    \* versions of nixhome
    Local,      \* those in a local directory; the others are in git
    Entries,    \* the files and directories of nixhomes
    TreeOf,     \* those of each source, in the order of a walk
    Required,   \* the directories without which it is no nixhome
    Absent

ASSUME ProjectAssumption ==
    /\ Builders \subseteq Actors /\ Base \in Choices /\ Local \subseteq Sources
    /\ Absent \notin Choices \cup Sources \cup [Entries -> Sources \cup {Absent}]
    /\ TreeOf \in [Sources -> Seq(Entries)] /\ Required \subseteq Entries

VARIABLES
    toml,      \* devcell.toml: the choice it states
    nixhome,   \* .devcell/nixhome: the source that each of its entries is from
    flake,     \* .devcell/flake.nix: a choice, and whether it imports ./nixhome
    flakeLock, \* .devcell/flake.lock: what its input was resolved from, as far
               \* as one command at a time was at work
    run        \* what each actor's command does

filesVars == <<toml, nixhome, flake, flakeLock, run>>
kept == <<toml, nixhome, flake, flakeLock>>

NoEntries == [e \in Entries |-> Absent]
\* A whole copy of a source.
CopyOf(source) ==
    [e \in Entries |->
        IF \E i \in DOMAIN TreeOf[source] : TreeOf[source][i] = e THEN source ELSE Absent]
Flake(choice, local) == [choice |-> choice, local |-> local]
Idle == [at |-> "idle", kind |-> "none", use |-> "none", choice |-> Base,
         source |-> Absent, force |-> FALSE, next |-> 0, alone |-> FALSE]

Stages == {"idle", "ask", "remove", "unlock", "copy", "validate", "flake", "toml", "lock",
          "image", "overlay", "archive"}

Copies == [Entries -> Sources \cup {Absent}] \cup {Absent}

FilesTypes ==
    /\ toml \in Choices \cup {Absent}
    /\ nixhome \in Copies
    /\ flake \in [choice : Choices, local : BOOLEAN] \cup {Absent}
    /\ flakeLock \in [local : BOOLEAN, of : Copies] \cup {Absent}
    /\ run \in [Actors -> [at : Stages, kind : {"none", "init", "agent", "build"},
                           use : {"none", "resolve", "scaffold", "build"},
                           choice : Choices, source : Sources \cup {Absent},
                           force : BOOLEAN, next : Nat, alone : BOOLEAN]]

-----------------------------------------------------------------------------
(* Commands. *)

Working(a) == run[a].at # "idle"

\* The command of a starts; it and those at work now are not alone.
Start(a, command) ==
    /\ ~Working(a)
    /\ run' = [b \in Actors |->
                 IF b = a THEN [command EXCEPT !.alone = \A c \in Actors : ~Working(c)]
                 ELSE [run[b] EXCEPT !.alone = FALSE]]
    /\ UNCHANGED kept

GoOn(a, at) == run' = [run EXCEPT ![a].at = at]
End(a) == run' = [run EXCEPT ![a] = Idle]

IsInitialized == toml # Absent

\* Where a copy of nixhome is made: to show what can be chosen, whose failure
\* is ignored; for the scaffold; for a build.
AfterSync == [resolve |-> "validate", scaffold |-> "flake", build |-> "overlay"]

Sync(a, use) == run' = [run EXCEPT ![a].at = "remove", ![a].use = use]

Command(kind, at, choice, source, force) ==
    [kind |-> kind, at |-> at, use |-> "resolve", choice |-> choice, source |-> source,
     force |-> force, next |-> 0, alone |-> FALSE]

\* cell init
AskInit(a) ==
    \E choice \in Choices, source \in Sources, force \in BOOLEAN, yes \in BOOLEAN :
        LET asked == ~force /\ ~yes /\ IsInitialized IN
        Start(a, Command("init", IF asked THEN "ask" ELSE "remove", choice, source, force))

\* The user agrees to initialise the project again, or does not.
Confirm(a) ==
    /\ run[a].at = "ask"
    /\ \/ run' = [run EXCEPT ![a].at = "remove", ![a].force = TRUE]
       \/ End(a)
    /\ UNCHANGED kept

\* The command of an agent scaffolds the project at its first run, without the
\* network if it is a dry run.
AskAgent(a) ==
    \E source \in Sources :
        IF IsInitialized
        THEN Start(a, Command("agent", "image", Base, source, FALSE))
        ELSE \E at \in {"remove", "validate"} :
                 Start(a, Command("agent", at, Base, source, FALSE))

\* cell build, of the stack that is configured or of another
AskBuild(a) ==
    /\ IsInitialized
    /\ \E choice \in Choices, source \in Sources :
         Start(a, [Command("build", "remove", choice, source, FALSE) EXCEPT !.use = "build"])

\* The command is killed, or ends with an error.
Killed(a) == Working(a) /\ End(a) /\ UNCHANGED kept

-----------------------------------------------------------------------------
(* SyncNixhome and ResolveNixhome: the old copy is removed entry by entry,  *)
(* then the lock, then the source is copied in the order of its walk.       *)

RemoveEntry(a) ==
    /\ run[a].at = "remove" /\ nixhome # Absent
    /\ \E e \in Entries :
         nixhome[e] # Absent /\ nixhome' = [nixhome EXCEPT ![e] = Absent]
    /\ UNCHANGED <<toml, flake, flakeLock, run>>

\* Mutant: the new copy is made over the old one.
RemoveDirectoryNot(a) ==
    /\ run[a].at = "remove"
    /\ GoOn(a, "unlock")
    /\ UNCHANGED kept

RemoveDirectory(a) ==
    /\ run[a].at = "remove" /\ nixhome \in {Absent, NoEntries}
    /\ nixhome' = Absent
    /\ GoOn(a, "unlock")
    /\ UNCHANGED <<toml, flake, flakeLock>>

\* Mutant: the lock stays.
RemoveLockNot(a) ==
    /\ run[a].at = "unlock"
    /\ run' = [run EXCEPT ![a].at = "copy", ![a].next = 0]
    /\ UNCHANGED kept

RemoveLock(a) ==
    /\ run[a].at = "unlock"
    /\ flakeLock' = Absent
    /\ run' = [run EXCEPT ![a].at = "copy", ![a].next = 0]
    /\ UNCHANGED <<toml, nixhome, flake>>

\* First the directory itself.
CopyEntry(a) ==
    LET i == run[a].next
        tree == TreeOf[run[a].source]
        there == IF nixhome = Absent THEN NoEntries ELSE nixhome
    IN
    /\ run[a].at = "copy"
    /\ nixhome' = IF i = 0 THEN there ELSE [there EXCEPT ![tree[i]] = run[a].source]
    /\ run' = IF i = Len(tree)
              THEN [run EXCEPT ![a].at = AfterSync[run[a].use], ![a].next = 0]
              ELSE [run EXCEPT ![a].next = i + 1]
    /\ UNCHANGED <<toml, flake, flakeLock>>

\* The source is missing, the clone or a copy fails.  Only the first of init's
\* copies is done without.
SyncFails(a) ==
    /\ run[a].at \in {"remove", "copy"}
    /\ IF run[a].use = "resolve" THEN GoOn(a, "validate") ELSE End(a)
    /\ UNCHANGED kept

-----------------------------------------------------------------------------
(* RunInitFlow and Scaffold. *)

\* A copy that lacks a directory is refused, none at all is not.  A local
\* nixhome is copied once more.
Validate(a) ==
    /\ run[a].at = "validate"
    /\ IF nixhome # Absent /\ (\E e \in Required : nixhome[e] = Absent)
       THEN End(a)
       ELSE IF run[a].source \in Local THEN Sync(a, "scaffold") ELSE GoOn(a, "flake")
    /\ UNCHANGED kept

WriteFlake(a) ==
    /\ run[a].at = "flake"
    /\ flake' = IF run[a].force \/ flake = Absent
                THEN Flake(run[a].choice, nixhome # Absent) ELSE flake
    /\ GoOn(a, "toml")
    /\ UNCHANGED <<toml, nixhome, flakeLock>>

WriteToml(a) ==
    /\ run[a].at = "toml"
    /\ toml' = IF run[a].force \/ toml = Absent THEN run[a].choice ELSE toml
    /\ GoOn(a, IF run[a].kind = "init" THEN "lock" ELSE "image")
    /\ UNCHANGED <<nixhome, flake, flakeLock>>

\* nix flake lock keeps what is resolved for an input it still finds in
\* flake.nix; nix flake update, of `cell init --update` and --force, does not.
UpdateFlakeLock(a) ==
    /\ run[a].at = "lock" /\ flake # Absent
    /\ \E update \in {run[a].force, TRUE} :
         IF ~update /\ flakeLock # Absent /\ flakeLock.local = flake.local
         THEN UNCHANGED flakeLock
         ELSE flakeLock' = [local |-> flake.local,
                            of |-> IF run[a].alone /\ flake.local THEN nixhome ELSE Absent]
    /\ End(a)
    /\ UNCHANGED <<toml, nixhome, flake>>

-----------------------------------------------------------------------------
(* build: the stack of devcell.toml is read again after the scaffold, then  *)
(* an image is built if there is none.                                      *)

NeedsBuild(a) ==
    /\ run[a].at = "image" /\ IsInitialized
    /\ \/ run' = [run EXCEPT ![a].at = "remove", ![a].use = "build", ![a].choice = toml]
       \/ End(a)
    /\ UNCHANGED kept

WriteOverlay(a) ==
    /\ run[a].at = "overlay"
    /\ flake' = Flake(run[a].choice, TRUE)
    /\ GoOn(a, "archive")
    /\ UNCHANGED <<toml, nixhome, flakeLock>>

\* WriteThinBuildContext sends what there is by now to the builder.
WriteThinBuildContext(a) ==
    /\ run[a].at = "archive" /\ flake # Absent /\ nixhome # Absent
    /\ End(a)
    /\ UNCHANGED kept

\* The user edits devcell.toml.
EditToml ==
    /\ IsInitialized
    /\ toml' \in Choices
    /\ UNCHANGED <<nixhome, flake, flakeLock, run>>

-----------------------------------------------------------------------------
\* The project is new, or its devcell.toml came with it.
FilesInit ==
    /\ toml \in {Absent, Base}
    /\ nixhome = Absent /\ flake = Absent /\ flakeLock = Absent
    /\ run = [a \in Actors |-> Idle]

Begin(a) == AskBuild(a) \/ (a \notin Builders /\ (AskInit(a) \/ AskAgent(a)))
SyncNixhome(a) ==
    RemoveEntry(a) \/ RemoveDirectory(a) \/ RemoveLock(a) \/ CopyEntry(a) \/ SyncFails(a)
Scaffold(a) ==
    Confirm(a) \/ Validate(a) \/ WriteFlake(a) \/ WriteToml(a) \/ UpdateFlakeLock(a)
Build(a) == NeedsBuild(a) \/ WriteOverlay(a) \/ WriteThinBuildContext(a)
FilesNext ==
    \/ \E a \in Actors : Begin(a) \/ SyncNixhome(a) \/ Scaffold(a) \/ Build(a) \/ Killed(a)
    \/ EditToml
FilesSpec == FilesInit /\ [][FilesNext]_filesVars

-----------------------------------------------------------------------------
\* Whatever earlier commands left in the project, killed at any point, a build
\* sends its builder the flake of the stack and modules that it was asked for
\* and the entries of its own nixhome, all of them and no others, if no other
\* command overlapped its own.
BuiltAsAsked ==
    \A a \in Actors : run[a].at = "archive" /\ run[a].alone =>
        /\ flake = Flake(run[a].choice, TRUE)
        /\ nixhome = CopyOf(run[a].source)

\* A lock that one command resolved from the nixhome is never there beside
\* entries of another one, whose nixpkgs it would pin to the old version: the
\* lock goes before the first new entry comes.
LockMatchesNixhome ==
    flakeLock # Absent /\ flakeLock.of # Absent /\ nixhome # Absent =>
        \A e \in Entries : nixhome[e] \in {Absent, flakeLock.of[e]}
=============================================================================
