--------------------------- MODULE ProjectProofs ----------------------------
(***************************************************************************)
(* Proofs about what a project keeps in files.                             *)
(*                                                                         *)
(* ProjectFiles, for any terminals, stacks and nixhomes: the types, that a *)
(* build sends what it was asked for whatever was killed before it, and    *)
(* that no lock outlives the nixhome it was resolved from.                 *)
(*                                                                         *)
(* ConfigLayers, for any files, contents and presets: what is merged of    *)
(* the policies, the modules and the models, file after file, is what      *)
(* their files mean together, and the cell a command attaches to has it.   *)
(***************************************************************************)
EXTENDS ConfigLayers, ProjectFiles, SequenceTheorems, TLAPS

(* ProjectFiles *)

\* A command that is alone has the project to itself.
OthersIdle == \A a \in Actors : run[a].alone => \A b \in Actors \ {a} : ~Working(b)

\* A command at work copies some source for some use.
Supplied == \A a \in Actors : Working(a) => run[a].source \in Sources /\ run[a].use # "none"

\* What of a source is there when n of the directory and its entries are.
PartOf(source, n) ==
    IF n = 0 THEN Absent
    ELSE [e \in Entries |->
            IF \E j \in DOMAIN TreeOf[source] : j < n /\ TreeOf[source][j] = e
            THEN source ELSE Absent]

\* What a command that is alone has made of the files so far.
MadeBy(a) ==
    run[a].alone =>
        /\ run[a].at = "unlock" => nixhome = Absent
        /\ run[a].at = "copy" => /\ run[a].next <= Len(TreeOf[run[a].source])
                                 /\ nixhome = PartOf(run[a].source, run[a].next)
        /\ run[a].at \in {"overlay", "archive"} => nixhome = CopyOf(run[a].source)
        /\ run[a].at = "archive" => flake = Flake(run[a].choice, TRUE)

\* Nobody copies while there is a lock of a known nixhome.
Unlocked == \A a \in Actors : run[a].at = "copy" /\ flakeLock # Absent => flakeLock.of = Absent

IInv ==
    /\ FilesTypes /\ OthersIdle /\ Supplied /\ (\A a \in Actors : MadeBy(a)) /\ Unlocked
    /\ LockMatchesNixhome

Commands ==
    [at : Stages, kind : {"none", "init", "agent", "build"},
     use : {"none", "resolve", "scaffold", "build"}, choice : Choices,
     source : Sources \cup {Absent}, force : BOOLEAN, next : Nat, alone : BOOLEAN]

-----------------------------------------------------------------------------
\* The first state has no nixhome, and nobody works.
LEMMA InitHolds == FilesInit => IInv
<1> SUFFICES ASSUME FilesInit PROVE IInv OBVIOUS
<1> USE ProjectAssumption DEF FilesInit, Idle
<1>1. FilesTypes BY DEF FilesTypes, Copies, Stages
<1>2. OthersIdle /\ Supplied /\ Unlocked BY DEF OthersIdle, Supplied, Working, Unlocked
<1>3. \A a \in Actors : MadeBy(a) BY DEF MadeBy
<1>4. LockMatchesNixhome BY DEF LockMatchesNixhome
<1>5. QED BY <1>1, <1>2, <1>3, <1>4 DEF IInv

\* When a works, nobody else is alone: so a step of its own keeps what is known
\* of the others, and that whoever is alone has the project to itself.
LEMMA OthersKept ==
  ASSUME IInv, NEW a \in Actors, Working(a), NEW r, run' = [run EXCEPT ![a] = r],
         r.alone => run[a].alone
  PROVE  OthersIdle' /\ \A b \in Actors \ {a} : MadeBy(b)'
<1>1. \A b \in Actors \ {a} : run'[b] = run[b] /\ ~run[b].alone
  BY DEF IInv, FilesTypes, OthersIdle
<1>2. run'[a] = r BY DEF IInv, FilesTypes
<1>3. OthersIdle' BY <1>1, <1>2 DEF IInv, OthersIdle, Working
<1>4. \A b \in Actors \ {a} : MadeBy(b)' BY <1>1 DEF MadeBy
<1>5. QED BY <1>3, <1>4

\* A step that leaves the lock, and starts no copying, keeps Unlocked.
LEMMA UnlockedKept ==
  ASSUME IInv, NEW a \in Actors, NEW r, run' = [run EXCEPT ![a] = r],
         r.at = "copy" => run[a].at = "copy", flakeLock' = flakeLock
  PROVE  Unlocked'
  BY DEF IInv, FilesTypes, Unlocked

\* What is left to show of a step of a command at work.
LEMMA StepKept ==
  ASSUME IInv, NEW a \in Actors, Working(a), NEW r \in Commands, run' = [run EXCEPT ![a] = r],
         r.alone => run[a].alone,
         r.at # "idle" => r.source \in Sources /\ r.use # "none",
         nixhome' \in Copies, toml' \in Choices \cup {Absent},
         flake' \in [choice : Choices, local : BOOLEAN] \cup {Absent},
         flakeLock' \in [local : BOOLEAN, of : Copies] \cup {Absent},
         MadeBy(a)', Unlocked', LockMatchesNixhome'
  PROVE  IInv'
<1>1. FilesTypes' BY DEF IInv, FilesTypes, Commands
<1>2. OthersIdle' /\ \A b \in Actors : MadeBy(b)' BY OthersKept
<1>3. Supplied' BY DEF IInv, FilesTypes, Supplied, Working
<1>4. QED BY <1>1, <1>2, <1>3 DEF IInv

-----------------------------------------------------------------------------
\* A command that starts has written nothing, and takes from those at work what
\* they had for themselves.
LEMMA StartKept ==
  ASSUME IInv, NEW a \in Actors, NEW c \in Commands, Start(a, c),
         c.at \notin {"unlock", "copy", "overlay", "archive"},
         c.source \in Sources, c.use # "none"
  PROVE  IInv'
<1>1. \A b \in Actors \ {a} : run'[b] = [run[b] EXCEPT !.alone = FALSE]
  BY DEF Start
<1>2. run'[a] = [c EXCEPT !.alone = \A b \in Actors : ~Working(b)]
  BY DEF Start
<1>3. \A b \in Actors : run[b] \in Commands BY DEF IInv, FilesTypes, Commands
<1>4. run'[a] \in Commands /\ run'[a].at = c.at /\ run'[a].source = c.source /\ run'[a].use = c.use
  BY <1>2 DEF Commands
<1>5. \A b \in Actors \ {a} :
        /\ run'[b] \in Commands /\ ~run'[b].alone
        /\ run'[b].at = run[b].at /\ run'[b].source = run[b].source /\ run'[b].use = run[b].use
  <2> TAKE b \in Actors \ {a}
  <2>1. run[b] \in Commands BY <1>3
  <2>2. run'[b] = [run[b] EXCEPT !.alone = FALSE] BY <1>1
  <2>3. QED BY <2>1, <2>2 DEF Commands
<1>6. UNCHANGED kept BY DEF Start
<1>7. FilesTypes'
  <2>1. run' \in [Actors -> Commands] BY <1>4, <1>5 DEF Start
  <2>2. QED BY <2>1, <1>6 DEF IInv, FilesTypes, Commands, kept
<1>8. OthersIdle'
  <2>1. run'[a].alone => \A b \in Actors : ~Working(b) BY <1>2, <1>3 DEF Commands
  <2>2. QED BY <2>1, <1>5 DEF OthersIdle, Working
<1>9. Supplied' BY <1>4, <1>5 DEF IInv, Supplied, Working
<1>10. \A b \in Actors : MadeBy(b)' BY <1>4, <1>5 DEF MadeBy
<1>11. Unlocked' BY <1>4, <1>5, <1>6 DEF IInv, Unlocked, kept
<1>12. LockMatchesNixhome' BY <1>6 DEF IInv, LockMatchesNixhome, kept
<1>13. QED BY <1>7, <1>8, <1>9, <1>10, <1>11, <1>12 DEF IInv

\* Every command starts with the files as they are.
LEMMA BeginKept == ASSUME IInv, NEW a \in Actors, Begin(a) PROVE IInv'
<1> USE DEF Command, Commands, Stages
<1>1. CASE AskInit(a)
  <2>1. PICK choice \in Choices, source \in Sources, force \in BOOLEAN, at \in {"ask", "remove"} :
          Start(a, Command("init", at, choice, source, force))
    BY <1>1 DEF AskInit
  <2>2. QED BY <2>1, StartKept
<1>2. CASE AskAgent(a)
  <2>1. PICK source \in Sources, at \in {"image", "remove", "validate"} :
          Start(a, Command("agent", at, Base, source, FALSE))
    BY <1>2 DEF AskAgent
  <2>2. QED BY <2>1, StartKept, ProjectAssumption
<1>3. CASE AskBuild(a)
  <2>1. PICK choice \in Choices, source \in Sources :
          Start(a, [Command("build", "remove", choice, source, FALSE) EXCEPT !.use = "build"])
    BY <1>3 DEF AskBuild
  <2>2. QED BY <2>1, StartKept
<1>4. QED BY <1>1, <1>2, <1>3 DEF Begin

-----------------------------------------------------------------------------
\* Removing the old copy.
LEMMA RemoveKept ==
  ASSUME IInv, NEW a \in Actors, RemoveEntry(a) \/ RemoveDirectory(a) \/ RemoveLock(a)
  PROVE  IInv'
<1>1. run[a] \in Commands /\ (Working(a) => run[a].source \in Sources /\ run[a].use # "none")
  BY DEF IInv, FilesTypes, Commands, Supplied
<1>2. CASE RemoveEntry(a)
  <2>1. run' = [run EXCEPT ![a] = run[a]] BY <1>2 DEF IInv, FilesTypes, RemoveEntry
  <2>2. Working(a) BY <1>2 DEF RemoveEntry, Working
  <2>3. PICK e \in Entries : nixhome' = [nixhome EXCEPT ![e] = Absent]
    BY <1>2 DEF RemoveEntry
  <2>4. nixhome # Absent /\ nixhome \in [Entries -> Sources \cup {Absent}]
    BY <1>2 DEF IInv, FilesTypes, Copies, RemoveEntry
  <2>5. nixhome' \in Copies BY <2>3, <2>4 DEF Copies
  <2>6. MadeBy(a)' BY <1>2 DEF MadeBy, RemoveEntry
  <2>7. Unlocked' BY <1>2 DEF IInv, Unlocked, RemoveEntry
  <2>8. LockMatchesNixhome'
    BY <1>2, <2>3, <2>4 DEF IInv, LockMatchesNixhome, RemoveEntry
  <2>9. UNCHANGED <<toml, flake, flakeLock>> BY <1>2 DEF RemoveEntry
  <2>10. QED BY <1>1, <2>1, <2>2, <2>5, <2>6, <2>7, <2>8, <2>9, StepKept DEF IInv, FilesTypes
<1>3. CASE RemoveDirectory(a)
  <2> DEFINE new == [run[a] EXCEPT !.at = "unlock"]
  <2>1. run' = [run EXCEPT ![a] = new] /\ Working(a)
    BY <1>3 DEF RemoveDirectory, GoOn, Working
  <2>2. new \in Commands /\ new.alone = run[a].alone /\ new.source = run[a].source
        /\ new.use = run[a].use /\ new.at = "unlock"
    BY <1>1 DEF Commands, Stages
  <2>3. nixhome' = Absent /\ UNCHANGED <<toml, flake, flakeLock>> BY <1>3 DEF RemoveDirectory
  <2>4. run'[a] = new BY <2>1 DEF IInv, FilesTypes
  <2> HIDE DEF new
  <2>5. MadeBy(a)' BY <2>2, <2>3, <2>4 DEF MadeBy
  <2>6. Unlocked' BY <2>1, <2>2, <2>3, UnlockedKept
  <2>7. LockMatchesNixhome' BY <2>3 DEF LockMatchesNixhome
  <2>8. nixhome' \in Copies BY <2>3 DEF Copies
  <2>9. QED BY <1>1, <2>1, <2>2, <2>3, <2>5, <2>6, <2>7, <2>8, StepKept DEF IInv, FilesTypes
<1>4. CASE RemoveLock(a)
  <2> DEFINE new == [run[a] EXCEPT !.at = "copy", !.next = 0]
  <2>1. run' = [run EXCEPT ![a] = new] /\ Working(a)
    BY <1>4 DEF RemoveLock, Working
  <2>2. new \in Commands /\ new.alone = run[a].alone /\ new.source = run[a].source
        /\ new.use = run[a].use /\ new.at = "copy" /\ new.next = 0
    BY <1>1 DEF Commands, Stages
  <2>3. flakeLock' = Absent /\ UNCHANGED <<toml, nixhome, flake>> BY <1>4 DEF RemoveLock
  <2>4. run'[a] = new BY <2>1 DEF IInv, FilesTypes
  <2> HIDE DEF new
  <2>5. run[a].alone => nixhome = Absent BY <1>4 DEF IInv, MadeBy, RemoveLock
  <2>6. MadeBy(a)'
    <3>1. Len(TreeOf[run[a].source]) \in Nat BY <1>1, <2>1, ProjectAssumption
    <3>2. run[a].alone => nixhome = PartOf(run[a].source, 0) BY <2>5 DEF PartOf
    <3>3. run[a].alone => 0 <= Len(TreeOf[run[a].source]) BY <3>1
    <3>4. QED BY <2>2, <2>3, <2>4, <3>2, <3>3 DEF MadeBy
  <2>7. Unlocked' /\ LockMatchesNixhome' BY <2>3 DEF Unlocked, LockMatchesNixhome
  <2>8. QED BY <1>1, <2>1, <2>2, <2>3, <2>6, <2>7, StepKept DEF IInv, FilesTypes
<1>5. QED BY <1>2, <1>3, <1>4

\* Copying an entry of the new source: the lock is gone by then.
LEMMA CopyKept == ASSUME IInv, NEW a \in Actors, CopyEntry(a) PROVE IInv'
<1> DEFINE i == run[a].next
           source == run[a].source
           tree == TreeOf[source]
           there == IF nixhome = Absent THEN NoEntries ELSE nixhome
           new == IF i = Len(tree)
                  THEN [run[a] EXCEPT !.at = AfterSync[run[a].use], !.next = 0]
                  ELSE [run[a] EXCEPT !.next = i + 1]
<1>1. /\ run[a] \in Commands /\ run[a].at = "copy" /\ Working(a)
      /\ source \in Sources /\ run[a].use # "none" /\ i \in Nat
  BY DEF IInv, FilesTypes, Commands, Supplied, CopyEntry, Working
<1>2. tree \in Seq(Entries) BY <1>1, ProjectAssumption
<1>3. nixhome' = IF i = 0 THEN there ELSE [there EXCEPT ![tree[i]] = source]
  BY DEF CopyEntry
<1>4. run' = [run EXCEPT ![a] = new] BY DEF CopyEntry
<1>5. UNCHANGED <<toml, flake, flakeLock>> BY DEF CopyEntry
<1>6. there \in [Entries -> Sources \cup {Absent}]
  BY DEF IInv, FilesTypes, Copies, NoEntries
<1>7. nixhome' \in Copies BY <1>1, <1>3, <1>6 DEF Copies
<1>8. /\ new \in Commands /\ new.alone = run[a].alone /\ new.source = source
      /\ new.use = run[a].use /\ new.at \notin {"unlock", "archive"}
      /\ IF i = Len(tree) THEN new.at \in {"validate", "flake", "overlay"}
                          ELSE new.at = "copy" /\ new.next = i + 1
  <2>1. run[a].use \in {"resolve", "scaffold", "build"} BY <1>1 DEF Commands
  <2>2. AfterSync[run[a].use] \in {"validate", "flake", "overlay"} BY <2>1 DEF AfterSync
  <2>3. CASE i = Len(tree) BY <1>1, <2>2, <2>3 DEF Commands, Stages
  <2>4. CASE i # Len(tree) BY <1>1, <2>4 DEF Commands
  <2>5. QED BY <2>3, <2>4
<1>9. run'[a] = new BY <1>4 DEF IInv, FilesTypes
<1>10. DOMAIN tree = 1 .. Len(tree) /\ Len(tree) \in Nat BY <1>2
<1>11. run[a].alone => i <= Len(tree) /\ nixhome' = PartOf(source, i + 1)
  <2> SUFFICES ASSUME run[a].alone PROVE i <= Len(tree) /\ nixhome' = PartOf(source, i + 1) OBVIOUS
  <2>1. i <= Len(tree) /\ nixhome = PartOf(source, i) BY <1>1 DEF IInv, MadeBy
  <2>2. CASE i = 0
    <3>1. nixhome' = NoEntries BY <1>3, <2>1, <2>2 DEF PartOf
    <3>2. PartOf(source, 1) = NoEntries BY <1>10 DEF PartOf, NoEntries
    <3>3. QED BY <2>1, <2>2, <3>1, <3>2
  <2>3. CASE i # 0
    <3> DEFINE Copied(n, e) == \E j \in DOMAIN tree : j < n /\ tree[j] = e
               Part(n) == [e \in Entries |-> IF Copied(n, e) THEN source ELSE Absent]
    <3>1. nixhome = Part(i) BY <2>1, <2>3 DEF PartOf
    <3>2. nixhome \in [Entries -> Sources \cup {Absent}] BY <1>1, <3>1
    <3>3. there = nixhome BY <3>2, ProjectAssumption
    <3>4. nixhome' = [Part(i) EXCEPT ![tree[i]] = source] BY <1>3, <2>3, <3>1, <3>3
    <3>5. i \in DOMAIN tree BY <1>1, <1>10, <2>1, <2>3
    <3>6. ASSUME NEW e \in Entries PROVE Copied(i + 1, e) <=> Copied(i, e) \/ tree[i] = e
      BY <1>1, <1>10, <3>5
    <3> HIDE DEF Copied
    <3>7. [Part(i) EXCEPT ![tree[i]] = source] = Part(i + 1) BY <3>6
    <3>8. PartOf(source, i + 1) = Part(i + 1) BY <1>1 DEF PartOf, Copied
    <3>9. QED BY <2>1, <3>4, <3>7, <3>8
  <2>4. QED BY <2>2, <2>3
<1>12. i = Len(tree) => PartOf(source, i + 1) = CopyOf(source)
  BY <1>1, <1>10 DEF PartOf, CopyOf
<1> HIDE DEF new
<1>13. MadeBy(a)'
  <2>1. CASE i = Len(tree)
    <3>1. run[a].alone => nixhome' = CopyOf(source) BY <1>11, <1>12, <2>1
    <3>2. run'[a].at \notin {"unlock", "copy", "archive"} /\ run'[a].alone = run[a].alone
          /\ run'[a].source = source
      BY <1>8, <1>9, <2>1
    <3>3. QED BY <3>1, <3>2 DEF MadeBy
  <2>2. CASE i # Len(tree)
    <3>1. run[a].alone => i + 1 <= Len(tree) /\ nixhome' = PartOf(source, i + 1)
      BY <1>1, <1>10, <1>11, <2>2
    <3>2. run'[a].at = "copy" /\ run'[a].next = i + 1 /\ run'[a].alone = run[a].alone
          /\ run'[a].source = source
      BY <1>8, <1>9, <2>2
    <3>3. QED BY <3>1, <3>2 DEF MadeBy
  <2>3. QED BY <2>1, <2>2
<1>14. Unlocked' BY <1>1, <1>4, <1>5, UnlockedKept
<1>15. LockMatchesNixhome'
  BY <1>1, <1>5 DEF IInv, Unlocked, LockMatchesNixhome
<1>16. QED
  BY <1>1, <1>4, <1>5, <1>7, <1>8, <1>13, <1>14, <1>15, StepKept DEF IInv, FilesTypes
-----------------------------------------------------------------------------
\* A step of a command that touches no file, and leads to no copying.
LEMMA FilesLeft ==
  ASSUME IInv, NEW a \in Actors, Working(a), NEW r \in Commands, run' = [run EXCEPT ![a] = r],
         UNCHANGED kept, r.alone => run[a].alone,
         r.at \notin {"unlock", "copy", "overlay", "archive"},
         r.at # "idle" => r.source \in Sources /\ r.use # "none"
  PROVE  IInv'
<1>1. run'[a] = r BY DEF IInv, FilesTypes
<1>2. MadeBy(a)' BY <1>1 DEF MadeBy
<1>3. UNCHANGED <<toml, nixhome, flake, flakeLock>> BY DEF kept
<1>4. Unlocked' BY <1>3, UnlockedKept
<1>5. LockMatchesNixhome' BY <1>3 DEF IInv, LockMatchesNixhome
<1>6. QED BY <1>2, <1>3, <1>4, <1>5, StepKept DEF IInv, FilesTypes

\* A command that ends leaves the files as they are.
LEMMA EndKept == ASSUME IInv, NEW a \in Actors, Working(a), End(a), UNCHANGED kept PROVE IInv'
<1>1. Idle \in Commands /\ ~Idle.alone /\ Idle.at = "idle"
  BY ProjectAssumption DEF Idle, Commands, Stages
<1>2. run' = [run EXCEPT ![a] = Idle] BY DEF End
<1>3. QED BY <1>1, <1>2, FilesLeft

\* A step to another stage, for the same or for another use.
LEMMA GoOnKept ==
  ASSUME IInv, NEW a \in Actors, Working(a), UNCHANGED kept,
         NEW at \in Stages \ {"unlock", "copy", "overlay", "archive"},
         NEW use \in {"resolve", "scaffold", "build"}, NEW choice \in Choices,
         NEW force \in BOOLEAN,
         run' = [run EXCEPT ![a].at = at, ![a].use = use, ![a].choice = choice,
                            ![a].force = force]
  PROVE  IInv'
<1> DEFINE new == [run[a] EXCEPT !.at = at, !.use = use, !.choice = choice, !.force = force]
<1>1. run[a] \in Commands /\ run[a].source \in Sources
  BY DEF IInv, FilesTypes, Commands, Supplied
<1>2. run' = [run EXCEPT ![a] = new] BY DEF IInv, FilesTypes
<1>3. /\ new \in Commands /\ new.alone = run[a].alone /\ new.source = run[a].source
      /\ new.use = use /\ new.at = at
  BY <1>1 DEF Commands
<1> HIDE DEF new
<1>4. new.at \notin {"unlock", "copy", "overlay", "archive"} BY <1>3
<1>5. new.alone => run[a].alone BY <1>3
<1>6. new.at # "idle" => new.source \in Sources /\ new.use # "none" BY <1>1, <1>3
<1>7. QED BY <1>2, <1>3, <1>4, <1>5, <1>6, FilesLeft

\* The steps of Scaffold and Build that only decide.
LEMMA DecisionKept ==
  ASSUME IInv, NEW a \in Actors,
         SyncFails(a) \/ Confirm(a) \/ Validate(a) \/ NeedsBuild(a) \/ WriteThinBuildContext(a)
           \/ Killed(a)
  PROVE  IInv'
<1>1. Working(a) /\ UNCHANGED kept
  BY DEF SyncFails, Confirm, Validate, NeedsBuild, WriteThinBuildContext, Killed, Working
<1>2. /\ run[a].at \in Stages /\ run[a].choice \in Choices /\ run[a].force \in BOOLEAN
      /\ run[a].use \in {"resolve", "scaffold", "build"} /\ run[a] \in Commands
      /\ toml \in Choices \cup {Absent}
  BY <1>1 DEF IInv, FilesTypes, Supplied, Commands
<1>3. ASSUME NEW at \in {"validate", "flake"}, GoOn(a, at) PROVE IInv'
  <2>1. run' = [run EXCEPT ![a].at = at, ![a].use = run[a].use, ![a].choice = run[a].choice,
                           ![a].force = run[a].force]
    BY <1>2, <1>3 DEF GoOn, Commands, IInv, FilesTypes
  <2>2. QED BY <1>1, <1>2, <2>1, GoOnKept DEF Stages
<1>4. ASSUME Sync(a, "scaffold") PROVE IInv'
  <2>1. run' = [run EXCEPT ![a].at = "remove", ![a].use = "scaffold",
                           ![a].choice = run[a].choice, ![a].force = run[a].force]
    BY <1>2, <1>4 DEF Sync, Commands, IInv, FilesTypes
  <2>2. QED BY <1>1, <1>2, <2>1, GoOnKept DEF Stages
<1>5. ASSUME run' = [run EXCEPT ![a].at = "remove", ![a].force = TRUE] PROVE IInv'
  <2>1. run' = [run EXCEPT ![a].at = "remove", ![a].use = run[a].use,
                           ![a].choice = run[a].choice, ![a].force = TRUE]
    BY <1>2, <1>5 DEF Commands, IInv, FilesTypes
  <2>2. QED BY <1>1, <1>2, <2>1, GoOnKept DEF Stages
<1>6. ASSUME toml # Absent,
             run' = [run EXCEPT ![a].at = "remove", ![a].use = "build", ![a].choice = toml]
      PROVE  IInv'
  <2>1. PICK choice \in Choices : choice = toml BY <1>2, <1>6
  <2>2. run' = [run EXCEPT ![a].at = "remove", ![a].use = "build", ![a].choice = choice,
                           ![a].force = run[a].force]
    BY <1>2, <1>6, <2>1 DEF Commands, IInv, FilesTypes
  <2>3. QED BY <1>1, <1>2, <2>2, GoOnKept DEF Stages
<1>7. CASE SyncFails(a) BY <1>1, <1>3, <1>7, EndKept DEF SyncFails
<1>8. CASE Confirm(a) BY <1>1, <1>5, <1>8, EndKept DEF Confirm
<1>9. CASE Validate(a) BY <1>1, <1>3, <1>4, <1>9, EndKept DEF Validate
<1>10. CASE NeedsBuild(a) BY <1>1, <1>6, <1>10, EndKept DEF NeedsBuild, IsInitialized
<1>11. CASE WriteThinBuildContext(a) BY <1>1, <1>11, EndKept DEF WriteThinBuildContext
<1>12. CASE Killed(a) BY <1>1, <1>12, EndKept DEF Killed
<1>13. QED BY <1>7, <1>8, <1>9, <1>10, <1>11, <1>12

\* The steps that write devcell.toml, flake.nix and flake.lock.
LEMMA WriteKept ==
  ASSUME IInv, NEW a \in Actors,
         WriteFlake(a) \/ WriteToml(a) \/ WriteOverlay(a) \/ UpdateFlakeLock(a)
  PROVE  IInv'
<1>1. /\ Working(a) /\ run[a] \in Commands
      /\ run[a].source \in Sources /\ run[a].use # "none" /\ run[a].choice \in Choices
  BY DEF WriteFlake, WriteToml, WriteOverlay, UpdateFlakeLock, Working, IInv, FilesTypes,
         Supplied, Commands
<1>2. nixhome' = nixhome
  BY DEF WriteFlake, WriteToml, WriteOverlay, UpdateFlakeLock
<1>3. ASSUME NEW at \in {"toml", "lock", "image", "archive"}, GoOn(a, at),
             toml' \in Choices \cup {Absent}, flakeLock' = flakeLock,
             flake' \in [choice : Choices, local : BOOLEAN] \cup {Absent},
             at = "archive" /\ run[a].alone
               => nixhome = CopyOf(run[a].source) /\ flake' = Flake(run[a].choice, TRUE)
      PROVE  IInv'
  <2> DEFINE new == [run[a] EXCEPT !.at = at]
  <2>1. run' = [run EXCEPT ![a] = new] BY <1>3 DEF GoOn
  <2>2. /\ new \in Commands /\ new.alone = run[a].alone /\ new.source = run[a].source
        /\ new.use = run[a].use /\ new.choice = run[a].choice /\ new.at = at
    BY <1>1 DEF Commands, Stages
  <2>3. run'[a] = new BY <2>1 DEF IInv, FilesTypes
  <2> HIDE DEF new
  <2>4. MadeBy(a)' BY <1>2, <1>3, <2>2, <2>3 DEF MadeBy
  <2>5. Unlocked' BY <1>3, <2>1, <2>2, UnlockedKept
  <2>6. LockMatchesNixhome' BY <1>2, <1>3 DEF IInv, LockMatchesNixhome
  <2>7. QED
    BY <1>1, <1>2, <1>3, <2>1, <2>2, <2>4, <2>5, <2>6, StepKept DEF IInv, FilesTypes
<1>4. CASE WriteFlake(a)
  <2>1. flake' \in [choice : Choices, local : BOOLEAN] \cup {Absent}
    BY <1>1, <1>4 DEF WriteFlake, Flake, IInv, FilesTypes
  <2>2. QED BY <1>3, <1>4, <2>1 DEF WriteFlake, IInv, FilesTypes
<1>5. CASE WriteToml(a)
  BY <1>1, <1>3, <1>5 DEF WriteToml, IInv, FilesTypes
<1>6. CASE WriteOverlay(a)
  <2>1. flake' \in [choice : Choices, local : BOOLEAN] BY <1>1, <1>6 DEF WriteOverlay, Flake
  <2>2. run[a].alone => nixhome = CopyOf(run[a].source) BY <1>6 DEF WriteOverlay, IInv, MadeBy
  <2>3. QED BY <1>3, <1>6, <2>1, <2>2 DEF WriteOverlay, IInv, FilesTypes
<1>7. CASE UpdateFlakeLock(a)
  <2>1. Idle \in Commands /\ ~Idle.alone /\ Idle.at = "idle"
    BY ProjectAssumption DEF Idle, Commands, Stages
  <2>2. run' = [run EXCEPT ![a] = Idle] /\ UNCHANGED <<toml, nixhome, flake>>
    BY <1>7 DEF UpdateFlakeLock, End
  <2>3. run'[a] = Idle BY <2>2 DEF IInv, FilesTypes
  <2>4. MadeBy(a)' BY <2>1, <2>3 DEF MadeBy
  <2>5. CASE flakeLock' = flakeLock
    <3>1. Unlocked' BY <2>1, <2>2, <2>5, UnlockedKept
    <3>2. LockMatchesNixhome' BY <2>2, <2>5 DEF IInv, LockMatchesNixhome
    <3>3. QED BY <1>1, <2>1, <2>2, <2>4, <2>5, <3>1, <3>2, StepKept DEF IInv, FilesTypes
  <2>6. CASE flakeLock' = [local |-> flake.local,
                           of |-> IF run[a].alone /\ flake.local THEN nixhome ELSE Absent]
    <3>1. flake.local \in BOOLEAN BY <1>7 DEF UpdateFlakeLock, IInv, FilesTypes
    <3>2. flakeLock' \in [local : BOOLEAN, of : Copies]
      BY <2>6, <3>1 DEF IInv, FilesTypes, Copies
    <3>3. flakeLock'.of = IF run[a].alone /\ flake.local THEN nixhome ELSE Absent BY <2>6
    <3>4. LockMatchesNixhome' BY <2>2, <3>3 DEF LockMatchesNixhome
    <3>5. Unlocked'
      <4>1. CASE run[a].alone
        <5>1. \A b \in Actors : run'[b].at = "idle"
          BY <2>1, <2>2, <4>1 DEF IInv, FilesTypes, OthersIdle, Working
        <5>2. QED BY <5>1 DEF Unlocked
      <4>2. CASE ~run[a].alone BY <3>3, <4>2 DEF Unlocked
      <4>3. QED BY <4>1, <4>2
    <3>6. QED BY <1>1, <2>1, <2>2, <2>4, <3>2, <3>4, <3>5, StepKept DEF IInv, FilesTypes
  <2>7. QED BY <1>7, <2>5, <2>6 DEF UpdateFlakeLock
<1>8. QED BY <1>4, <1>5, <1>6, <1>7

-----------------------------------------------------------------------------
LEMMA StepsKept == ASSUME IInv, [FilesNext]_filesVars PROVE IInv'
<1>1. ASSUME NEW a \in Actors,
             Begin(a) \/ SyncNixhome(a) \/ Scaffold(a) \/ Build(a) \/ Killed(a)
      PROVE  IInv'
  BY <1>1, BeginKept, RemoveKept, CopyKept, DecisionKept, WriteKept
     DEF SyncNixhome, Scaffold, Build
<1>2. CASE EditToml
  <2>1. FilesTypes' BY <1>2 DEF EditToml, IInv, FilesTypes
  <2>2. OthersIdle' /\ Supplied' BY <1>2 DEF EditToml, IInv, OthersIdle, Supplied, Working
  <2>3. (\A a \in Actors : MadeBy(a)') /\ Unlocked' BY <1>2 DEF EditToml, IInv, MadeBy, Unlocked
  <2>4. LockMatchesNixhome' BY <1>2 DEF EditToml, IInv, LockMatchesNixhome
  <2>5. QED BY <2>1, <2>2, <2>3, <2>4 DEF IInv
<1>3. CASE UNCHANGED filesVars
  <2>1. FilesTypes' BY <1>3 DEF filesVars, IInv, FilesTypes
  <2>2. OthersIdle' /\ Supplied' BY <1>3 DEF filesVars, IInv, OthersIdle, Supplied, Working
  <2>3. (\A a \in Actors : MadeBy(a)') /\ Unlocked' BY <1>3 DEF filesVars, IInv, MadeBy, Unlocked
  <2>4. LockMatchesNixhome' BY <1>3 DEF filesVars, IInv, LockMatchesNixhome
  <2>5. QED BY <2>1, <2>2, <2>3, <2>4 DEF IInv
<1>4. QED BY <1>1, <1>2, <1>3 DEF FilesNext

LEMMA Invariance == FilesSpec => []IInv
  BY InitHolds, StepsKept, PTL DEF FilesSpec

\* The types of the project's files and of the commands hold in every state.
THEOREM FilesTypesHold == FilesSpec => []FilesTypes
<1>1. IInv => FilesTypes BY DEF IInv
<1>2. QED BY <1>1, Invariance, PTL

\* A build that no other command overlaps sends the flake and the nixhome that
\* it was asked for, whatever commands were killed before it.
THEOREM BuildsAreAsAsked == FilesSpec => []BuiltAsAsked
<1>1. IInv => BuiltAsAsked BY DEF IInv, MadeBy, BuiltAsAsked
<1>2. QED BY <1>1, Invariance, PTL

\* No lock of one version of the nixhome is beside entries of another.
THEOREM LocksMatch == FilesSpec => []LockMatchesNixhome
<1>1. IInv => LockMatchesNixhome BY DEF IInv
<1>2. QED BY <1>1, Invariance, PTL

-----------------------------------------------------------------------------
(* ConfigLayers: the types of what is read. *)

FileNames == {Files[i] : i \in DOMAIN Files}
Texts == UNION {Contents[f] : f \in FileNames}
FileStates == {Missing, Broken} \cup {Has(raw) : raw \in Texts}
LayerSet == {ZeroConfig} \cup {LoadFile(raw) : raw \in Texts}

\* What a command has read, and the files it reads.
ReadInv ==
    /\ files \in [FileNames -> FileStates]
    /\ read \in Seq(LayerSet)
    /\ step = "idle" => read = <<>>
    /\ step \in {"check", "load"} => Len(read) \in 0 .. Len(Files)

\* The files a command reads are named ones.
LEMMA FilesNamed == ASSUME NEW i \in DOMAIN Files PROVE Files[i] \in FileNames
BY DEF FileNames

\* What the next file gives is a layer, ...
LEMMA LayerTyped ==
  ASSUME ReadInv, Len(read) < Len(Files)
  PROVE  Layer \in LayerSet /\ NextFile \in FileNames
<1> USE FilesAssumption DEF ReadInv
<1>1. Len(read) + 1 \in DOMAIN Files
  OBVIOUS
<1>2. NextFile \in FileNames
  BY <1>1 DEF NextFile, FileNames
<1>3. files[NextFile] \in FileStates
  BY <1>2
<1>4. CASE files[NextFile].state = "text"
  <2>1. PICK raw \in Texts : files[NextFile] = Has(raw)
    BY <1>3, <1>4 DEF FileStates, Missing, Broken
  <2>2. files[NextFile].raw = raw
    BY <2>1 DEF Has
  <2> QED BY <1>2, <1>4, <2>2 DEF Layer, LayerSet
<1>5. CASE files[NextFile].state # "text"
  BY <1>2, <1>5 DEF Layer, LayerSet
<1> QED BY <1>4, <1>5

\* ... and a configuration that is whole has at least one.
LEMMA WholeIsRead == Whole => step \in {"check", "load"} /\ read # <<>>
BY FilesAssumption DEF Whole

\* One layer more.
LEMMA Appended ==
  ASSUME NEW layers \in Seq(LayerSet), NEW l \in LayerSet
  PROVE  LET all == Append(layers, l)
             n == Len(layers)
         IN /\ n \in Nat /\ Len(all) = n + 1
            /\ DOMAIN layers = 1 .. n /\ DOMAIN all = 1 .. n + 1
            /\ \A k \in 1 .. n : all[k] = layers[k]
            /\ all[n + 1] = l
            /\ n = Len(layers)
OBVIOUS

\* Nothing is read at first.
LEMMA ReadInit == Init => ReadInv
<1> SUFFICES ASSUME Init PROVE ReadInv
  OBVIOUS
<1> USE FilesAssumption
<1>1. files \in [FileNames -> FileStates]
  <2> DEFINE S == {Missing} \cup UNION {{Has(raw) : raw \in Contents[Files[i]]} : i \in DOMAIN Files}
  <2>1. files \in [FileNames -> S]
    BY DEF Init, FileNames
  <2>2. S \subseteq FileStates
    BY DEF FileStates, Texts, FileNames
  <2> QED BY <2>1, <2>2
<1>2. read = <<>> /\ step = "idle"
  BY DEF Init
<1>3. Len(<<>>) = 0 /\ <<>> \in Seq(LayerSet) /\ Len(Files) \in Nat
  OBVIOUS
<1> QED BY <1>1, <1>2, <1>3 DEF ReadInv

\* Reading a file adds a layer, and a new command starts over.
LEMMA ReadStep == ReadInv /\ [Next]_vars => ReadInv'
<1> SUFFICES ASSUME ReadInv, [Next]_vars PROVE ReadInv'
  OBVIOUS
<1> USE FilesAssumption
<1>0. Len(Files) \in Nat /\ Len(<<>>) = 0 /\ <<>> \in Seq(LayerSet)
  OBVIOUS
<1>1. ASSUME NEW i \in DOMAIN Files, EditFile(Files[i]) PROVE ReadInv'
  <2>1. PICK c \in {Has(raw) : raw \in Contents[Files[i]]} \cup {Missing, Broken} :
            files' = [files EXCEPT ![Files[i]] = c]
    BY <1>1 DEF EditFile
  <2>2. c \in FileStates
    BY DEF FileStates, Texts, FileNames
  <2>3. files' \in [FileNames -> FileStates]
    BY <2>1, <2>2 DEF ReadInv
  <2> QED BY <1>1, <2>3 DEF ReadInv, EditFile
<1>2. CASE Invoke
  BY <1>2, <1>0 DEF Invoke, ReadInv, unchangedWorld
<1>3. CASE LoadGlobal
  <2>1. Layer \in LayerSet
    BY <1>3, LayerTyped, <1>0 DEF LoadGlobal
  <2> QED BY <1>3, <2>1, <1>0 DEF LoadGlobal, ReadInv, unchangedWorld
<1>4. CASE MergeNext
  <2>1. Layer \in LayerSet
    BY <1>4, LayerTyped, <1>0 DEF MergeNext, ReadInv
  <2> QED BY <1>4, <2>1, <1>0 DEF MergeNext, ReadInv, unchangedWorld
<1>5. CASE Refuse
  BY <1>5, <1>0 DEF Refuse, Exit, Fresh, ReadInv, unchangedWorld
<1>6. CASE Checked
  BY <1>6, <1>0 DEF Checked, Fresh, ReadInv, unchangedWorld
<1>7. CASE FallBack
  BY <1>7, <1>0 DEF FallBack, ReadInv, unchangedWorld
<1>8. CASE Loaded
  BY <1>8, <1>0 DEF Loaded, ReadInv, unchangedWorld
<1>9. CASE EnsureProxySidecar
  BY <1>9, <1>0 DEF EnsureProxySidecar, ReadInv
<1>10. CASE Incompatible
  BY <1>10, <1>0 DEF Incompatible, Exit, Fresh, ReadInv, unchangedWorld
<1>11. CASE WithoutProxy
  BY <1>11, <1>0 DEF WithoutProxy, ReadInv, unchangedWorld
<1>12. CASE StartCell
  BY <1>12, <1>0 DEF StartCell, ReadInv
<1>13. CASE AttachToRunning
  BY <1>13, <1>0 DEF AttachToRunning, ReadInv
<1>14. ASSUME NEW stays \in BOOLEAN, Leave(stays) PROVE ReadInv'
  BY <1>14, <1>0 DEF Leave, Exit, Fresh, ReadInv
<1>15. CASE UNCHANGED vars
  BY <1>15, <1>0 DEF vars, ReadInv
<1> QED
  BY <1>1, <1>2, <1>3, <1>4, <1>5, <1>6, <1>7, <1>8, <1>9, <1>10, <1>11, <1>12, <1>13,
     <1>14, <1>15 DEF Next

\* What a step does to the layers of a command that loads: nothing, the first
\* layer, a file that is missing, or a merge.
LEMMA LoadStep ==
  ASSUME ReadInv, [Next]_vars, step' \in {"check", "load"}, read' # <<>>
  PROVE  \/ step \in {"check", "load"} /\ read' = read /\ config' = config
         \/ \E l \in LayerSet : read' = <<l>> /\ config' = l
         \/ /\ step \in {"check", "load"} /\ read # <<>>
            /\ \/ read' = Append(read, ZeroConfig) /\ config' = config
               \/ \E l \in LayerSet : read' = Append(read, l) /\ config' = Merge(config, l)
<1> USE FilesAssumption
<1>1. CASE LoadGlobal
  <2>1. Layer \in LayerSet
    BY <1>1, LayerTyped DEF LoadGlobal
  <2> QED BY <1>1, <2>1 DEF LoadGlobal
<1>2. CASE MergeNext
  <2>1. Layer \in LayerSet
    BY <1>2, LayerTyped DEF MergeNext, ReadInv
  <2>2. step \in {"check", "load"} /\ read # <<>> /\ read' = Append(read, Layer)
    BY <1>2 DEF MergeNext
  <2>3. CASE files[NextFile].state = "missing"
    BY <1>2, <2>2, <2>3 DEF MergeNext, Layer
  <2>4. CASE files[NextFile].state # "missing"
    <3>1. config' = Merge(config, Layer)
      BY <1>2, <2>4 DEF MergeNext
    <3> QED BY <2>1, <2>2, <3>1
  <2> QED BY <2>3, <2>4
<1>3. CASE Invoke
  BY <1>3 DEF Invoke, ReadInv
<1>4. CASE Refuse \/ Checked \/ FallBack \/ Loaded \/ Incompatible \/ WithoutProxy
  BY <1>4 DEF Refuse, Checked, FallBack, Loaded, Incompatible, WithoutProxy, Exit, Fresh
<1>5. CASE EnsureProxySidecar \/ StartCell \/ AttachToRunning \/ (\E stays \in BOOLEAN : Leave(stays))
  BY <1>5 DEF EnsureProxySidecar, StartCell, AttachToRunning, Leave, Exit, Fresh
<1>6. CASE (\E i \in DOMAIN Files : EditFile(Files[i])) \/ UNCHANGED vars
  BY <1>6 DEF EditFile, vars
<1> QED BY <1>1, <1>2, <1>3, <1>4, <1>5, <1>6 DEF Next

\* What a command has read are the layers of its files, one for each, and
\* they are forgotten when it ends (config.go, LoadLayered).
THEOREM LayersAreRead == Spec => []ReadInv
BY ReadInit, ReadStep, PTL DEF Spec

-----------------------------------------------------------------------------
(* Presets. *)

\* The presets that a list of them includes, directly or not, ...
LEMMA ExpandedIsClosed ==
  ASSUME NEW A
  PROVE  Closed(Expanded(A)) /\ A \cap Presets \subseteq Expanded(A)
<1>1. A \cap Presets \subseteq Expanded(A)
  BY DEF Expanded
<1>2. ASSUME NEW n \in Expanded(A), NEW m \in IncludesOf[n] PROVE m \in Expanded(A)
  <2>1. n \in Presets /\ \A P \in SUBSET Presets : A \subseteq P /\ Closed(P) => n \in P
    BY DEF Expanded
  <2>2. m \in Presets
    BY <2>1, PresetsAssumption
  <2>3. ASSUME NEW P \in SUBSET Presets, A \subseteq P, Closed(P) PROVE m \in P
    <3>1. n \in P
      BY <2>1, <2>3
    <3> QED BY <2>3, <3>1 DEF Closed
  <2> QED BY <2>2, <2>3 DEF Expanded
<1> QED BY <1>1, <1>2 DEF Closed

\* ... are no more, for two lists, than each list has.
LEMMA ExpandedOfBoth ==
  ASSUME NEW A \in SUBSET Presets, NEW B \in SUBSET Presets
  PROVE  ExpandPresets(A \cup B) \subseteq ExpandPresets(A) \cup ExpandPresets(B)
<1> DEFINE P == Expanded(A) \cup Expanded(B)
<1>1. P \in SUBSET Presets
  BY DEF Expanded
<1>2. A \cup B \subseteq P
  BY ExpandedIsClosed
<1>3. Closed(P)
  <2>1. Closed(Expanded(A)) /\ Closed(Expanded(B))
    BY ExpandedIsClosed
  <2> QED BY <2>1 DEF Closed
<1>4. Expanded(A \cup B) \subseteq P
  BY <1>1, <1>2, <1>3 DEF Expanded
<1> QED BY <1>4 DEF ExpandPresets

\* What mergeNetwork makes of two policies.
LEMMA MergedPolicy ==
  ASSUME NEW g \in Proxy, NEW p \in Proxy
  PROVE  LET q == mergeNetwork(g, p)
         IN /\ q \in Proxy
            /\ ResolvedEnabled(q) <=> ResolvedEnabled(g) \/ ResolvedEnabled(p)
            /\ ResolvedMode(q) = "block" <=> ResolvedMode(g) = "block" /\ ResolvedMode(p) = "block"
            /\ ResolvedAllowHostNetwork(q) <=>
                 ResolvedAllowHostNetwork(g) /\ ResolvedAllowHostNetwork(p)
            /\ q.block = g.block \cup p.block
            /\ AllowList(q) \subseteq AllowList(g) \cup AllowList(p)
<1> DEFINE q == mergeNetwork(g, p)
<1>1. q \in Proxy
  BY DEF mergeNetwork, Proxy, TriState, ResolvedEnabled, ResolvedMode, ResolvedAllowHostNetwork,
         ResolvedLog
<1>2. /\ ResolvedEnabled(q) <=> ResolvedEnabled(g) \/ ResolvedEnabled(p)
      /\ ResolvedAllowHostNetwork(q) <=>
           ResolvedAllowHostNetwork(g) /\ ResolvedAllowHostNetwork(p)
  BY DEF mergeNetwork, ResolvedEnabled, ResolvedAllowHostNetwork
<1>3. ResolvedMode(q) = "block" <=> ResolvedMode(g) = "block" /\ ResolvedMode(p) = "block"
  BY DEF mergeNetwork, ResolvedMode, Proxy
<1>4. /\ q.block = g.block \cup p.block
      /\ q.allow = g.allow \cup p.allow
      /\ q.presets = g.presets \cup p.presets
  BY DEF mergeNetwork
<1>5. g.presets \in SUBSET Presets /\ p.presets \in SUBSET Presets
  BY DEF Proxy
<1>6. AllowList(q) \subseteq AllowList(g) \cup AllowList(p)
  BY <1>4, <1>5, ExpandedOfBoth DEF AllowList
<1> QED BY <1>1, <1>2, <1>3, <1>4, <1>6

-----------------------------------------------------------------------------
(* NetworkOnlyTightens. *)

\* What is stays of each layer's policy p in the merge q.
Keeps(q, p) ==
    /\ ResolvedEnabled(p) => ResolvedEnabled(q)
    /\ p.block \subseteq q.block
    /\ ResolvedEnabled(p) /\ ResolvedAllowHostNetwork(q) => ResolvedAllowHostNetwork(p)
    /\ ResolvedEnabled(p) /\ ResolvedMode(q) = "block" => ResolvedMode(p) = "block"

Tight(q, layers) ==
    /\ q \in Proxy
    /\ \A i \in DOMAIN layers : Keeps(q, layers[i].proxy)
    /\ \A d \in AllowList(q) : \E i \in DOMAIN layers : d \in AllowList(layers[i].proxy)

TightInv == step \in {"check", "load"} /\ read # <<>> => Tight(config.proxy, read)

\* The policy of a layer.
LEMMA LayerProxy == \A l \in LayerSet : l.proxy \in Proxy
<1>1. ZeroConfig.proxy = NoProxy /\ NoProxy \in Proxy
  BY DEF ZeroConfig, NoProxy, Proxy, TriState
<1>2. ASSUME NEW raw \in Texts PROVE LoadFile(raw).proxy \in Proxy
  <2>1. LoadFile(raw).proxy = raw.proxy
    BY DEF LoadFile
  <2> QED BY <2>1, ContentsAssumption DEF Texts, FileNames
<1> QED BY <1>1, <1>2 DEF LayerSet

\* The first layer is the policy.
LEMMA TightBase ==
  ASSUME NEW l \in LayerSet
  PROVE  Tight(l.proxy, <<l>>)
<1>1. <<l>>[1] = l /\ DOMAIN <<l>> = {1}
  OBVIOUS
<1>2. Keeps(l.proxy, l.proxy)
  BY DEF Keeps
<1> QED BY <1>1, <1>2, LayerProxy DEF Tight

\* A file that is missing is not merged, and asks for nothing.
LEMMA TightMissing ==
  ASSUME NEW layers \in Seq(LayerSet), NEW q, Tight(q, layers)
  PROVE  Tight(q, Append(layers, ZeroConfig))
<1>1. Keeps(q, ZeroConfig.proxy)
  BY DEF Keeps, ZeroConfig, NoProxy, ResolvedEnabled
<1>2. /\ DOMAIN Append(layers, ZeroConfig) = 1 .. Len(layers) + 1
      /\ DOMAIN layers = 1 .. Len(layers) /\ Len(layers) \in Nat
      /\ \A i \in 1 .. Len(layers) : Append(layers, ZeroConfig)[i] = layers[i]
      /\ Append(layers, ZeroConfig)[Len(layers) + 1] = ZeroConfig
  OBVIOUS
<1> QED BY <1>1, <1>2 DEF Tight

\* One that is merged only tightens it.
LEMMA TightMerge ==
  ASSUME NEW layers \in Seq(LayerSet), NEW q, Tight(q, layers), NEW l \in LayerSet
  PROVE  Tight(mergeNetwork(q, l.proxy), Append(layers, l))
<1> DEFINE r == mergeNetwork(q, l.proxy)
<1>1. /\ DOMAIN Append(layers, l) = 1 .. Len(layers) + 1
      /\ DOMAIN layers = 1 .. Len(layers) /\ Len(layers) \in Nat
      /\ \A i \in 1 .. Len(layers) : Append(layers, l)[i] = layers[i]
      /\ Append(layers, l)[Len(layers) + 1] = l
  OBVIOUS
<1>2. q \in Proxy /\ l.proxy \in Proxy
  BY LayerProxy DEF Tight
<1>3. /\ r \in Proxy
      /\ ResolvedEnabled(r) <=> ResolvedEnabled(q) \/ ResolvedEnabled(l.proxy)
      /\ ResolvedMode(r) = "block" <=> ResolvedMode(q) = "block" /\ ResolvedMode(l.proxy) = "block"
      /\ ResolvedAllowHostNetwork(r) <=>
           ResolvedAllowHostNetwork(q) /\ ResolvedAllowHostNetwork(l.proxy)
      /\ r.block = q.block \cup l.proxy.block
      /\ AllowList(r) \subseteq AllowList(q) \cup AllowList(l.proxy)
  BY <1>2, MergedPolicy
<1> HIDE DEF r
<1>4. Keeps(r, l.proxy)
  BY <1>3 DEF Keeps
<1>5. ASSUME NEW i \in DOMAIN layers PROVE Keeps(r, layers[i].proxy)
  <2>1. Keeps(q, layers[i].proxy)
    BY DEF Tight
  <2> QED BY <1>3, <2>1 DEF Keeps
<1>6. ASSUME NEW d \in AllowList(r)
      PROVE  \E i \in DOMAIN Append(layers, l) : d \in AllowList(Append(layers, l)[i].proxy)
  <2>1. CASE d \in AllowList(l.proxy)
    BY <1>1, <2>1
  <2>2. CASE d \in AllowList(q)
    <3>1. PICK i \in DOMAIN layers : d \in AllowList(layers[i].proxy)
      BY <2>2 DEF Tight
    <3> QED BY <1>1, <3>1
  <2> QED BY <1>3, <2>1, <2>2
<1> QED BY <1>1, <1>3, <1>4, <1>5, <1>6 DEF Tight, r

\* So does every step of a command.
LEMMA TightStep == ReadInv /\ TightInv /\ [Next]_vars => TightInv'
<1> SUFFICES ASSUME ReadInv, TightInv, [Next]_vars, step' \in {"check", "load"}, read' # <<>>
             PROVE  Tight(config'.proxy, read')
  BY DEF TightInv
<1>1. CASE step \in {"check", "load"} /\ read' = read /\ config' = config
  BY <1>1 DEF TightInv
<1>2. ASSUME NEW l \in LayerSet, read' = <<l>>, config' = l PROVE Tight(config'.proxy, read')
  BY <1>2, TightBase
<1>3. CASE /\ step \in {"check", "load"} /\ read # <<>>
           /\ read' = Append(read, ZeroConfig) /\ config' = config
  BY <1>3, TightMissing DEF TightInv, ReadInv
<1>4. ASSUME step \in {"check", "load"}, read # <<>>,
             NEW l \in LayerSet, read' = Append(read, l), config' = Merge(config, l)
      PROVE  Tight(config'.proxy, read')
  <2>1. config'.proxy = mergeNetwork(config.proxy, l.proxy)
    BY <1>4 DEF Merge
  <2>2. Tight(config.proxy, read) /\ read \in Seq(LayerSet)
    BY <1>4 DEF TightInv, ReadInv
  <2> QED BY <1>4, <2>1, <2>2, TightMerge
<1> QED BY <1>1, <1>2, <1>3, <1>4, LoadStep

\* A policy that keeps what the layers ask for respects each one.
LEMMA TightRespects ==
  ASSUME NEW layers, NEW q, Tight(q, layers), NEW i \in DOMAIN layers,
         layers[i].proxy \in Proxy
  PROVE  Respects(q, layers[i].proxy,
                  UNION {AllowList(layers[j].proxy) : j \in DOMAIN layers \ {i}})
<1> DEFINE p == layers[i].proxy
           others == UNION {AllowList(layers[j].proxy) : j \in DOMAIN layers \ {i}}
<1>1. Keeps(q, p)
  BY DEF Tight
<1>2. ReachesHost(q) => ReachesHost(p)
  BY <1>1 DEF Keeps, ReachesHost
<1>3. ASSUME NEW d \in Dests \ others, Reaches(q, d) PROVE Reaches(p, d)
  <2>1. d \in AllowList(q) => d \in AllowList(p)
    BY <1>3 DEF Tight
  <2>2. ResolvedMode(q) \in {"allow", "block"} /\ q.block = BlockList(q) /\ p.block = BlockList(p)
    BY DEF Tight, Proxy, ResolvedMode, BlockList
  <2> QED BY <1>1, <1>3, <2>1, <2>2 DEF Keeps, Reaches, SquidPasses
<1>4. ASSUME NEW d \in p.block, Reaches(q, d) PROVE ~ResolvedEnabled(q)
  BY <1>1, <1>4 DEF Keeps, Reaches, SquidPasses, BlockList
<1> QED BY <1>1, <1>2, <1>3, <1>4 DEF Respects, Keeps

\* For any files, edited at any time, and any presets: a configuration never
\* reaches more, of the destinations and the host, than any of its files lets
\* it, but for what another file allows by name (network.go, mergeNetwork).
THEOREM PolicyOnlyTightens == Spec => []NetworkOnlyTightens
<1>1. Init => TightInv
  BY DEF Init, TightInv
<1>2. ReadInv /\ TightInv => NetworkOnlyTightens
  <2> SUFFICES ASSUME ReadInv, TightInv, Whole, NEW i \in DOMAIN read
               PROVE  Respects(config.proxy, read[i].proxy,
                               UNION {AllowList(read[j].proxy) : j \in DOMAIN read \ {i}})
    BY DEF NetworkOnlyTightens
  <2>1. read[i] \in LayerSet
    BY DEF ReadInv
  <2>2. step \in {"check", "load"} /\ read # <<>>
    BY WholeIsRead
  <2> QED BY <2>1, <2>2, TightRespects, LayerProxy DEF TightInv
<1> QED BY <1>1, <1>2, TightStep, LayersAreRead, PTL DEF Spec

-----------------------------------------------------------------------------
(* ModulesAsDeclared. *)

Cleared(layers) == {i \in DOMAIN layers : layers[i].modules = {{}}}
Declared(layers) ==
    UNION {Held(layers[i].modules) :
              i \in {k \in DOMAIN layers : \A c \in Cleared(layers) : k >= c}}

ModulesInv == step \in {"check", "load"} /\ read # <<>> => Held(config.modules) = Declared(read)

\* The modules of one layer are its own, ...
LEMMA DeclaredByOne == ASSUME NEW l PROVE Declared(<<l>>) = Held(l.modules)
<1>1. <<l>>[1] = l /\ DOMAIN <<l>> = {1}
  OBVIOUS
<1> QED BY <1>1 DEF Declared, Cleared

\* ... and the next one clears them, or adds its own.
LEMMA DeclaredByNext ==
  ASSUME NEW layers \in Seq(LayerSet), NEW l \in LayerSet
  PROVE  Declared(Append(layers, l)) = IF l.modules = {{}} THEN {}
                                       ELSE Declared(layers) \cup Held(l.modules)
<1> DEFINE all == Append(layers, l)
           n == Len(layers)
<1>1. /\ n \in Nat /\ DOMAIN layers = 1 .. n /\ DOMAIN all = 1 .. n + 1
      /\ \A i \in 1 .. n : all[i] = layers[i]
      /\ all[n + 1] = l
      /\ n = Len(layers)
  BY Appended
<1> HIDE DEF all, n
<1>2. CASE l.modules = {{}}
  <2>1. Held(l.modules) = {}
    BY <1>2 DEF Held
  <2>2. n + 1 \in Cleared(all)
    BY <1>1, <1>2 DEF Cleared
  <2>3. {k \in DOMAIN all : \A c \in Cleared(all) : k >= c} \subseteq {n + 1}
    BY <1>1, <2>2
  <2> QED BY <1>1, <1>2, <2>1, <2>3 DEF Declared, all
<1>3. CASE l.modules # {{}}
  <2>1. Cleared(all) = Cleared(layers)
    BY <1>1, <1>3 DEF Cleared
  <2>2. \A c \in Cleared(layers) : c \in 1 .. n
    BY <1>1 DEF Cleared
  <2>3. {k \in DOMAIN all : \A c \in Cleared(all) : k >= c}
          = {k \in DOMAIN layers : \A c \in Cleared(layers) : k >= c} \cup {n + 1}
    BY <1>1, <2>1, <2>2
  <2> QED BY <1>1, <1>3, <2>3 DEF Declared, all
<1> QED BY <1>2, <1>3

\* The modules of a merge are those declared so far.
LEMMA ModulesStep == ReadInv /\ ModulesInv /\ [Next]_vars => ModulesInv'
<1> SUFFICES ASSUME ReadInv, ModulesInv, [Next]_vars, step' \in {"check", "load"}, read' # <<>>
             PROVE  Held(config'.modules) = Declared(read')
  BY DEF ModulesInv
<1>1. CASE step \in {"check", "load"} /\ read' = read /\ config' = config
  BY <1>1 DEF ModulesInv
<1>2. ASSUME NEW l \in LayerSet, read' = <<l>>, config' = l
      PROVE  Held(config'.modules) = Declared(read')
  BY <1>2, DeclaredByOne
<1>3. CASE /\ step \in {"check", "load"} /\ read # <<>>
           /\ read' = Append(read, ZeroConfig) /\ config' = config
  <2>1. ZeroConfig \in LayerSet /\ ZeroConfig.modules = {} /\ Held({}) = {}
    BY DEF LayerSet, ZeroConfig, Held
  <2>2. ZeroConfig.modules # {{}}
    BY <2>1
  <2>3. Declared(read') = Declared(read) \cup {}
    BY <1>3, <2>1, <2>2, DeclaredByNext DEF ReadInv
  <2> QED BY <1>3, <2>3 DEF ModulesInv
<1>4. ASSUME step \in {"check", "load"}, read # <<>>,
             NEW l \in LayerSet, read' = Append(read, l), config' = Merge(config, l)
      PROVE  Held(config'.modules) = Declared(read')
  <2>1. config'.modules = mergeOptional(config.modules, l.modules)
    BY <1>4 DEF Merge
  <2>2. Held(config'.modules) = IF l.modules = {{}} THEN {}
                                ELSE Held(config.modules) \cup Held(l.modules)
    BY <2>1 DEF mergeOptional, Held
  <2>3. Held(config.modules) = Declared(read) /\ read \in Seq(LayerSet)
    BY <1>4 DEF ModulesInv, ReadInv
  <2> QED BY <1>4, <2>2, <2>3, DeclaredByNext
<1> QED BY <1>1, <1>2, <1>3, <1>4, LoadStep

\* For any files: the modules of a configuration are those its files declare
\* since the last one that clears them with an empty list.
THEOREM ModulesDeclared == Spec => []ModulesAsDeclared
<1>1. Init => ModulesInv
  BY DEF Init, ModulesInv
<1>2. ModulesInv => ModulesAsDeclared
  BY WholeIsRead DEF ModulesInv, ModulesAsDeclared, Declared, Cleared
<1> QED BY <1>1, <1>2, ModulesStep, LayersAreRead, PTL DEF Spec

-----------------------------------------------------------------------------
(* ModelStaysWithProvider. *)

Selects(l) == l.provider # ""
Names(l) == l.model # ""
Naming(layers, j) == {k \in 1 .. j : Selects(layers[k])}
Last(S) == CHOOSE k \in S : \A n \in S : n <= k
ProviderOf(layers, j) ==
    IF Naming(layers, j) = {} THEN "default" ELSE layers[Last(Naming(layers, j))].provider

\* Of the files up to any one that select a provider there is a last one.
HaveLast(layers) ==
    \A j \in 0 .. Len(layers) :
        Naming(layers, j) # {} =>
            \E k \in Naming(layers, j) : \A n \in Naming(layers, j) : n <= k

\* The file i names the model, and its provider is selected until the end.
Chosen(layers, model, i) ==
    /\ layers[i].model = model
    /\ \A j \in DOMAIN layers : j > i =>
           ~Names(layers[j]) /\ ProviderOf(layers, j) = ProviderOf(layers, i)

Stays(c, layers) ==
    /\ HaveLast(layers)
    /\ ProviderOf(layers, Len(layers)) = ActiveProvider(c)
    /\ Names(c) => \E i \in DOMAIN layers : Chosen(layers, c.model, i)

ModelInv == step \in {"check", "load"} /\ read # <<>> => Stays(config, read)

\* The last file that selects a provider is one that does.
LEMMA LastIsIn ==
  ASSUME NEW layers, NEW j \in 0 .. Len(layers), HaveLast(layers), Naming(layers, j) # {}
  PROVE  Last(Naming(layers, j)) \in Naming(layers, j)
BY DEF HaveLast, Last

\* Layers that are added change nothing of what the ones before select.
LEMMA ProviderOfNext ==
  ASSUME NEW layers \in Seq(LayerSet), HaveLast(layers), NEW l \in LayerSet
  PROVE  LET all == Append(layers, l)
         IN /\ HaveLast(all)
            /\ \A j \in 0 .. Len(layers) : ProviderOf(all, j) = ProviderOf(layers, j)
            /\ ProviderOf(all, Len(all)) =
                 IF Selects(l) THEN l.provider ELSE ProviderOf(layers, Len(layers))
<1> DEFINE all == Append(layers, l)
           n == Len(layers)
<1>1. /\ n \in Nat /\ Len(all) = n + 1
      /\ \A i \in 1 .. n : all[i] = layers[i]
      /\ all[n + 1] = l
      /\ n = Len(layers)
  BY Appended
<1> HIDE DEF all
<1>2. \A j \in 0 .. n : Naming(all, j) = Naming(layers, j)
  BY <1>1 DEF Naming
<1>3. ASSUME NEW j \in 0 .. n PROVE ProviderOf(all, j) = ProviderOf(layers, j)
  <2>1. Naming(all, j) = Naming(layers, j)
    BY <1>2
  <2>2. CASE Naming(layers, j) = {}
    BY <2>1, <2>2 DEF ProviderOf
  <2>3. CASE Naming(layers, j) # {}
    <3>1. Last(Naming(layers, j)) \in Naming(layers, j)
      BY <1>1, <2>3, LastIsIn
    <3>2. Last(Naming(layers, j)) \in 1 .. n
      BY <1>1, <3>1 DEF Naming
    <3> QED BY <1>1, <2>1, <2>3, <3>2 DEF ProviderOf
  <2> QED BY <2>2, <2>3
<1>4. CASE ~Selects(l)
  <2>1. Naming(all, n + 1) = Naming(layers, n)
    BY <1>1, <1>4 DEF Naming
  <2>2. HaveLast(all)
    BY <1>1, <1>2, <2>1 DEF HaveLast
  <2>3. ProviderOf(all, n + 1) = ProviderOf(layers, n)
    <3>1. CASE Naming(layers, n) = {}
      BY <2>1, <3>1 DEF ProviderOf
    <3>2. CASE Naming(layers, n) # {}
      <4>1. Last(Naming(layers, n)) \in Naming(layers, n)
        BY <1>1, <3>2, LastIsIn
      <4>2. Last(Naming(layers, n)) \in 1 .. n
        BY <1>1, <4>1 DEF Naming
      <4> QED BY <1>1, <2>1, <3>2, <4>2 DEF ProviderOf
    <3> QED BY <3>1, <3>2
  <2> QED BY <1>1, <1>3, <1>4, <2>2, <2>3 DEF all
<1>5. CASE Selects(l)
  <2>1. n + 1 \in Naming(all, n + 1) /\ \A k \in Naming(all, n + 1) : k \in Int /\ k <= n + 1
    BY <1>1, <1>5 DEF Naming
  <2>2. Last(Naming(all, n + 1)) = n + 1
    BY <1>1, <2>1 DEF Last
  <2>3. HaveLast(all)
    BY <1>1, <1>2, <2>1 DEF HaveLast
  <2>4. ProviderOf(all, n + 1) = l.provider
    BY <1>1, <2>1, <2>2 DEF ProviderOf
  <2> QED BY <1>1, <1>3, <1>5, <2>3, <2>4 DEF all
<1> QED BY <1>4, <1>5

\* One layer has its model and its provider.
LEMMA StaysBase == ASSUME NEW l PROVE Stays(l, <<l>>)
<1>1. <<l>>[1] = l /\ Len(<<l>>) = 1 /\ DOMAIN <<l>> = {1}
  OBVIOUS
<1>2. Naming(<<l>>, 1) = (IF Selects(l) THEN {1} ELSE {}) /\ Naming(<<l>>, 0) = {}
  BY <1>1 DEF Naming
<1>3. HaveLast(<<l>>)
  BY <1>1, <1>2 DEF HaveLast
<1>4. ProviderOf(<<l>>, 1) = ActiveProvider(l)
  <2>1. Last({1}) = 1
    BY DEF Last
  <2> QED BY <1>1, <1>2, <2>1 DEF ProviderOf, ActiveProvider, Selects
<1>5. Chosen(<<l>>, l.model, 1)
  BY <1>1 DEF Chosen
<1> QED BY <1>1, <1>3, <1>4, <1>5 DEF Stays

\* A layer that names no model and no other provider.
Silent(l, layers) ==
    ~Names(l) /\ (Selects(l) => l.provider = ProviderOf(layers, Len(layers)))

\* A layer that says nothing of either leaves them together.
LEMMA ChosenStays ==
  ASSUME NEW layers \in Seq(LayerSet), HaveLast(layers), NEW l \in LayerSet, Silent(l, layers),
         NEW model, NEW i \in DOMAIN layers, Chosen(layers, model, i)
  PROVE  i \in DOMAIN Append(layers, l) /\ Chosen(Append(layers, l), model, i)
<1> DEFINE all == Append(layers, l)
           n == Len(layers)
<1>1. /\ n \in Nat /\ Len(all) = n + 1
      /\ DOMAIN layers = 1 .. n /\ DOMAIN all = 1 .. n + 1
      /\ \A k \in 1 .. n : all[k] = layers[k]
      /\ all[n + 1] = l
      /\ n = Len(layers)
  BY Appended
<1>2. /\ \A j \in 0 .. n : ProviderOf(all, j) = ProviderOf(layers, j)
      /\ ProviderOf(all, n + 1) = ProviderOf(layers, n)
  BY <1>1, ProviderOfNext DEF Silent
<1> HIDE DEF all, n
<1>3. ProviderOf(layers, n) = ProviderOf(layers, i)
  BY <1>1 DEF Chosen
<1>4. ASSUME NEW j \in DOMAIN all, j > i
      PROVE  ~Names(all[j]) /\ ProviderOf(all, j) = ProviderOf(all, i)
  <2>1. CASE j = n + 1
    <3>1. ~Names(all[j])
      BY <1>1, <2>1 DEF Silent
    <3>2. ProviderOf(all, j) = ProviderOf(layers, n) /\ ProviderOf(all, i) = ProviderOf(layers, i)
      BY <1>1, <1>2, <2>1
    <3> QED BY <1>3, <3>1, <3>2
  <2>2. CASE j \in 1 .. n
    <3>1. ~Names(layers[j]) /\ ProviderOf(layers, j) = ProviderOf(layers, i)
      BY <1>1, <1>4, <2>2 DEF Chosen
    <3>2. all[j] = layers[j] /\ j \in 0 .. n /\ i \in 0 .. n
      BY <1>1, <2>2
    <3> QED BY <1>2, <3>1, <3>2
  <2> QED BY <1>1, <2>1, <2>2
<1> QED BY <1>1, <1>4 DEF Chosen, all

Follows(c, g, l) ==
    /\ c.provider = (IF Selects(l) THEN l.provider ELSE g.provider)
    /\ c.model = MergeModel(g, l)

\* A merge keeps a model only while its provider is selected.
LEMMA StaysNext ==
  ASSUME NEW layers \in Seq(LayerSet), NEW g, Stays(g, layers), NEW l \in LayerSet, NEW c,
         Follows(c, g, l)
  PROVE  Stays(c, Append(layers, l))
<1> DEFINE all == Append(layers, l)
           n == Len(layers)
<1>1. /\ n \in Nat /\ Len(all) = n + 1
      /\ DOMAIN layers = 1 .. n /\ DOMAIN all = 1 .. n + 1
      /\ all[n + 1] = l
      /\ n = Len(layers)
  BY Appended
<1>2. /\ HaveLast(all)
      /\ ProviderOf(all, Len(all)) =
           IF Selects(l) THEN l.provider ELSE ProviderOf(layers, n)
  BY ProviderOfNext DEF Stays
<1> HIDE DEF all, n
<1>3. ProviderOf(layers, n) = ActiveProvider(g)
  BY <1>1 DEF Stays
<1>4. ProviderOf(all, Len(all)) = ActiveProvider(c)
  BY <1>2, <1>3 DEF ActiveProvider, Follows, Selects
<1>5. ASSUME Names(c) PROVE \E i \in DOMAIN all : Chosen(all, c.model, i)
  <2>1. CASE Names(l)
    <3>1. all[n + 1].model = c.model
      BY <1>1, <2>1 DEF MergeModel, Follows, Names
    <3>2. ~ \E j \in DOMAIN all : j > n + 1
      BY <1>1
    <3>3. Chosen(all, c.model, n + 1) /\ n + 1 \in DOMAIN all
      BY <1>1, <3>1, <3>2 DEF Chosen
    <3> QED BY <3>3
  <2>2. CASE ~Names(l)
    <3>1. c.model = g.model /\ Silent(l, layers)
      BY <1>1, <1>3, <1>5, <2>2 DEF MergeModel, Follows, Silent, Names, Selects
    <3>2. Names(g)
      BY <1>5, <3>1 DEF Names
    <3>3. PICK i \in DOMAIN layers : Chosen(layers, g.model, i)
      BY <3>2 DEF Stays
    <3> QED BY <1>1, <2>2, <3>1, <3>3, ChosenStays DEF Stays, all
  <2> QED BY <2>1, <2>2
<1> QED BY <1>2, <1>4, <1>5 DEF Stays, all

\* So does every step of a command.
LEMMA ModelStep == ReadInv /\ ModelInv /\ [Next]_vars => ModelInv'
<1> SUFFICES ASSUME ReadInv, ModelInv, [Next]_vars, step' \in {"check", "load"}, read' # <<>>
             PROVE  Stays(config', read')
  BY DEF ModelInv
<1>1. CASE step \in {"check", "load"} /\ read' = read /\ config' = config
  BY <1>1 DEF ModelInv
<1>2. ASSUME NEW l \in LayerSet, read' = <<l>>, config' = l PROVE Stays(config', read')
  BY <1>2, StaysBase
<1>3. CASE /\ step \in {"check", "load"} /\ read # <<>>
           /\ read' = Append(read, ZeroConfig) /\ config' = config
  <2>1. ZeroConfig \in LayerSet /\ ~Selects(ZeroConfig) /\ ~Names(ZeroConfig)
    BY DEF LayerSet, ZeroConfig, Selects, Names
  <2>2. MergeModel(config, ZeroConfig) = config.model
    BY <2>1 DEF MergeModel, Selects, Names
  <2>3. Stays(config, read) /\ read \in Seq(LayerSet)
    BY <1>3 DEF ModelInv, ReadInv
  <2>4. Follows(config, config, ZeroConfig)
    BY <2>1, <2>2 DEF Follows
  <2> QED BY <1>3, <2>1, <2>3, <2>4, StaysNext
<1>4. ASSUME step \in {"check", "load"}, read # <<>>,
             NEW l \in LayerSet, read' = Append(read, l), config' = Merge(config, l)
      PROVE  Stays(config', read')
  <2>1. Follows(config', config, l)
    BY <1>4 DEF Merge, Follows, Selects
  <2>2. Stays(config, read) /\ read \in Seq(LayerSet)
    BY <1>4 DEF ModelInv, ReadInv
  <2> QED BY <1>4, <2>1, <2>2, StaysNext
<1> QED BY <1>1, <1>2, <1>3, <1>4, LoadStep

\* For any files: the model of a configuration was named by a file, and the
\* provider selected there is selected until the end (config.go, mergeModels).
THEOREM ModelAndProvider == Spec => []ModelStaysWithProvider
<1>1. Init => ModelInv
  BY DEF Init, ModelInv
<1>2. ModelInv => ModelStaysWithProvider
  <2> SUFFICES ASSUME ModelInv, Whole, config.model # ""
               PROVE  \E i \in DOMAIN read :
                        /\ read[i].model = config.model
                        /\ \A j \in DOMAIN read : j > i =>
                             read[j].model = "" /\ ProviderUpTo(j) = ProviderUpTo(i)
    BY DEF ModelStaysWithProvider
  <2>1. step \in {"check", "load"} /\ read # <<>>
    BY WholeIsRead
  <2>2. PICK i \in DOMAIN read : Chosen(read, config.model, i)
    BY <2>1 DEF ModelInv, Stays, Names
  <2>3. \A j \in DOMAIN read : ProviderUpTo(j) = ProviderOf(read, j)
    BY DEF ProviderUpTo, ProviderOf, Naming, Last, Selects
  <2> QED BY <2>2, <2>3 DEF Chosen, Names
<1> QED BY <1>1, <1>2, ModelStep, LayersAreRead, PTL DEF Spec

-----------------------------------------------------------------------------
(* AttachedAsLoaded. *)

\* The digest tells apart whatever the user would be told of.
LEMMA HashShowsDrift ==
  ASSUME NEW old, NEW new, ConfigHash(old) = ConfigHash(new)
  PROVE  ConfigDrift(old, new) = {}
<1>1. /\ old.scalar["cell.stack"] = new.scalar["cell.stack"]
      /\ Held(old.modules) = Held(new.modules)
      /\ old.mounts = new.mounts /\ old.env = new.env /\ old.ports = new.ports
      /\ old.privileged = new.privileged /\ old.caps = new.caps
      /\ (old.gui # "off") = (new.gui # "off")
      /\ ResolvedEnabled(old.proxy) = ResolvedEnabled(new.proxy)
      /\ ResolvedMode(old.proxy) = ResolvedMode(new.proxy)
      /\ old.proxy.allow = new.proxy.allow /\ old.proxy.block = new.proxy.block
      /\ old.proxy.presets = new.proxy.presets
  BY DEF ConfigHash
<1>2. Mounted(old) = Mounted(new)
  BY <1>1 DEF Mounted
<1> QED BY <1>1, <1>2 DEF ConfigDrift

AttachedInv == step = "attached" /\ cell # None => ConfigHash(cell.config) = ConfigHash(config)

\* For any files, edited at any time: a command that attaches to a running
\* cell would be told of no drift, and one that starts a cell has its own.
THEOREM AttachedToItsConfig == Spec => []AttachedAsLoaded
<1>1. Init => AttachedInv
  BY DEF Init, AttachedInv
<1>2. AttachedInv /\ [Next]_vars => AttachedInv'
  <2> SUFFICES ASSUME AttachedInv, [Next]_vars, step' = "attached", cell' # None
               PROVE  ConfigHash(cell'.config) = ConfigHash(config')
    BY DEF AttachedInv
  <2>1. CASE StartCell
    BY <2>1 DEF StartCell
  <2>2. CASE AttachToRunning
    BY <2>2 DEF AttachToRunning, configDrifted
  <2>3. CASE (\E i \in DOMAIN Files : EditFile(Files[i])) \/ UNCHANGED vars
    BY <2>3 DEF EditFile, vars, AttachedInv
  <2>4. CASE \/ Invoke \/ LoadGlobal \/ MergeNext \/ Refuse \/ Checked \/ FallBack
             \/ Loaded \/ EnsureProxySidecar \/ Incompatible \/ WithoutProxy
             \/ \E stays \in BOOLEAN : Leave(stays)
    BY <2>4 DEF Invoke, LoadGlobal, MergeNext, Refuse, Checked, FallBack, Loaded,
       EnsureProxySidecar, Incompatible, WithoutProxy, Leave, Exit, Fresh
  <2> QED BY <2>1, <2>2, <2>3, <2>4 DEF Next
<1>3. AttachedInv => AttachedAsLoaded
  BY HashShowsDrift DEF AttachedInv, AttachedAsLoaded
<1> QED BY <1>1, <1>2, <1>3, PTL DEF Spec
=============================================================================
