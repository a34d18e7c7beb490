------------------------- MODULE CellLifecycleProofs -------------------------
(***************************************************************************)
(* What TLAPS proves of CellLifecycle, for any number of commands, cells   *)
(* and configurations: the types, that a running oneshot container has a   *)
(* run that will stop it, and that a settled container of `cell start`     *)
(* stays up.                                                               *)
(***************************************************************************)
EXTENDS CellLifecycle, TLAPS

\* The lines only a launcher, only an agent run, only a starter stands at.
AgentLines == {"attach", "drift", "restart", "ensure", "poll", "boot", "gate", "exec",
               "agent", "left", "autoStop", "checkGone", "cleanup", "cleanupStop"}

LauncherLines == AgentLines \union
    {"prepare", "gateway", "createGateway", "startGateway", "connectGateway",
     "proxies", "sweep", "orphan", "inspectOrphan", "removeOrphan", "phases",
     "create", "launch"}

StarterLines == {"ensure", "create", "launch", "poll", "boot", "cleanup", "cleanupStop"}

Kinds == \A s \in Runs :
    /\ pc[s] \in AgentLines => s \in Agents
    /\ pc[s] \in LauncherLines => s \in Launchers
    /\ pc[s] \in {"stop", "dropGateway"} => s \in Agents \union Stops
    /\ pc[s] = "reap" => s \in Launchers \union Reapers
    /\ pc[s] \in StarterLines /\ s \in Agents => s \in starters

\* A created container belongs to the run that is launching it ...
CreatedMine == \A c \in Cells : containers[c].state = "created" =>
    LET s == containers[c].by IN
    /\ s \in Launchers /\ CellOf[s] = c
    /\ pc[s] \in {"launch", "killed"}
    /\ s \in Agents => s \in starters
    /\ s \in Starts => Lifecycle(c) = "persistent"

\* ... and a oneshot container that runs to the run that created it.
RunningOwned == \A c \in Cells : Running(c) /\ Lifecycle(c) = "oneshot" =>
    LET s == containers[c].by IN
    /\ s \in starters /\ CellOf[s] = c
    /\ pc[s] \in Owing \union {"killed"}

IInv == TypeOK /\ Kinds /\ CreatedMine /\ RunningOwned


\* docker stop leaves every other container as it is, and the one it names
\* neither running nor created.
LEMMA Stopped ==
  ASSUME TypeOK, NEW c \in Cells, DockerStop(c)
  PROVE  /\ containers' \in [Cells -> Container]
         /\ agents' \subseteq Agents
         /\ \A d \in Cells : containers'[d].state \in {"created", "booting", "up"}
                                => containers'[d] = containers[d]
         /\ ~Running(c)'
  BY DEF TypeOK, Container, DockerStop, Running

\* The initial state satisfies the inductive invariant.
LEMMA IInvInit == Init => IInv
  BY CellsAssumption, ConfigAssumption
     DEF Init, IInv, TypeOK, Kinds, CreatedMine, RunningOwned, Lines, Container,
         AgentLines, LauncherLines, StarterLines, Running, Lifecycle, Absent, Runs, Launchers

\* Every step of every command and of the daemon preserves it.
LEMMA IInvStep == IInv /\ [Next]_vars => IInv'
<1> SUFFICES ASSUME IInv, [Next]_vars PROVE IInv'
  OBVIOUS
<1> USE CellsAssumption, ConfigAssumption, KindsAssumption
    DEF IInv, TypeOK, Kinds, CreatedMine, RunningOwned, Lines, Container,
        AgentLines, LauncherLines, StarterLines, Owing, Running, Lifecycle, Absent,
        Runs, Launchers, Goto, daemon, proxies, command
<1>1. ASSUME NEW s \in Runs, BeginAgent(s) PROVE IInv'
  BY <1>1 DEF BeginAgent
<1>2. ASSUME NEW s \in Runs, BeginStart(s) PROVE IInv'
  BY <1>2 DEF BeginStart
<1>3. ASSUME NEW s \in Runs, EnsureIsolatedNetwork(s) PROVE IInv'
  BY <1>3 DEF EnsureIsolatedNetwork
<1>4. ASSUME NEW s \in Runs, CheckGateway(s) PROVE IInv'
  BY <1>4 DEF CheckGateway
<1>5. ASSUME NEW s \in Runs, CreateGateway(s) PROVE IInv'
  <2>1. TypeOK'
    BY <1>5 DEF CreateGateway
  <2>2. Kinds'
    BY <1>5 DEF CreateGateway
  <2>3. CreatedMine'
    BY <1>5 DEF CreateGateway
  <2>4. RunningOwned'
    BY <1>5 DEF CreateGateway
  <2> QED  BY <2>1, <2>2, <2>3, <2>4
<1>6. ASSUME NEW s \in Runs, StartGateway(s) PROVE IInv'
  <2>1. TypeOK'
    BY <1>6 DEF StartGateway
  <2>2. Kinds'
    BY <1>6 DEF StartGateway
  <2>3. CreatedMine'
    BY <1>6 DEF StartGateway
  <2>4. RunningOwned'
    BY <1>6 DEF StartGateway
  <2> QED  BY <2>1, <2>2, <2>3, <2>4
<1>7. ASSUME NEW s \in Runs, ConnectGateway(s) PROVE IInv'
  BY <1>7 DEF ConnectGateway
<1>8. ASSUME NEW s \in Runs, ListProxies(s) PROVE IInv'
  BY <1>8 DEF ListProxies
<1>9. ASSUME NEW s \in Runs, NEW c \in Cells, CheckProxy(s, c) PROVE IInv'
  BY <1>9 DEF CheckProxy
<1>10. ASSUME NEW s \in Runs, NEW c \in Cells, RemoveProxy(s, c) PROVE IInv'
  BY <1>10 DEF RemoveProxy, DropGateway
<1>11. ASSUME NEW s \in Runs, FindStaleCells(s) PROVE IInv'
  <2>1. TypeOK'
    BY <1>11 DEF FindStaleCells, ListStale
  <2>2. Kinds'
    BY <1>11 DEF FindStaleCells, ListStale
  <2>3. CreatedMine'
    BY <1>11 DEF FindStaleCells, ListStale
  <2>4. RunningOwned'
    BY <1>11 DEF FindStaleCells, ListStale
  <2> QED  BY <2>1, <2>2, <2>3, <2>4
<1>12. ASSUME NEW s \in Runs, NEW c \in Cells, ReapStaleCell(s, c) PROVE IInv'
  <2>1. DockerStop(c)
    BY <1>12 DEF ReapStaleCell
  <2> QED  BY <1>12, <2>1, Stopped DEF ReapStaleCell
<1>13. ASSUME NEW s \in Runs, ReapEnds(s) PROVE IInv'
  BY <1>13 DEF ReapEnds
<1>14. ASSUME NEW s \in Runs, CheckOrphan(s) PROVE IInv'
  BY <1>14 DEF CheckOrphan
<1>15. ASSUME NEW s \in Runs, InspectOrphan(s) PROVE IInv'
  BY <1>15 DEF InspectOrphan
<1>16. ASSUME NEW s \in Runs, RemoveOrphan(s) PROVE IInv'
  BY <1>16 DEF RemoveOrphan, DockerRemove, Inside
<1>17. ASSUME NEW s \in Runs, Phases(s) PROVE IInv'
  BY <1>17 DEF Phases
<1>18. ASSUME NEW s \in Runs, PhaseFails(s) PROVE IInv'
  BY <1>18 DEF PhaseFails
<1>19. ASSUME NEW s \in Runs, CheckAlreadyRunning(s) PROVE IInv'
  BY <1>19 DEF CheckAlreadyRunning
<1>20. ASSUME NEW s \in Runs, ConfigDrifted(s) PROVE IInv'
  BY <1>20 DEF ConfigDrifted
<1>21. ASSUME NEW s \in Runs, RestartDrifted(s) PROVE IInv'
  <2>1. CellOf[s] \in Cells /\ DockerStop(CellOf[s])
    BY <1>21 DEF RestartDrifted
  <2>2. TypeOK'
    BY <1>21, <2>1, Stopped DEF RestartDrifted
  <2>3. Kinds'
    BY <1>21 DEF RestartDrifted
  <2>4. CreatedMine' /\ RunningOwned'
    BY <1>21, <2>1, Stopped DEF RestartDrifted
  <2> QED  BY <2>2, <2>3, <2>4
<1>22. ASSUME NEW s \in Runs, EnsureRunning(s) PROVE IInv'
  BY <1>22 DEF EnsureRunning
<1>23. ASSUME NEW s \in Runs, CreateContainer(s) PROVE IInv'
  <2>1. TypeOK'
    BY <1>23, SMTT(20) DEF CreateContainer
  <2>2. Kinds'
    BY <1>23 DEF CreateContainer
  <2>3. s \in Launchers /\ CellOf[s] \in Cells /\ (s \in Agents => s \in starters)
    BY <1>23 DEF CreateContainer
  <2>4. CASE containers[CellOf[s]] = Absent
    <3>0. pc[s] = "create"
      BY <1>23 DEF CreateContainer
    <3>1. /\ pc' = [pc EXCEPT ![s] = "launch"]
          /\ UNCHANGED starters
          /\ \A d \in Cells \ {CellOf[s]} : containers'[d] = containers[d]
          /\ containers'[CellOf[s]].state = "created"
          /\ containers'[CellOf[s]].by = s
          /\ containers'[CellOf[s]].lifecycle = IF s \in Starts THEN "persistent" ELSE "oneshot"
      BY <1>23, <2>3, <2>4 DEF CreateContainer
    <3>2. CreatedMine'
      BY <2>3, <3>0, <3>1
    <3>3. RunningOwned'
      BY <2>3, <3>0, <3>1
    <3> QED  BY <2>1, <2>2, <3>2, <3>3
  <2>5. CASE containers[CellOf[s]] # Absent
    BY <1>23, <2>1, <2>2, <2>5 DEF CreateContainer
  <2> QED  BY <2>4, <2>5
<1>24. ASSUME NEW s \in Runs, LaunchContainer(s) PROVE IInv'
  <2>1. TypeOK'
    <3>1. CellOf[s] \in Cells /\ pc' = [pc EXCEPT ![s] = pc'[s]] /\ pc'[s] \in Lines
      BY <1>24 DEF LaunchContainer
    <3>2. containers' \in [Cells -> Container]
      <4>1. containers' = [containers EXCEPT ![CellOf[s]].state = "booting"]
        BY <1>24 DEF LaunchContainer
      <4>2. containers[CellOf[s]] \in Container
        BY <3>1
      <4> HIDE DEF Container
      <4>3. \A k \in Container : [k EXCEPT !.state = "booting"] \in Container
        BY DEF Container
      <4> QED  BY <3>1, <4>1, <4>2, <4>3
    <3> QED  BY <1>24, <3>1, <3>2 DEF LaunchContainer
  <2>2. Kinds'
    BY <1>24 DEF LaunchContainer, Mine
  <2>3. CreatedMine'
    BY <1>24 DEF LaunchContainer, Mine
  <2>4. RunningOwned'
    BY <1>24 DEF LaunchContainer, Mine
  <2> QED  BY <2>1, <2>2, <2>3, <2>4
<1>25. ASSUME NEW s \in Runs, LaunchFails(s) PROVE IInv'
  <2>1. TypeOK'
    BY <1>25 DEF LaunchFails, Mine
  <2>2. Kinds'
    BY <1>25 DEF LaunchFails, Mine
  <2>3. CreatedMine'
    BY <1>25 DEF LaunchFails, Mine
  <2>4. RunningOwned'
    BY <1>25 DEF LaunchFails, Mine
  <2> QED  BY <2>1, <2>2, <2>3, <2>4
<1>26. ASSUME NEW s \in Runs, PollRunning(s) PROVE IInv'
  BY <1>26 DEF PollRunning
<1>27. ASSUME NEW s \in Runs, BootReady(s) PROVE IInv'
  BY <1>27 DEF BootReady
<1>28. ASSUME NEW s \in Runs, BootFails(s) PROVE IInv'
  BY <1>28 DEF BootFails
<1>29. ASSUME NEW s \in Runs, GateOpens(s) PROVE IInv'
  BY <1>29 DEF GateOpens
<1>30. ASSUME NEW s \in Runs, AttachFails(s) PROVE IInv'
  BY <1>30 DEF AttachFails
<1>31. ASSUME NEW s \in Runs, Exec(s) PROVE IInv'
  BY <1>31 DEF Exec
<1>32. ASSUME NEW s \in Runs, AgentExits(s) PROVE IInv'
  BY <1>32 DEF AgentExits
<1>33. ASSUME NEW s \in Runs, CheckAutoStop(s) PROVE IInv'
  BY <1>33 DEF CheckAutoStop
<1>34. ASSUME NEW s \in Runs, AutoStop(s) PROVE IInv'
  <2>1. CellOf[s] \in Cells /\ DockerStop(CellOf[s])
    BY <1>34 DEF AutoStop
  <2>2. TypeOK'
    BY <1>34, <2>1, Stopped DEF AutoStop
  <2>3. Kinds'
    BY <1>34 DEF AutoStop
  <2>4. CreatedMine' /\ RunningOwned'
    BY <1>34, <2>1, Stopped DEF AutoStop
  <2> QED  BY <2>2, <2>3, <2>4
<1>35. ASSUME NEW s \in Runs, CheckGone(s) PROVE IInv'
  BY <1>35 DEF CheckGone
<1>36. ASSUME NEW s \in Runs, RemoveGateway(s) PROVE IInv'
  BY <1>36 DEF RemoveGateway, DropGateway
<1>37. ASSUME NEW s \in Runs, CheckCleanup(s) PROVE IInv'
  BY <1>37 DEF CheckCleanup
<1>38. ASSUME NEW s \in Runs, CleanupStop(s) PROVE IInv'
  <2>1. CellOf[s] \in Cells /\ DockerStop(CellOf[s])
    BY <1>38 DEF CleanupStop
  <2>2. TypeOK'
    BY <1>38, <2>1, Stopped DEF CleanupStop
  <2>3. Kinds'
    BY <1>38 DEF CleanupStop
  <2>4. CreatedMine' /\ RunningOwned'
    BY <1>38, <2>1, Stopped DEF CleanupStop
  <2> QED  BY <2>2, <2>3, <2>4
<1>39. ASSUME NEW s \in Runs, BeginStop(s) PROVE IInv'
  BY <1>39 DEF BeginStop
<1>40. ASSUME NEW s \in Runs, StopContainer(s) PROVE IInv'
  <2>1. CellOf[s] \in Cells /\ DockerStop(CellOf[s])
    BY <1>40 DEF StopContainer
  <2>2. TypeOK'
    BY <1>40, <2>1, Stopped DEF StopContainer
  <2>3. Kinds'
    BY <1>40 DEF StopContainer
  <2>4. CreatedMine' /\ RunningOwned'
    BY <1>40, <2>1, Stopped DEF StopContainer
  <2> QED  BY <2>2, <2>3, <2>4
<1>41. ASSUME NEW s \in Runs, Interrupt(s) PROVE IInv'
  BY <1>41 DEF Interrupt
<1>42. ASSUME NEW c \in Cells, ContainerBoots(c) PROVE IInv'
  BY <1>42 DEF ContainerBoots
<1>43. ASSUME NEW c \in Cells, ContainerDies(c) PROVE IInv'
  <2>1. DockerStop(c)
    BY <1>43 DEF ContainerDies
  <2> QED  BY <1>43, <2>1, Stopped DEF ContainerDies
<1>44. ASSUME NEW c \in Cells, AutoRemove(c) PROVE IInv'
  <2>1. TypeOK'
    BY <1>44 DEF AutoRemove
  <2>2. Kinds'
    BY <1>44 DEF AutoRemove
  <2>3. CreatedMine'
    BY <1>44 DEF AutoRemove
  <2>4. RunningOwned'
    BY <1>44 DEF AutoRemove
  <2> QED  BY <2>1, <2>2, <2>3, <2>4
<1>45. CASE UNCHANGED vars
  BY <1>45 DEF vars
<1> HIDE DEF IInv, TypeOK, Kinds, CreatedMine, RunningOwned, Lines, Container
<1> QED
  BY <1>1, <1>2, <1>3, <1>4, <1>5, <1>6, <1>7, <1>8, <1>9, <1>10, <1>11, <1>12,
     <1>13, <1>14, <1>15, <1>16, <1>17, <1>18, <1>19, <1>20, <1>21, <1>22,
     <1>23, <1>24, <1>25, <1>26, <1>27, <1>28, <1>29, <1>30, <1>31, <1>32,
     <1>33, <1>34, <1>35, <1>36, <1>37, <1>38, <1>39, <1>40, <1>41, <1>42,
     <1>43, <1>44, <1>45
     DEF Next, RunStep, Prepare, Reap, Boot, Attached, Daemon

\* The inductive invariant holds in every reachable state.
THEOREM Inductive == Spec => []IInv
<1>1. Init => IInv
  BY IInvInit
<1>2. IInv /\ [Next]_vars => IInv'
  BY IInvStep
<1> QED
  BY <1>1, <1>2, PTL DEF Spec

\* TypeOK: the state of the commands and of the daemon keeps its types.
THEOREM TypeCorrect == Spec => []TypeOK
<1>1. IInv => TypeOK
  BY DEF IInv
<1> QED
  BY <1>1, Inductive, PTL

\* OneshotHasOwner: however commands for the same and for other cells
\* interleave, a running oneshot container has a run that started it and has
\* its stop still ahead, unless the user killed that run.
THEOREM OneshotOwned == Spec => []OneshotHasOwner
<1>1. IInv => OneshotHasOwner
  BY DEF IInv, RunningOwned, OneshotHasOwner
<1> QED
  BY <1>1, Inductive, PTL
-----------------------------------------------------------------------------
\* Before a call that would stop or remove a container: no command for a
\* settled one gets there.
Harmful == {"removeOrphan", "restart", "autoStop", "cleanupStop", "stop"}

\* What a settled container that nobody is going to disturb keeps: its runs
\* share its configuration, and no reaper has it on its list.
Kept(c) ==
    /\ containers[c].state = "up" /\ Lifecycle(c) = "persistent"
    /\ \A s \in Stops : CellOf[s] = c => pc[s] # "idle"
    /\ \A s \in Launchers : CellOf[s] = c /\ pc[s] \notin {"ended", "killed"} =>
                               ConfigOf[s] = containers[c].config
    /\ \A s \in Launchers \union Stops : CellOf[s] = c => pc[s] \notin Harmful
    /\ \A s \in Runs : pc[s] = "reap" => c \notin suspects[s]

\* A step of one command that leaves the container alone keeps it, when the
\* command stays in step with it.
LEMMA KeptByCommand ==
  ASSUME IInv, NEW c \in Cells, Kept(c), NEW s \in Runs, NEW l \in Lines,
         containers'[c] = containers[c], Goto(s, l),
         l # "idle", pc[s] \notin {"ended", "killed"},
         s \in Launchers \union Stops /\ CellOf[s] = c => l \notin Harmful,
         l = "reap" => c \notin suspects'[s],
         \A r \in Runs \ {s} : suspects'[r] = suspects[r]
  PROVE  Kept(c)'
<1> USE DEF Runs, Launchers
<1>1. pc' \in [Runs -> Lines] /\ pc'[s] = l /\ \A r \in Runs \ {s} : pc'[r] = pc[r]
  BY DEF IInv, TypeOK, Goto
<1>2. (containers[c].state = "up" /\ Lifecycle(c) = "persistent")'
  BY DEF Kept, Lifecycle
<1>3. \A r \in Stops : CellOf[r] = c => pc'[r] # "idle"
  BY <1>1 DEF Kept
<1>4. \A r \in Launchers : CellOf[r] = c /\ pc'[r] \notin {"ended", "killed"} =>
                              ConfigOf[r] = containers'[c].config
  BY <1>1 DEF Kept
<1>5. \A r \in Launchers \union Stops : CellOf[r] = c => pc'[r] \notin Harmful
  BY <1>1 DEF Kept
<1>6. \A r \in Runs : pc'[r] = "reap" => c \notin suspects'[r]
  BY <1>1 DEF Kept
<1> QED BY <1>2, <1>3, <1>4, <1>5, <1>6 DEF Kept

\* docker stop and rm of another cell's container leave this one alone.
LEMMA OthersKept ==
  ASSUME IInv, NEW c \in Cells, NEW d \in Cells \ {c},
         DockerStop(d) \/ DockerRemove(d)
  PROVE  containers'[c] = containers[c]
  BY DEF IInv, TypeOK, DockerStop, DockerRemove
LEMMA KeptStep ==
  ASSUME NEW c \in Cells, IInv, Kept(c), [Next]_vars
  PROVE  Kept(c)'
<1> USE CellsAssumption, KindsAssumption DEF Runs, Launchers, daemon, proxies, command
<1>0. /\ IInv /\ TypeOK /\ Kinds
      /\ Running(c) /\ Lifecycle(c) = "persistent" /\ containers[c] # Absent
      /\ containers[c].state = "up"
  BY DEF IInv, Kept, Running, Absent, Lifecycle
<1>1. ASSUME NEW s \in Runs, Prepare(s) PROVE Kept(c)'
  <2>1. CASE BeginAgent(s)
    BY <1>0, <2>1, KeptByCommand DEF BeginAgent, Lines, Harmful
  <2>2. CASE BeginStart(s)
    BY <1>0, <2>2, KeptByCommand DEF BeginStart, Lines, Harmful
  <2>3. CASE EnsureIsolatedNetwork(s)
    BY <1>0, <2>3, KeptByCommand DEF EnsureIsolatedNetwork, Lines, Harmful
  <2>4. CASE CheckGateway(s)
    BY <1>0, <2>4, KeptByCommand DEF CheckGateway, Lines, Harmful
  <2>5. CASE CreateGateway(s)
    BY <1>0, <2>5, KeptByCommand DEF CreateGateway, Lines, Harmful
  <2>6. CASE StartGateway(s)
    BY <1>0, <2>6, KeptByCommand DEF StartGateway, Lines, Harmful
  <2>7. CASE ConnectGateway(s)
    BY <1>0, <2>7, KeptByCommand DEF ConnectGateway, Lines, Harmful
  <2>8. CASE ListProxies(s)
    BY <1>0, <2>8, KeptByCommand DEF ListProxies, TypeOK, Lines, Harmful
  <2>9. ASSUME NEW d \in Cells, CheckProxy(s, d) \/ RemoveProxy(s, d) PROVE Kept(c)'
    BY <1>0, <2>9 DEF CheckProxy, RemoveProxy, Kept, Lifecycle, TypeOK
  <2> QED BY <1>1, <2>1, <2>2, <2>3, <2>4, <2>5, <2>6, <2>7, <2>8, <2>9 DEF Prepare
<1>2. ASSUME NEW s \in Runs, Reap(s) PROVE Kept(c)'
  <2>1. CASE FindStaleCells(s)
    <3>1. Goto(s, "reap") /\ UNCHANGED containers /\ pc[s] \in {"sweep", "idle"}
      BY <2>1 DEF FindStaleCells, ListStale
    <3>2. c \notin suspects'[s] /\ \A r \in Runs \ {s} : suspects'[r] = suspects[r]
      BY <1>0, <2>1 DEF FindStaleCells, ListStale, StaleOneshot, TypeOK
    <3> QED BY <1>0, <3>1, <3>2, KeptByCommand DEF Lines, Harmful
  <2>2. CASE ReapEnds(s)
    BY <1>0, <2>2, KeptByCommand DEF ReapEnds, TypeOK, Lines, Harmful
  <2>3. ASSUME NEW d \in Cells, ReapStaleCell(s, d) PROVE Kept(c)'
    <3>1. d # c /\ DockerStop(d)
      BY <2>3 DEF ReapStaleCell, Kept
    <3>2. containers'[c] = containers[c]
      BY <1>0, <3>1, OthersKept
    <3>3. UNCHANGED pc /\ \A r \in Runs : suspects'[r] \subseteq suspects[r]
      BY <1>0, <2>3 DEF ReapStaleCell, TypeOK
    <3> QED BY <3>2, <3>3 DEF Kept, Lifecycle
  <2>4. CASE CheckOrphan(s)
    BY <1>0, <2>4, KeptByCommand DEF CheckOrphan, Lines, Harmful
  <2>5. CASE InspectOrphan(s)
    <3>1. s \in Launchers
      BY <1>0, <2>5 DEF InspectOrphan, Kinds, LauncherLines
    <3>2. CASE CellOf[s] = c
      <4>1. Goto(s, "ended")
        BY <1>0, <2>5, <3>2 DEF InspectOrphan
      <4> QED BY <1>0, <2>5, <4>1, KeptByCommand DEF InspectOrphan, Lines, Harmful
    <3>3. CASE CellOf[s] # c
      BY <1>0, <2>5, <3>3, KeptByCommand DEF InspectOrphan, Lines
    <3> QED BY <3>2, <3>3
  <2>6. CASE RemoveOrphan(s)
    <3>1. s \in Launchers /\ CellOf[s] \in Cells \ {c}
      BY <1>0, <2>6 DEF RemoveOrphan, Kinds, LauncherLines, Kept, Harmful
    <3>2. containers'[c] = containers[c]
      BY <1>0, <2>6, <3>1, OthersKept DEF RemoveOrphan
    <3> QED BY <1>0, <2>6, <3>2, KeptByCommand DEF RemoveOrphan, Lines, Harmful
  <2>7. CASE Phases(s)
    BY <1>0, <2>7, KeptByCommand DEF Phases, Lines, Harmful
  <2>8. CASE PhaseFails(s)
    BY <1>0, <2>8, KeptByCommand DEF PhaseFails, Lines, Harmful
  <2> QED BY <1>2, <2>1, <2>2, <2>3, <2>4, <2>5, <2>6, <2>7, <2>8 DEF Reap
<1>3. ASSUME NEW s \in Runs, Boot(s) PROVE Kept(c)'
  <2>1. CASE CheckAlreadyRunning(s)
    BY <1>0, <2>1, KeptByCommand DEF CheckAlreadyRunning, Lines, Harmful
  <2>2. CASE ConfigDrifted(s)
    <3>1. s \in Launchers
      BY <1>0, <2>2 DEF ConfigDrifted, Kinds, AgentLines
    <3>2. CellOf[s] = c => ConfigOf[s] = containers[c].config
      BY <2>2, <3>1 DEF ConfigDrifted, Kept
    <3> QED BY <1>0, <2>2, <3>2, KeptByCommand DEF ConfigDrifted, Lines, Harmful
  <2>3. CASE RestartDrifted(s)
    <3>1. s \in Launchers /\ CellOf[s] \in Cells \ {c}
      BY <1>0, <2>3 DEF RestartDrifted, Kinds, AgentLines, Kept, Harmful
    <3>2. containers'[c] = containers[c]
      BY <1>0, <2>3, <3>1, OthersKept DEF RestartDrifted
    <3> QED BY <1>0, <2>3, <3>2, KeptByCommand DEF RestartDrifted, Lines, Harmful
  <2>4. CASE EnsureRunning(s)
    BY <1>0, <2>4, KeptByCommand DEF EnsureRunning, Lines, Harmful
  <2>5. CASE CreateContainer(s)
    <3>1. s \in Launchers /\ CellOf[s] \in Cells
      BY <1>0, <2>5 DEF CreateContainer, Kinds, LauncherLines
    <3>2. containers'[c] = containers[c]
      BY <1>0, <2>5, <3>1 DEF CreateContainer, TypeOK
    <3> QED BY <1>0, <2>5, <3>2, KeptByCommand DEF CreateContainer, Lines, Harmful
  <2>6. CASE LaunchContainer(s)
    <3>1. s \in Launchers /\ CellOf[s] \in Cells \ {c}
      BY <1>0, <2>6 DEF LaunchContainer, Mine, Kinds, LauncherLines
    <3>2. containers'[c] = containers[c]
      BY <1>0, <2>6, <3>1 DEF LaunchContainer, TypeOK
    <3> QED BY <1>0, <2>6, <3>2, KeptByCommand DEF LaunchContainer, Lines, Harmful
  <2>7. CASE LaunchFails(s)
    <3>1. s \in Launchers /\ CellOf[s] \in Cells
      BY <1>0, <2>7 DEF LaunchFails, Kinds, LauncherLines
    <3>2. containers'[c] = containers[c]
      BY <1>0, <2>7, <3>1 DEF LaunchFails, Mine, TypeOK
    <3> QED BY <1>0, <2>7, <3>2, KeptByCommand DEF LaunchFails, Lines, Harmful
  <2>8. CASE PollRunning(s)
    BY <1>0, <2>8, KeptByCommand DEF PollRunning, Lines, Harmful
  <2>9. CASE BootReady(s)
    BY <1>0, <2>9, KeptByCommand DEF BootReady, Lines, Harmful
  <2>10. CASE BootFails(s)
    BY <1>0, <2>10, KeptByCommand DEF BootFails, Lines, Harmful
  <2>11. CASE GateOpens(s)
    BY <1>0, <2>11, KeptByCommand DEF GateOpens, Lines, Harmful
  <2>12. CASE AttachFails(s)
    BY <1>0, <2>12, KeptByCommand DEF AttachFails, Lines, Harmful
  <2> QED BY <1>3, <2>1, <2>2, <2>3, <2>4, <2>5, <2>6, <2>7, <2>8, <2>9, <2>10, <2>11, <2>12
          DEF Boot
<1>4. ASSUME NEW s \in Runs, Attached(s) PROVE Kept(c)'
  <2>1. CASE Exec(s)
    BY <1>0, <2>1, KeptByCommand DEF Exec, Lines, Harmful
  <2>2. CASE AgentExits(s)
    BY <1>0, <2>2, KeptByCommand DEF AgentExits, Lines, Harmful
  <2>3. CASE CheckAutoStop(s)
    BY <1>0, <2>3, KeptByCommand DEF CheckAutoStop, Lines, Harmful
  <2>4. CASE AutoStop(s)
    <3>1. s \in Launchers /\ CellOf[s] \in Cells \ {c}
      BY <1>0, <2>4 DEF AutoStop, Kinds, AgentLines, Kept, Harmful
    <3>2. containers'[c] = containers[c]
      BY <1>0, <2>4, <3>1, OthersKept DEF AutoStop
    <3> QED BY <1>0, <2>4, <3>2, KeptByCommand DEF AutoStop, Lines, Harmful
  <2>5. CASE CheckGone(s)
    BY <1>0, <2>5, KeptByCommand DEF CheckGone, Lines, Harmful
  <2>6. CASE RemoveGateway(s)
    BY <1>0, <2>6, KeptByCommand DEF RemoveGateway, Lines, Harmful
  <2>7. CASE CheckCleanup(s)
    BY <1>0, <2>7, KeptByCommand DEF CheckCleanup, Lines, Harmful
  <2>8. CASE CleanupStop(s)
    <3>1. s \in Launchers /\ CellOf[s] \in Cells \ {c}
      BY <1>0, <2>8 DEF CleanupStop, Kinds, AgentLines, Kept, Harmful
    <3>2. containers'[c] = containers[c]
      BY <1>0, <2>8, <3>1, OthersKept DEF CleanupStop
    <3> QED BY <1>0, <2>8, <3>2, KeptByCommand DEF CleanupStop, Lines, Harmful
  <2>9. CASE BeginStop(s)
    <3>1. CellOf[s] # c
      BY <2>9 DEF BeginStop, Kept
    <3> QED BY <1>0, <2>9, <3>1, KeptByCommand DEF BeginStop, Lines
  <2>10. CASE StopContainer(s)
    <3>1. s \in Launchers \union Stops /\ CellOf[s] \in Cells \ {c}
      BY <1>0, <2>10 DEF StopContainer, Kinds, Kept, Harmful
    <3>2. containers'[c] = containers[c]
      BY <1>0, <2>10, <3>1, OthersKept DEF StopContainer
    <3> QED BY <1>0, <2>10, <3>2, KeptByCommand DEF StopContainer, Lines, Harmful
  <2> QED BY <1>4, <2>1, <2>2, <2>3, <2>4, <2>5, <2>6, <2>7, <2>8, <2>9, <2>10 DEF Attached
<1>5. ASSUME NEW s \in Runs, Interrupt(s) PROVE Kept(c)'
  BY <1>0, <1>5, KeptByCommand DEF Interrupt, Lines, Harmful
<1>6. ASSUME NEW d \in Cells, Daemon(d) PROVE Kept(c)'
  <2>1. d # c /\ UNCHANGED <<pc, suspects>>
    BY <1>0, <1>6 DEF Daemon, ContainerBoots, ContainerDies, AutoRemove
  <2>2. containers'[c] = containers[c]
    BY <1>0, <1>6, <2>1, OthersKept DEF Daemon, ContainerBoots, ContainerDies, AutoRemove, TypeOK
  <2> QED BY <2>1, <2>2 DEF Kept, Lifecycle
<1>7. CASE UNCHANGED vars
  BY <1>7 DEF vars, Kept, Lifecycle
<1> QED BY <1>1, <1>2, <1>3, <1>4, <1>5, <1>6, <1>7 DEF Next, RunStep

\* PersistentStays: whatever runs, stops of other cells and reapers do, the
\* container of `cell start` stays up for runs with its configuration.
THEOREM SettledStays == Spec => PersistentStays
<1> SUFFICES ASSUME NEW c \in Cells
             PROVE  Spec => [](Undisturbed(c) => []Running(c))
  BY DEF PersistentStays
<1>1. IInv /\ Kept(c) /\ [Next]_vars => Kept(c)'
  BY KeptStep
<1>2. Undisturbed(c) => Kept(c)
  BY DEF Undisturbed, Settled, Kept, Harmful, Runs, Launchers
<1>3. Kept(c) => Running(c)
  BY DEF Kept, Running
<1> QED BY <1>1, <1>2, <1>3, Inductive, PTL DEF Spec
=============================================================================
