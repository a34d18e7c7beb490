----------------------------- MODULE MCMachines -----------------------------
(***************************************************************************)
(* Small instances of six parts of devcell that never meet: the background *)
(* responses, the streamed answers and the interactive agent of `cell      *)
(* serve`, the log watcher of a container's boot, the macOS and the        *)
(* Windows virtual machines.  Each initial state picks one of them, and    *)
(* the others stay in theirs.                                              *)
(***************************************************************************)
EXTENDS JobStore, StreamPipe, BootLog, TartVM, WinkitVM, PtySession, TLC

CONSTANTS
    c1, c2,                 \* cells
    b1, s1, s2,             \* tart: a build and two sessions
    r1, r2, d1, k1,         \* winkit: two runs, a `cell start`, a `cell stop`
    q1, q2                  \* requests of `cell serve`

VARIABLE topic               \* the part that runs

MCCellOf == (r1 :> c1 @@ r2 :> c2 @@ d1 :> c1 @@ k1 :> c1)

MCMacOf == (b1 :> c2 @@ s1 :> c1 @@ s2 :> c1)
MCStackOf == (c1 :> "go" @@ c2 :> "node")

allVars == <<topic, vars, streamVars, logVars, tartVars, winkitVars, ptyVars>>

Topics == {"jobs", "stream", "log", "tart", "winkit", "pty"}
MCInit ==
    /\ topic \in Topics
    /\ Init /\ StreamInit /\ LogInit /\ TartInit /\ WinkitInit /\ PtyInit
    \* Only the part that runs starts in each of its states.
    /\ topic # "log" => reader = "scan"

JobStep(A) ==
    topic = "jobs" /\ A /\ UNCHANGED <<topic, streamVars, logVars, tartVars, winkitVars, ptyVars>>
StreamStep(A) ==
    topic = "stream" /\ A /\ UNCHANGED <<topic, vars, logVars, tartVars, winkitVars, ptyVars>>
LogStep(A) ==
    topic = "log" /\ A /\ UNCHANGED <<topic, vars, streamVars, tartVars, winkitVars, ptyVars>>
\* Bound: two of the three commands run.
TwoCommands == \E p \in TartCommands : tart[p].pc = "idle"
TartStep ==
    /\ topic = "tart" /\ TartNext /\ TwoCommands'
    /\ UNCHANGED <<topic, vars, streamVars, logVars, winkitVars, ptyVars>>
WinkitStep ==
    /\ topic = "winkit" /\ WinkitNext
    /\ UNCHANGED <<topic, vars, streamVars, logVars, tartVars, ptyVars>>
PtyStep ==
    /\ topic = "pty" /\ PtyNext
    /\ UNCHANGED <<topic, vars, streamVars, logVars, tartVars, winkitVars>>

MCNext ==
    \/ JobStep(Next) \/ StreamStep(StreamNext) \/ LogStep(LogNext)
    \/ TartStep \/ WinkitStep \/ PtyStep

\* As in JobStore, StreamPipe and BootLog: the ticker sweeps, time goes on,
\* goroutines run and a cancelled context kills; nothing else is promised to.
MCSpec ==
    /\ MCInit /\ [][MCNext]_allVars
    /\ WF_allVars(JobStep(Sweep)) /\ WF_allVars(JobStep(Tick))
    /\ WF_allVars(StreamStep(Scanner)) /\ WF_allVars(StreamStep(Wrapper))
    /\ WF_allVars(StreamStep(Pump)) /\ WF_allVars(StreamStep(ClaudeKilled))
    /\ WF_allVars(LogStep(Reader)) /\ WF_allVars(LogStep(Consumer))
    /\ WF_allVars(LogStep(Closed))

-----------------------------------------------------------------------------
(* The types; the properties of the six parts are stated in their modules. *)
AllTypes == TypeOK /\ StreamTypes /\ LogTypes /\ TartTypes /\ WinkitTypes /\ PtyTypes
=============================================================================
