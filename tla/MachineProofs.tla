--------------------------- MODULE MachineProofs ----------------------------
(***************************************************************************)
(* Proofs about the machines a cell runs on.                               *)
(*                                                                         *)
(* BootLog, for every capacity of the channel and any number of events:    *)
(* the types, and that the boot of a container is reported interrupted     *)
(* only where docker's log, or what the scanner can read of it, ends.      *)
(*                                                                         *)
(* WinkitVM, for any commands and cells: the types, that no Windows VM     *)
(* runs unaccounted for, and that no image is installed from boot-only     *)
(* media that devcell fetched.                                             *)
(*                                                                         *)
(* TartVM, for any commands, cells and stacks: a macOS instance that runs  *)
(* has a session that will stop it or was killed; and, however builds      *)
(* overlap, a template whose disk is the work of one build is complete.    *)
(***************************************************************************)
EXTENDS BootLog, TartVM, WinkitVM, SequenceTheorems, TLAPS

(* BootLog *)

\* The scanner ends with the log, or at a line that is too long, ...
ScannerEnds ==
    reader \in {"wait", "done"} =>
        IF pipe = <<>> THEN follow # "alive" ELSE Head(pipe) = "long"
\* ... the reader is not done before docker logs, nor the consumer before the reader.
ReaderEnds == reader = "done" => follow # "alive"
ConsumerEnds == consumer = "closed" => reader = "done" /\ out = <<>>

LogInv == LogTypes /\ ScannerEnds /\ ReaderEnds /\ ConsumerEnds

-----------------------------------------------------------------------------
LEMMA LogStarts == LogInit => LogInv
  BY EmptySeq, LogAssumption
     DEF LogInit, LogInv, LogTypes, ScannerEnds, ReaderEnds, ConsumerEnds, Events

\* What is logged comes after what was logged before.
LEMMA LoggedBehind ==
  ASSUME NEW lines \in Seq(Lines), lines # <<>>, NEW line \in Lines
  PROVE  /\ Append(lines, line) \in Seq(Lines) /\ Append(lines, line) # <<>>
         /\ Head(Append(lines, line)) = Head(lines)
<1>1. Len(lines) \in Nat /\ Len(lines) # 0
  BY LenProperties, EmptySeq
<1>2. /\ Append(lines, line) \in Seq(Lines) /\ Len(Append(lines, line)) = Len(lines) + 1
      /\ \A i \in 1 .. Len(lines) : Append(lines, line)[i] = lines[i]
  BY AppendProperties
<1> QED BY <1>1, <1>2

\* The container and the engine's main goroutine touch neither the channel nor
\* the reader.
LEMMA LogOthersKeep ==
  ASSUME LogInv, Log \/ Stop \/ FollowEnds \/ Main \/ UNCHANGED logVars
  PROVE  LogInv'
<1> USE LogAssumption DEF LogInv, LogTypes
<1>1. CASE Log
  <2>1. PICK line \in Lines : pipe' = Append(pipe, line) BY <1>1 DEF Log
  <2>2. logged' \in 0..MaxEvents BY <1>1 DEF Log
  <2>3. pipe' \in Seq(Lines) BY <2>1, AppendProperties
  <2>4. follow = "alive" /\ UNCHANGED <<container, reader, hand, out, follow, consumer, main>>
    BY <1>1 DEF Log
  <2>5. pipe # <<>> => pipe' # <<>> /\ Head(pipe') = Head(pipe) BY <2>1, LoggedBehind
  <2>6. ScannerEnds' BY <2>4, <2>5 DEF ScannerEnds
  <2>7. QED BY <2>2, <2>3, <2>4, <2>6 DEF ReaderEnds, ConsumerEnds
<1>2. CASE Stop \/ FollowEnds \/ UNCHANGED logVars
  BY <1>2 DEF Stop, FollowEnds, logVars, ScannerEnds, ReaderEnds, ConsumerEnds
<1>3. CASE Main
  <2>1. UNCHANGED <<container, logged, pipe, reader, hand, out, consumer>>
    BY <1>3 DEF Main, BootReady, BootInterrupted, BootTimeout, SessionEnds, Closed
  <2>2. main' \in {"session", "closing", "returned"} /\ follow' \in {follow, "gone"}
    BY <1>3 DEF Main, BootReady, BootInterrupted, BootTimeout, SessionEnds, Closed, CancelFollow
  <2>3. QED BY <2>1, <2>2 DEF ScannerEnds, ReaderEnds, ConsumerEnds
<1>4. QED BY <1>1, <1>2, <1>3

\* The reader puts an event into a channel that has room, and ends with the log
\* or at a line that is too long.
LEMMA LogReaderKeeps == ASSUME LogInv, Reader PROVE LogInv'
<1> USE LogAssumption DEF LogInv, LogTypes
<1>1. CASE Scan
  <2>1. Head(pipe) \in Lines /\ Tail(pipe) \in Seq(Lines)
    BY <1>1, HeadTailProperties DEF Scan
  <2>2. Head(pipe) \in Events BY <1>1, <2>1 DEF Scan, Lines
  <2>3. LogTypes' BY <1>1, <2>1, <2>2 DEF Scan
  <2>4. reader = "scan" /\ reader' = "send" /\ consumer' = consumer BY <1>1 DEF Scan
  <2>5. QED BY <2>3, <2>4 DEF ScannerEnds, ReaderEnds, ConsumerEnds
<1>2. CASE SendEvent
  <2>1. out' = Append(out, hand) /\ Len(out) < Cap BY <1>2 DEF SendEvent
  <2>2. out' \in Seq(Events) /\ Len(out') = Len(out) + 1
    BY <2>1, AppendProperties
  <2>3. Len(out) \in Nat BY LenProperties
  <2>4. Len(out') <= Cap BY <2>1, <2>2, <2>3
  <2>5. UNCHANGED <<container, logged, pipe, hand, follow, consumer, main>>
        /\ reader = "send" /\ reader' = "scan"
    BY <1>2 DEF SendEvent
  <2>6. QED BY <2>2, <2>4, <2>5 DEF ScannerEnds, ReaderEnds, ConsumerEnds
<1>3. CASE ScanEnds \/ ScanTooLong \/ ReaderDone
  BY <1>3 DEF ScanEnds, ScanTooLong, ReaderDone, ScannerEnds, ReaderEnds, ConsumerEnds
<1>4. QED BY <1>1, <1>2, <1>3 DEF Reader

\* The consumer takes an event, or sees the channel closed and empty.
LEMMA LogConsumerKeeps == ASSUME LogInv, Consumer PROVE LogInv'
<1> USE LogAssumption DEF LogInv, LogTypes
<1>1. CASE Consume
  <2>1. out # <<>> /\ out' = Tail(out) /\ consumer = "running" BY <1>1 DEF Consume
  <2>2. out' \in Seq(Events) /\ Len(out') = Len(out) - 1
    BY <2>1, HeadTailProperties
  <2>3. Len(out) \in Nat BY LenProperties
  <2>4. Len(out') <= Cap BY <2>2, <2>3
  <2>5. UNCHANGED <<container, logged, pipe, reader, hand, follow, main>>
        /\ consumer' \in {"ready", "running"}
    BY <1>1 DEF Consume
  <2>6. QED BY <2>2, <2>4, <2>5 DEF ScannerEnds, ReaderEnds, ConsumerEnds
<1>2. CASE ConsumeEnds
  BY <1>2 DEF ConsumeEnds, ScannerEnds, ReaderEnds, ConsumerEnds
<1>3. QED BY <1>1, <1>2 DEF Consumer

LEMMA LogInvKept == ASSUME LogInv, [LogNext]_logVars PROVE LogInv'
  BY LogOthersKeep, LogReaderKeeps, LogConsumerKeeps DEF LogNext

-----------------------------------------------------------------------------
\* The types of the goroutines' state, and that the channel never holds more
\* than its capacity.
THEOREM LogTypesHold == LogSpec => []LogTypes
<1>1. LogInv => LogTypes BY DEF LogInv
<1>2. QED BY LogStarts, LogInvKept, <1>1, PTL DEF LogSpec

\* The engine takes a boot for interrupted only when docker logs has ended or was
\* never started, and every event before a line that is too long was read.
THEOREM InterruptedAtTheEnd == LogSpec => []InterruptedOnlyAtEnd
<1>1. LogInv => InterruptedOnlyAtEnd
  BY DEF LogInv, ScannerEnds, ReaderEnds, ConsumerEnds, InterruptedOnlyAtEnd
<1>2. QED BY LogStarts, LogInvKept, <1>1, PTL DEF LogSpec
-----------------------------------------------------------------------------
(* WinkitVM *)

\* A command that has not booted yet has no VM, and one that a `cell stop`
\* works on has been booted: so no VM comes up after it was stopped.
BeforeBoot == {"idle", "install", "share", "look", "boot"}
Stopping == {"graceful", "wait30", "term", "wait10", "stopped"}
NotDown == {"up", "ending"}
NotYetBooted == \A p \in Launchers : proc[p].pc \in BeforeBoot => vm[p] = "none"
TargetsBooted ==
    \A s \in Stops : proc[s].pc \in Stopping =>
        proc[s].target \in Launchers /\ vm[proc[s].target] # "none"

WinkitInv == WinkitTypes /\ NotYetBooted /\ TargetsBooted /\ GuestsAccounted /\ MediaComplete

-----------------------------------------------------------------------------
\* The initial state has no image, no media and no VM.
LEMMA WinkitStarts == WinkitInit => WinkitInv
  BY DEF WinkitInit, WinkitInv, WinkitTypes, NotYetBooted, TargetsBooted, GuestsAccounted, GuestsOwned,
         GuestsFound, StopsTold, Alive, MediaComplete, BeforeBoot, Stopping, Procs, Launchers, Points

\* What download.go hands to the installer is complete, or nothing.
LEMMA DownloadsAreComplete ==
  ASSUME NEW m, NEW iso \in DownloadWindowsISO(m)
  PROVE  iso \in {"mct", "full", None}
  BY DEF DownloadWindowsISO, Fetched

\* Every step of a launcher and of a `cell stop` keeps the types.
LEMMA WinkitTypesKept == ASSUME WinkitTypes, [WinkitNext]_winkitVars PROVE WinkitTypes'
<1> USE CommandsAssumption DEF WinkitTypes, Procs, Launchers, ISOs, Points
<1>1. ASSUME NEW p \in Launchers, EnsureImage(p) PROVE WinkitTypes'
  <2>1. CASE media' = media /\ (\E pc \in Points : Goto(p, pc)) /\ UNCHANGED <<image, vm, record, share>>
    BY <2>1 DEF Goto
  <2>2. ASSUME NEW iso \in ISOs \cup {"own", None}, MediaFound(p, iso)
        PROVE  proc' \in [Procs -> [pc : Points, iso : ISOs \cup {"own", None}, target : Launchers \cup {None}]]
    BY <2>2 DEF MediaFound, Goto
  <2>3. ASSUME MediaFound(p, "own"), UNCHANGED <<media, image, vm, record, share>>
        PROVE WinkitTypes'
    BY <2>2, <2>3
  <2>4. ASSUME NEW iso \in DownloadWindowsISO(media), NEW left \in Leftovers(media, iso),
               media' = media \cup ((left \cup {iso}) \ {None}),
               UNCHANGED <<image, vm, record, share>>,
               MediaFound(p, iso)
        PROVE WinkitTypes'
    <3>1. iso \in {"mct", "full", None} BY DownloadsAreComplete
    <3>2. media' \subseteq ISOs BY <2>4, <3>1 DEF Leftovers
    <3>3. proc' \in [Procs -> [pc : Points, iso : ISOs \cup {"own", None}, target : Launchers \cup {None}]]
      BY <2>2, <2>4, <3>1
    <3>4. QED BY <2>4, <3>2, <3>3
  <2>5. QED BY <1>1, <2>1, <2>3, <2>4 DEF EnsureImage
<1>2. ASSUME NEW p \in Launchers, Install(p) PROVE WinkitTypes'
  <2>1. PICK made \in {"built", "broken", "failed"} :
          /\ image' = IF made = "failed" THEN image ELSE made
          /\ proc' = [proc EXCEPT ![p].iso = None,
                                  ![p].pc = IF made # "built" THEN "ended"
                                            ELSE IF p \in Runs THEN "share" ELSE "look"]
    BY <1>2 DEF Install
  <2>2. image' \in {"none", "broken", "built"} BY <2>1
  <2>3. proc' \in [Procs -> [pc : Points, iso : ISOs \cup {"own", None}, target : Launchers \cup {None}]]
    BY <2>1
  <2>4. UNCHANGED <<media, vm, record, share>> BY <1>2 DEF Install
  <2>5. QED BY <2>2, <2>3, <2>4
<1>3. ASSUME NEW p \in Launchers, Share(p) PROVE WinkitTypes'
  <2>1. UNCHANGED <<media, image, vm, record>> BY <1>3 DEF Share
  <2>2. \E pc \in Points : Goto(p, pc) BY <1>3 DEF Share
  <2>3. share' \in Runs \cup {None} BY <1>3 DEF Share
  <2>4. QED BY <2>1, <2>2, <2>3 DEF Goto
<1>4. ASSUME NEW p \in Launchers, Look(p) PROVE WinkitTypes'
  BY <1>4 DEF Look, Goto, Release
<1>5. ASSUME NEW p \in Launchers, Boot(p) PROVE WinkitTypes'
  BY <1>5 DEF Boot, Goto, Release
<1>6. ASSUME NEW p \in Launchers,
             Answers(p) \/ Silent(p) \/ AgentExits(p) \/ Leave(p) \/ Die(p) \/ Ends(p)
      PROVE WinkitTypes'
  BY <1>6 DEF Answers, Silent, AgentExits, Leave, Die, Ends, Goto, Release
<1>7. ASSUME NEW s \in Stops, StartStop(s) PROVE WinkitTypes'
  BY <1>7 DEF StartStop, Goto, Alive
<1>8. ASSUME NEW s \in Stops, Graceful(s) \/ Terminate(s) \/ Gone(s) \/ TimesOut(s) \/ Kill(s)
      PROVE WinkitTypes'
  BY <1>8 DEF Graceful, Terminate, Gone, TimesOut, Kill, Goto, Tell, Remove
<1>9. CASE UNCHANGED winkitVars
  BY <1>9 DEF winkitVars
<1>10. QED BY <1>1, <1>2, <1>3, <1>4, <1>5, <1>6, <1>7, <1>8, <1>9 DEF WinkitNext

-----------------------------------------------------------------------------
\* What a step of one launcher must show for the invariant: where it goes, that
\* a VM that comes up was not there before, and that it has its cell's record.
LEMMA LauncherMoves ==
  ASSUME WinkitInv, NEW p \in Launchers,
         \A q \in Procs \ {p} : proc'[q] = proc[q],
         \A q \in Launchers \ {p} : vm'[q] = vm[q],
         proc'[p].pc \in BeforeBoot => vm'[p] = "none",
         vm'[p] = "up" => proc'[p].pc \in {"ssh", "agent", "leave", "detached", "dead", "left"},
         vm'[p] = vm[p] \/ vm[p] = "none" \/ (vm'[p] = "down" /\ vm[p] # "none"),
         \/ record' = record /\ (vm'[p] \in NotDown => vm[p] \in NotDown)
         \/ ~Alive(record[CellOf[p]]) /\ record' = [record EXCEPT ![CellOf[p]] = p],
         proc'[p].pc = "install" => proc'[p].iso \in {"mct", "full", "own"}
  PROVE  NotYetBooted' /\ TargetsBooted' /\ GuestsAccounted' /\ MediaComplete'
<1> USE CommandsAssumption DEF WinkitInv, Procs
<1>1. NotYetBooted' BY DEF NotYetBooted
<1>2. MediaComplete' BY DEF MediaComplete
<1>3. TargetsBooted' BY DEF TargetsBooted
<1>4. \A q \in Launchers : vm[q] # "none" /\ ~Alive(q) => ~(Alive(q))' BY DEF Alive
<1>5. ASSUME NEW s \in Stops, proc'[s].pc = "stopped" PROVE ~(Alive(proc[s].target))'
  <2>1. proc[s].pc = "stopped" BY <1>5
  <2>2. proc[s].target \in Launchers /\ vm[proc[s].target] # "none"
    BY <2>1 DEF TargetsBooted, Stopping
  <2>3. ~Alive(proc[s].target) BY <2>1 DEF GuestsAccounted, StopsTold
  <2>4. proc'[s] = proc[s] OBVIOUS
  <2>5. QED BY <1>4, <2>2, <2>3, <2>4 DEF Alive
<1>6. StopsTold' BY <1>5 DEF StopsTold, Alive
<1>7. GuestsOwned' BY DEF GuestsAccounted, GuestsOwned
<1>8. ASSUME NEW q \in Launchers, Alive(q)'
      PROVE  \/ record'[CellOf[q]] = q
             \/ \E s \in Stops : CellOf[s] = CellOf[q] /\ proc'[s].pc \in {"stopped", "killed"}
  <2>1. vm'[q] \in NotDown BY <1>8 DEF Alive, NotDown
  <2>2. \A s \in Stops : proc'[s] = proc[s] OBVIOUS
  <2>3. CASE record' = record /\ Alive(q)
    BY <2>2, <2>3 DEF GuestsAccounted, GuestsFound
  <2>4. CASE ~Alive(record[CellOf[p]]) /\ record' = [record EXCEPT ![CellOf[p]] = p]
    <3>1. record \in [Cells -> Launchers \cup {None}] /\ CellOf[p] \in Cells /\ CellOf[q] \in Cells
      BY DEF WinkitTypes
    <3>2. CASE q = p BY <2>4, <3>1, <3>2
    <3>3. CASE q # p
      <4>1. Alive(q) BY <2>1, <3>3 DEF Alive, NotDown
      <4>2. \/ record[CellOf[q]] = q
            \/ \E s \in Stops : CellOf[s] = CellOf[q] /\ proc[s].pc \in {"stopped", "killed"}
        BY <4>1 DEF GuestsAccounted, GuestsFound
      <4>3. CASE record[CellOf[q]] = q
        <5>1. CellOf[q] # CellOf[p] BY <2>4, <4>1, <4>3
        <5>2. QED BY <2>4, <3>1, <4>3, <5>1
      <4>4. QED BY <2>2, <4>2, <4>3
    <3>4. QED BY <3>2, <3>3
  <2>5. QED BY <2>1, <2>3, <2>4 DEF Alive, NotDown
<1>9. GuestsFound' BY <1>8 DEF GuestsFound
<1>10. QED BY <1>1, <1>2, <1>3, <1>6, <1>7, <1>9 DEF GuestsAccounted

\* The same for a step of a `cell stop`: a VM may end, and none comes up; when
\* the record goes, the command is done.
LEMMA StopMoves ==
  ASSUME WinkitInv, NEW s \in Stops,
         \A q \in Procs \ {s} : proc'[q] = proc[q],
         \A q \in Launchers : vm'[q] = vm[q] \/ (vm[q] # "none" /\ vm'[q] \in {"ending", "down"}),
         \A q \in Launchers : vm[q] \notin NotDown => vm'[q] \notin NotDown,
         proc[s].pc \notin {"stopped", "killed"},
         \/ record' = record
         \/ record' = [record EXCEPT ![CellOf[s]] = None] /\ proc'[s].pc \in {"stopped", "killed"},
         proc'[s].pc \in Stopping =>
            proc'[s].target \in Launchers /\ vm'[proc'[s].target] # "none",
         proc'[s].pc = "stopped" => vm'[proc'[s].target] \notin NotDown
  PROVE  NotYetBooted' /\ TargetsBooted' /\ GuestsAccounted' /\ MediaComplete'
<1> USE CommandsAssumption DEF WinkitInv, Procs
<1>1. NotYetBooted' BY DEF NotYetBooted
<1>2. MediaComplete' BY DEF MediaComplete
<1>3. TargetsBooted' BY DEF TargetsBooted
<1>4. \A t \in Stops : proc'[t].pc = "stopped" => vm'[proc'[t].target] \notin NotDown
  BY DEF GuestsAccounted, StopsTold, TargetsBooted, Alive, Stopping, NotDown
<1>5. \A p \in Launchers : vm'[p] = "up" => vm[p] = "up" /\ proc'[p] = proc[p] OBVIOUS
<1>6. GuestsOwned' BY <1>5 DEF GuestsAccounted, GuestsOwned
<1>7. StopsTold' BY <1>4 DEF StopsTold, Alive, NotDown
<1>8. ASSUME NEW q \in Launchers, Alive(q)'
      PROVE  \/ record'[CellOf[q]] = q
             \/ \E t \in Stops : CellOf[t] = CellOf[q] /\ proc'[t].pc \in {"stopped", "killed"}
  <2>1. Alive(q) BY <1>8 DEF Alive, NotDown
  <2>2. \/ record[CellOf[q]] = q
        \/ \E t \in Stops : CellOf[t] = CellOf[q] /\ proc[t].pc \in {"stopped", "killed"}
    BY <2>1 DEF GuestsAccounted, GuestsFound
  <2>3. \A t \in Stops : proc[t].pc \in {"stopped", "killed"} => proc'[t] = proc[t] OBVIOUS
  <2>4. CASE record[CellOf[q]] = q /\ record' = record BY <2>4
  <2>5. CASE /\ record[CellOf[q]] = q
             /\ record' = [record EXCEPT ![CellOf[s]] = None] /\ proc'[s].pc \in {"stopped", "killed"}
    <3>1. record \in [Cells -> Launchers \cup {None}] /\ CellOf[q] \in Cells BY DEF WinkitTypes
    <3>2. CASE CellOf[s] = CellOf[q] BY <2>5, <3>2
    <3>3. CASE CellOf[s] # CellOf[q] BY <2>5, <3>1, <3>3
    <3>4. QED BY <3>2, <3>3
  <2>6. QED BY <2>2, <2>3, <2>4, <2>5
<1>9. GuestsFound' BY <1>8 DEF GuestsFound
<1>10. QED BY <1>1, <1>2, <1>3, <1>6, <1>7, <1>9 DEF GuestsAccounted

-----------------------------------------------------------------------------
\* What a step keeps; the types apart.
GuestsKept == NotYetBooted' /\ TargetsBooted' /\ GuestsAccounted' /\ MediaComplete'

\* Every step of a launcher keeps them, ...
LEMMA LaunchersKeep ==
  ASSUME WinkitInv, NEW p \in Launchers,
         \/ EnsureImage(p) \/ Install(p) \/ Share(p) \/ Look(p) \/ Boot(p) \/ Answers(p)
         \/ Silent(p) \/ AgentExits(p) \/ Leave(p) \/ Die(p) \/ Ends(p)
  PROVE  GuestsKept
<1> USE DEF WinkitInv, WinkitTypes, GuestsKept, Procs
<1>1. NotYetBooted /\ GuestsAccounted OBVIOUS
<1>2. CASE EnsureImage(p)
  <2>1. UNCHANGED <<vm, record>> BY <1>2 DEF EnsureImage
  <2>2. \A q \in Procs \ {p} : proc'[q] = proc[q] BY <1>2 DEF EnsureImage, MediaFound, Goto
  <2>3. vm[p] = "none" BY <1>2, <1>1 DEF EnsureImage, NotYetBooted, BeforeBoot
  <2>4. proc'[p].pc = "install" => proc'[p].iso \in {"mct", "full", "own"}
    BY <1>2, DownloadsAreComplete DEF EnsureImage, MediaFound, Goto
  <2>5. QED BY <2>1, <2>2, <2>3, <2>4, LauncherMoves
<1>3. CASE Install(p)
  <2>1. UNCHANGED <<vm, record>> BY <1>3 DEF Install
  <2>2. \A q \in Procs \ {p} : proc'[q] = proc[q] BY <1>3 DEF Install
  <2>3. vm[p] = "none" BY <1>3, <1>1 DEF Install, NotYetBooted, BeforeBoot
  <2>4. proc'[p].pc \in {"ended", "share", "look"} BY <1>3 DEF Install
  <2>5. QED BY <2>1, <2>2, <2>3, <2>4, LauncherMoves
<1>4. CASE Share(p)
  <2>1. UNCHANGED <<vm, record>> BY <1>4 DEF Share
  <2>2. \A q \in Procs \ {p} : proc'[q] = proc[q] BY <1>4 DEF Share, Goto
  <2>3. vm[p] = "none" BY <1>4, <1>1 DEF Share, NotYetBooted, BeforeBoot
  <2>4. proc'[p].pc \in {"look", "ended"} BY <1>4 DEF Share, Goto
  <2>5. QED BY <2>1, <2>2, <2>3, <2>4, LauncherMoves
<1>5. CASE Look(p)
  <2>1. UNCHANGED <<vm, record>> BY <1>5 DEF Look
  <2>2. \A q \in Procs \ {p} : proc'[q] = proc[q] BY <1>5 DEF Look, Goto
  <2>3. vm[p] = "none" BY <1>5, <1>1 DEF Look, NotYetBooted, BeforeBoot
  <2>4. proc'[p].pc \in {"boot", "ended"} BY <1>5 DEF Look, Goto
  <2>5. QED BY <2>1, <2>2, <2>3, <2>4, LauncherMoves
<1>6. CASE Boot(p)
  <2>1. \A q \in Procs \ {p} : proc'[q] = proc[q] BY <1>6 DEF Boot, Goto
  <2>2. \A q \in Launchers \ {p} : vm'[q] = vm[q] BY <1>6 DEF Boot
  <2>3. vm[p] = "none" BY <1>6, <1>1 DEF Boot, NotYetBooted, BeforeBoot
  <2>4. \/ /\ proc'[p].pc = "ssh"
           /\ ~Alive(record[CellOf[p]]) /\ record' = [record EXCEPT ![CellOf[p]] = p]
        \/ proc'[p].pc = "ended" /\ vm'[p] = "none" /\ record' = record
    BY <1>6, <2>3 DEF Boot, Goto
  <2>5. QED BY <2>1, <2>2, <2>3, <2>4, LauncherMoves DEF BeforeBoot, NotDown
<1>7. CASE Answers(p) \/ Silent(p) \/ AgentExits(p)
  <2>1. UNCHANGED <<vm, record>> BY <1>7 DEF Answers, Silent, AgentExits
  <2>2. \A q \in Procs \ {p} : proc'[q] = proc[q]
    BY <1>7 DEF Answers, Silent, AgentExits, Goto
  <2>3. proc'[p].pc \in {"agent", "detached", "leave"}
    BY <1>7 DEF Answers, Silent, AgentExits, Goto
  <2>4. QED BY <2>1, <2>2, <2>3, LauncherMoves DEF BeforeBoot
<1>8. CASE Leave(p)
  <2>1. \A q \in Procs \ {p} : proc'[q] = proc[q] BY <1>8 DEF Leave, Goto
  <2>2. \A q \in Launchers \ {p} : vm'[q] = vm[q] BY <1>8 DEF Leave
  <2>3. \/ vm'[p] = "down" /\ proc'[p].pc = "ended"
        \/ vm'[p] = vm[p] /\ proc'[p].pc = "left"
    <3>1. CASE vm' = [vm EXCEPT ![p] = "down"] /\ Goto(p, "ended") BY <3>1 DEF Goto
    <3>2. CASE UNCHANGED vm /\ Goto(p, "left") BY <3>2 DEF Goto
    <3>3. QED BY <1>8, <3>1, <3>2 DEF Leave
  <2>4. record' = record BY <1>8 DEF Leave
  <2>5. vm[p] # "none" \/ vm[p] = "none" OBVIOUS
  <2>6. QED BY <2>1, <2>2, <2>3, <2>4, <2>5, LauncherMoves DEF BeforeBoot, NotDown
<1>9. CASE Die(p)
  <2>1. UNCHANGED <<vm, record>> BY <1>9 DEF Die
  <2>2. \A q \in Procs \ {p} : proc'[q] = proc[q] BY <1>9 DEF Die
  <2>3. proc'[p].pc = "dead" BY <1>9 DEF Die
  <2>4. QED BY <2>1, <2>2, <2>3, LauncherMoves DEF BeforeBoot
<1>10. CASE Ends(p)
  <2>1. UNCHANGED <<proc, record>> BY <1>10 DEF Ends
  <2>2. \A q \in Launchers \ {p} : vm'[q] = vm[q] BY <1>10 DEF Ends
  <2>3. vm[p] = "ending" /\ vm'[p] = "down" BY <1>10 DEF Ends
  <2>4. proc[p].pc \notin BeforeBoot BY <1>1, <2>3 DEF NotYetBooted
  <2>5. proc[p].pc = "install" => proc[p].iso \in {"mct", "full", "own"} BY DEF MediaComplete
  <2>6. QED BY <2>1, <2>2, <2>3, <2>4, <2>5, LauncherMoves DEF NotDown
<1>11. QED BY <1>2, <1>3, <1>4, <1>5, <1>6, <1>7, <1>8, <1>9, <1>10

\* ... and every step of a `cell stop`.
LEMMA StopsKeep ==
  ASSUME WinkitInv, NEW s \in Stops,
         \/ StartStop(s) \/ Graceful(s) \/ Terminate(s) \/ Gone(s) \/ TimesOut(s) \/ Kill(s)
  PROVE  GuestsKept
<1> USE DEF WinkitInv, WinkitTypes, GuestsKept, Procs
<1>1. TargetsBooted OBVIOUS
<1>2. CASE StartStop(s)
  <2>1. UNCHANGED <<vm, record>> BY <1>2 DEF StartStop
  <2>2. \A q \in Procs \ {s} : proc'[q] = proc[q] BY <1>2 DEF StartStop, Goto
  <2>3. \/ proc'[s].pc = "ended"
        \/ proc'[s].pc = "graceful" /\ Alive(proc'[s].target)
    BY <1>2 DEF StartStop, Goto
  <2>4. Alive(proc'[s].target) => proc'[s].target \in Launchers /\ vm[proc'[s].target] # "none"
    BY DEF Alive
  <2>5. \A q \in Launchers : vm[q] \notin NotDown => vm'[q] \notin NotDown BY <2>1 DEF NotDown
  <2>6. proc[s].pc = "idle" BY <1>2 DEF StartStop
  <2>7. QED BY <2>1, <2>2, <2>3, <2>4, <2>5, <2>6, StopMoves DEF Stopping
<1>3. ASSUME Graceful(s) \/ Terminate(s) PROVE GuestsKept
  <2>1. proc[s].target \in Launchers /\ vm[proc[s].target] # "none"
    BY <1>3, <1>1 DEF Graceful, Terminate, TargetsBooted, Stopping
  <2>2. \A q \in Procs \ {s} : proc'[q] = proc[q] BY <1>3 DEF Graceful, Terminate, Goto
  <2>3. proc'[s].pc \in {"wait30", "term", "wait10"} /\ proc'[s].target = proc[s].target
    BY <1>3 DEF Graceful, Terminate, Goto
  <2>4. \A q \in Launchers : vm'[q] = vm[q] \/ (vm[q] = "up" /\ vm'[q] = "ending")
    BY <1>3, <2>1 DEF Graceful, Terminate, Tell
  <2>5. \A q \in Launchers : vm[q] \notin NotDown => vm'[q] \notin NotDown BY <2>4 DEF NotDown
  <2>6. vm'[proc[s].target] # "none" BY <2>1, <2>4
  <2>7. proc[s].pc \in {"graceful", "term"} /\ record' = record BY <1>3 DEF Graceful, Terminate
  <2>8. QED BY <2>1, <2>2, <2>3, <2>4, <2>5, <2>6, <2>7, StopMoves
<1>4. ASSUME Gone(s) PROVE GuestsKept
  <2>1. proc[s].target \in Launchers /\ vm[proc[s].target] # "none" /\ ~Alive(proc[s].target)
    BY <1>4, <1>1 DEF Gone, TargetsBooted, Stopping
  <2>2. UNCHANGED vm /\ record' = [record EXCEPT ![CellOf[s]] = None] BY <1>4 DEF Gone, Remove
  <2>3. \A q \in Procs \ {s} : proc'[q] = proc[q] BY <1>4 DEF Gone, Goto
  <2>4. proc'[s].pc = "stopped" /\ proc'[s].target = proc[s].target BY <1>4 DEF Gone, Goto
  <2>5. \A q \in Launchers : vm[q] \notin NotDown => vm'[q] \notin NotDown BY <2>2 DEF NotDown
  <2>6. vm'[proc[s].target] \notin NotDown BY <2>1, <2>2 DEF Alive, NotDown
  <2>7. proc[s].pc \in {"wait30", "wait10"} BY <1>4 DEF Gone
  <2>8. QED BY <2>1, <2>2, <2>3, <2>4, <2>5, <2>6, <2>7, StopMoves
<1>5. ASSUME TimesOut(s) PROVE GuestsKept
  <2>1. proc[s].target \in Launchers /\ vm[proc[s].target] # "none"
    BY <1>5, <1>1 DEF TimesOut, TargetsBooted, Stopping
  <2>2. UNCHANGED <<vm, record>> BY <1>5 DEF TimesOut
  <2>3. \A q \in Procs \ {s} : proc'[q] = proc[q] BY <1>5 DEF TimesOut, Goto
  <2>4. proc'[s].pc = "term" /\ proc'[s].target = proc[s].target BY <1>5 DEF TimesOut, Goto
  <2>5. \A q \in Launchers : vm[q] \notin NotDown => vm'[q] \notin NotDown BY <2>2 DEF NotDown
  <2>6. proc[s].pc = "wait30" BY <1>5 DEF TimesOut
  <2>7. QED BY <2>1, <2>2, <2>3, <2>4, <2>5, <2>6, StopMoves
<1>6. ASSUME Kill(s) PROVE GuestsKept
  <2>1. proc[s].target \in Launchers /\ vm[proc[s].target] # "none"
    BY <1>6, <1>1 DEF Kill, TargetsBooted, Stopping
  <2>2. vm' = vm \/ vm' = [vm EXCEPT ![proc[s].target] = "down"] BY <1>6 DEF Kill
  <2>3. \A q \in Procs \ {s} : proc'[q] = proc[q] BY <1>6 DEF Kill, Goto
  <2>4. /\ proc[s].pc = "wait10" /\ proc'[s].pc = "killed"
        /\ record' = [record EXCEPT ![CellOf[s]] = None]
    BY <1>6 DEF Kill, Goto, Remove
  <2>5. \A q \in Launchers : vm'[q] = vm[q] \/ (vm[q] # "none" /\ vm'[q] = "down")
    BY <2>1, <2>2
  <2>6. \A q \in Launchers : vm[q] \notin NotDown => vm'[q] \notin NotDown BY <2>5 DEF NotDown
  <2>7. "killed" \notin Stopping BY DEF Stopping
  <2>8. QED BY <2>3, <2>4, <2>5, <2>6, <2>7, StopMoves
<1>7. QED BY <1>2, <1>3, <1>4, <1>5, <1>6

-----------------------------------------------------------------------------
\* Every step keeps the inductive invariant.
LEMMA WinkitInvKept == ASSUME WinkitInv, [WinkitNext]_winkitVars PROVE WinkitInv'
<1>1. WinkitTypes' BY WinkitTypesKept DEF WinkitInv
<1>2. GuestsKept
  <2>1. CASE UNCHANGED winkitVars
    BY <2>1 DEF winkitVars, GuestsKept, WinkitInv, NotYetBooted, TargetsBooted, GuestsAccounted,
                  GuestsOwned, GuestsFound, StopsTold, MediaComplete, Alive
  <2>2. QED BY <2>1, LaunchersKeep, StopsKeep DEF WinkitNext
<1>3. QED BY <1>1, <1>2 DEF WinkitInv, GuestsKept

\* The types of the commands, the machines and the shared files.
THEOREM WinkitTypesHold == WinkitSpec => []WinkitTypes
<1>1. WinkitInv => WinkitTypes BY DEF WinkitInv
<1>2. QED BY WinkitStarts, WinkitInvKept, <1>1, PTL DEF WinkitSpec

\* A Windows VM that runs is one that somebody will stop, was started to stay or
\* was left by a command that was killed or whose stop failed; it can be found by
\* its cell's record as long as no `cell stop` removed that; and `cell stop` says
\* "VM stopped" only when it is: for any number of runs, starts and stops of any cells.
THEOREM NoGuestForgotten == WinkitSpec => []GuestsAccounted
<1>1. WinkitInv => GuestsAccounted BY DEF WinkitInv
<1>2. QED BY WinkitStarts, WinkitInvKept, <1>1, PTL DEF WinkitSpec

\* No Windows image is installed from boot-only media that devcell fetched or
\* cached, whatever the cache held and whichever download failed; an ISO the user
\* names is used unseen.
THEOREM InstalledFromCompleteMedia == WinkitSpec => []MediaComplete
<1>1. WinkitInv => MediaComplete BY DEF WinkitInv
<1>2. QED BY WinkitStarts, WinkitInvKept, <1>1, PTL DEF WinkitSpec

-----------------------------------------------------------------------------
(* TartVM *)

\* Only sessions get past the build, and a session stops what it booted.
Placed == \A p \in TartCommands :
    /\ tart[p].pc \in InSession => p \in Sessions
    /\ tart[p].managed = "yes" =>
          p \in Sessions /\ tart[p].pc \in {"verify", "prepare", "agent", "leave", "dead"}

SessionInv == TartTypes /\ Placed /\ InstancesOwned

\* A template of any stage has nix and the marker, one of a stack its stack,
\* when one build alone has worked in it.
Complete == \A s \in Stacks \cup {"base"} : Exists(Template(s)) /\ vms[Template(s)].by # Nil =>
    /\ vms[Template(s)].nix = "yes" /\ vms[Template(s)].marker = "yes"
    /\ s # "base" => vms[Template(s)].stack = s

\* Before a command has cloned the build VM, ...
Early == {"idle", "find", "clear", "clone"}
\* ... while it works in it, and when it has provisioned it.
InVM == {"resources", "boot", "agentWait", "provision", "stamp", "check", "shutdown", "save"}
Provisioned == {"stamp", "check", "shutdown", "save"}

\* The build VM that exists is the one p cloned, and no other build touched it.
Own(p) == Exists(BuildVM) /\ vms[BuildVM].by = p

\* What p's own build VM has when p has come this far.
Made(p) ==
    /\ tart[p].stage = "base" => tart[p].fromBase = "no"
    /\ tart[p].pc \in {"clear", "clone", "resources", "boot", "agentWait"} => tart[p].step = 1
    /\ tart[p].pc = "provision" => tart[p].step \in 1 .. Len(Steps(p))
    /\ tart[p].pc \in InVM /\ Own(p) =>
          /\ \/ tart[p].fromBase = "yes" \/ tart[p].pc \in Provisioned
             \/ tart[p].pc = "provision" /\ tart[p].step > 3
             => vms[BuildVM].nix = "yes"
          /\ tart[p].pc \in Provisioned /\ tart[p].stage = "full" => vms[BuildVM].stack = Stack(p)
          /\ tart[p].pc \in {"shutdown", "save"} => vms[BuildVM].marker = "yes"
Progress == \A p \in TartCommands :
    /\ tart[p].pc \in Building => Made(p)
    /\ tart[p].pc \in Early => ~Own(p)

\* What holds of builds, however they overlap.
BuildInv == TartTypes /\ Complete /\ Progress

-----------------------------------------------------------------------------
\* The types.
VMs == [Names -> VM \cup {Nil}]
MacPoints == {"idle", "ended", "dead"} \cup Building \cup InSession
TartStates == [pc : MacPoints, stage : {"base", "full"}, force : {"yes", "no"},
               fromBase : {"yes", "no"}, step : Nat, seen : {"yes", "no"}, managed : {"yes", "no"}]

\* TartTypes, in these terms.
LEMMA TypesAre ==
  TartTypes <=> /\ vms \in VMs /\ tart \in [TartCommands -> TartStates]
                /\ nixDisk \in [store : {"yes", "no"}, profile : Stacks \cup {Nil}]
  BY DEF TartTypes, VMs, TartStates, MacPoints

\* The names, which are distinct: one build VM, templates, instances.
LEMMA NamesAre ==
  /\ BuildVM \in Names /\ BaseTemplate \in Names /\ BaseTemplate = Template("base")
  /\ \A s \in Stacks : Template(s) \in Names
  /\ \A c \in MacCells : Instance(c) \in Names
  /\ \A c : Instance(c) # BuildVM /\ \A s : Template(s) # BuildVM /\ Template(s) # Instance(c)
  /\ \A s, t : Template(s) = Template(t) => s = t
  /\ \A c, d : Instance(c) = Instance(d) => c = d
  /\ \A p \in TartCommands :
        /\ Stack(p) \in Stacks /\ MacOf[p] \in MacCells /\ Mine(p) \in Names
        /\ TemplateName(p) \in Names
        /\ TemplateName(p) = Template(IF tart[p].stage = "base" THEN "base" ELSE Stack(p))
<1>1. /\ BuildVM \in Names /\ BaseTemplate \in Names /\ BaseTemplate = Template("base")
      /\ \A s \in Stacks : Template(s) \in Names
      /\ \A c \in MacCells : Instance(c) \in Names
  BY DEF Names, BaseTemplate, Template
<1>2. \A c : Instance(c) # BuildVM /\ \A s : Template(s) # BuildVM /\ Template(s) # Instance(c)
  BY DEF BuildVM, Template, Instance
<1>3. /\ \A s, t : Template(s) = Template(t) => s = t
      /\ \A c, d : Instance(c) = Instance(d) => c = d
  BY DEF Template, Instance
<1>4. \A p \in TartCommands : Stack(p) \in Stacks /\ MacOf[p] \in MacCells
  BY MacAssumption DEF Stack, TartCommands
<1>5. \A p \in TartCommands :
        /\ Mine(p) \in Names /\ TemplateName(p) \in Names
        /\ TemplateName(p) = Template(IF tart[p].stage = "base" THEN "base" ELSE Stack(p))
  BY <1>1, <1>4 DEF Mine, TemplateName
<1>6. QED BY <1>1, <1>2, <1>3, <1>4, <1>5

\* What the tart commands do to the VMs.
LEMMA Operations ==
  ASSUME vms \in VMs, NEW n \in Names, NEW m \in Names, NEW p \in TartCommands,
         nixDisk \in [store : {"yes", "no"}, profile : Stacks \cup {Nil}]
  PROVE  /\ vms[n] = Nil \/ vms[n] \in VM
         /\ TartClone(m, n) /\ Exists(m) => vms' \in VMs
         /\ \A N : TartDelete(N) => vms' \in VMs
         /\ TartStop(n) => vms' \in VMs
         /\ TartRun(p, n) => vms' \in VMs
<1> USE DEF VMs
<1>1. vms[n] = Nil \/ vms[n] \in VM OBVIOUS
<1>2. TartClone(m, n) /\ Exists(m) => vms' \in VMs BY DEF TartClone, Exists, Off, VM
<1>3. \A N : TartDelete(N) => vms' \in VMs BY DEF TartDelete
<1>4. TartStop(n) => vms' \in VMs BY DEF TartStop, Exists, VM
<1>5. TartRun(p, n) => vms' \in VMs
  <2>1. Exists(n) => Touched(p, Booted(vms[n])) \in VM
    <3>1. Exists(n) => Booted(vms[n]) \in VM BY DEF Exists, Booted, VM
    <3>2. QED BY <3>1 DEF Touched, VM
  <2>2. QED BY <2>1 DEF TartRun
<1>6. QED BY <1>1, <1>2, <1>3, <1>4, <1>5

\* A command that goes on keeps what it knows; one that ended forgets it.
LEMMA GoesOn ==
  ASSUME tart \in [TartCommands -> TartStates], NEW p \in TartCommands, NEW pc \in MacPoints,
         GoOn(p, pc)
  PROVE  /\ tart' \in [TartCommands -> TartStates] /\ tart'[p].pc = pc
         /\ \A q \in TartCommands \ {p} : tart'[q] = tart[q]
         /\ pc \notin {"ended", "dead"} =>
               /\ tart'[p].stage = tart[p].stage /\ tart'[p].fromBase = tart[p].fromBase
               /\ tart'[p].step = tart[p].step /\ tart'[p].managed = tart[p].managed
               /\ tart'[p].seen = tart[p].seen
         /\ pc = "ended" => tart'[p].managed = "no"
         /\ pc = "dead" => tart'[p].managed = tart[p].managed
<1>1. CASE pc = "ended"
  <2>1. tart' = [tart EXCEPT ![p] = Fresh(pc)] BY <1>1 DEF GoOn
  <2>2. Fresh(pc) \in TartStates /\ Fresh(pc).pc = pc /\ Fresh(pc).managed = "no"
    BY DEF Fresh, TartStates
  <2>3. QED BY <2>1, <2>2, <1>1
<1>2. CASE pc = "dead"
  <2> DEFINE d == [Fresh(pc) EXCEPT !.managed = tart[p].managed]
  <2>1. tart' = [tart EXCEPT ![p] = d] BY <1>2 DEF GoOn
  <2>2. d \in TartStates /\ d.pc = pc /\ d.managed = tart[p].managed
    BY DEF Fresh, TartStates
  <2> HIDE DEF d
  <2>3. QED BY <2>1, <2>2, <1>2
<1>3. CASE pc \notin {"ended", "dead"}
  <2>1. tart' = [tart EXCEPT ![p] = [@ EXCEPT !.pc = pc]] BY <1>3 DEF GoOn
  <2>2. QED BY <2>1, <1>3 DEF TartStates
<1>4. QED BY <1>1, <1>2, <1>3

\* So does one that begins a build.
LEMMA Begins ==
  ASSUME tart \in [TartCommands -> TartStates], NEW p \in TartCommands,
         NEW stage \in {"base", "full"}, NEW force \in {"yes", "no"}, BeginBuild(p, stage, force)
  PROVE  /\ tart' \in [TartCommands -> TartStates] /\ tart'[p].pc = "clear"
         /\ \A q \in TartCommands \ {p} : tart'[q] = tart[q]
         /\ tart'[p].step = 1 /\ tart'[p].managed = tart[p].managed
         /\ tart'[p].stage = "base" => tart'[p].fromBase = "no"
<1> DEFINE from == IF stage = "full" /\ Exists(BaseTemplate) THEN "yes" ELSE "no"
           d == [tart[p] EXCEPT !.pc = "clear", !.stage = stage, !.force = force, !.step = 1,
                                !.fromBase = from]
<1>1. "clear" \in MacPoints BY DEF MacPoints, Building
<1>2. from \in {"yes", "no"} /\ (stage = "base" => from = "no") OBVIOUS
<1>3. tart' = [tart EXCEPT ![p] = d] BY DEF BeginBuild
<1> HIDE DEF from
<1>4. /\ d \in TartStates /\ d.pc = "clear" /\ d.step = 1 /\ d.managed = tart[p].managed
      /\ d.stage = stage /\ d.fromBase = from
  BY <1>1, <1>2 DEF TartStates
<1> HIDE DEF d
<1>5. QED BY <1>2, <1>3, <1>4

\* And one that has done a step.
LEMMA StepsOn ==
  ASSUME tart \in [TartCommands -> TartStates], NEW p \in TartCommands, NEW pc \in MacPoints,
         tart' = [tart EXCEPT ![p].step = @ + 1, ![p].pc = pc]
  PROVE  /\ tart' \in [TartCommands -> TartStates] /\ tart'[p].pc = pc
         /\ \A q \in TartCommands \ {p} : tart'[q] = tart[q]
         /\ tart'[p].stage = tart[p].stage /\ tart'[p].fromBase = tart[p].fromBase
         /\ tart'[p].step = tart[p].step + 1 /\ tart'[p].managed = tart[p].managed
<1> DEFINE n == tart[p].step + 1
           d == [tart[p] EXCEPT !.step = n, !.pc = pc]
<1>1. tart' = [tart EXCEPT ![p] = d] OBVIOUS
<1>2. tart[p] \in TartStates /\ n \in Nat BY DEF TartStates
<1> HIDE DEF n
<1>3. /\ d \in TartStates /\ d.pc = pc /\ d.step = n
      /\ d.managed = tart[p].managed /\ d.stage = tart[p].stage /\ d.fromBase = tart[p].fromBase
  BY <1>2 DEF TartStates
<1> HIDE DEF d
<1>4. QED BY <1>1, <1>3 DEF n

\* No VM, and nobody at work.
LEMMA StartsEmpty == TartInit => TartTypes
<1>1. TartInit => tart \in [TartCommands -> TartStates]
  BY DEF TartInit, Fresh, TartStates, MacPoints
<1>2. QED BY <1>1, TypesAre DEF TartInit, VMs

\* A session that found or booted its instance notes it.
LEMMA Notes ==
  ASSUME tart \in [TartCommands -> TartStates], NEW p \in TartCommands,
         NEW pc \in MacPoints, NEW seen \in {"yes", "no"}, NEW managed \in {"yes", "no"},
         tart' = [tart EXCEPT ![p] = [tart[p] EXCEPT !.pc = pc, !.seen = seen, !.managed = managed]]
  PROVE  /\ tart' \in [TartCommands -> TartStates] /\ tart'[p].pc = pc
         /\ tart'[p].managed = managed
         /\ \A q \in TartCommands \ {p} : tart'[q] = tart[q]
<1> DEFINE d == [tart[p] EXCEPT !.pc = pc, !.seen = seen, !.managed = managed]
<1>1. d \in TartStates /\ d.pc = pc /\ d.managed = managed BY DEF TartStates
<1>2. tart' = [tart EXCEPT ![p] = d] OBVIOUS
<1> HIDE DEF d
<1>3. QED BY <1>1, <1>2

\* The steps that look, or stop or delete the build VM.
LEMMA BuildTypes ==
  ASSUME TartTypes, NEW p \in TartCommands, StartBuild(p) \/ BuildStep(p)
  PROVE  TartTypes'
<1>1. /\ vms \in VMs /\ tart \in [TartCommands -> TartStates]
      /\ nixDisk \in [store : {"yes", "no"}, profile : Stacks \cup {Nil}]
  BY TypesAre
<1> SUFFICES /\ vms' \in VMs /\ tart' \in [TartCommands -> TartStates]
             /\ nixDisk' \in [store : {"yes", "no"}, profile : Stacks \cup {Nil}]
  BY DEF TartTypes, VMs, TartStates, MacPoints
<1>2. \A pc \in MacPoints : GoOn(p, pc) => tart' \in [TartCommands -> TartStates]
  BY <1>1, GoesOn
<1>3. BuildVM \in Names /\ BaseTemplate \in Names /\ TemplateName(p) \in Names /\ Stack(p) \in Stacks
  BY NamesAre
<1> USE DEF MacPoints, Building, InSession
<1>4. CASE StartBuild(p)
  BY <1>1, <1>4, Begins DEF StartBuild
<1>5. CASE Clear(p)
  BY <1>1, <1>2, <1>3, <1>5, Operations DEF Clear
<1>6. CASE Clone(p)
  <2>1. tart' \in [TartCommands -> TartStates] /\ nixDisk' = nixDisk BY <1>2, <1>6 DEF Clone
  <2>2. vms' = vms \/ /\ tart[p].fromBase = "no" \/ Exists(BaseTemplate)
                      /\ vms' = [vms EXCEPT ![BuildVM] =
                            IF tart[p].fromBase = "yes" THEN BaseClone(p) ELSE Image(p)]
    BY <1>6 DEF Clone
  <2>3. Image(p) \in VM BY DEF Image, VM
  <2>4. Exists(BaseTemplate) => BaseClone(p) \in VM
    <3>1. Exists(BaseTemplate) => Off(vms[BaseTemplate]) \in VM
      BY <1>1, <1>3 DEF VMs, Exists, Off, VM
    <3>2. QED BY <3>1 DEF BaseClone, VM
  <2>5. vms' \in VMs BY <1>1, <1>3, <2>2, <2>3, <2>4 DEF VMs
  <2>6. QED BY <1>1, <2>1, <2>5
<1>7. CASE Resources(p)
  BY <1>1, <1>2, <1>3, <1>7, Operations DEF Resources
<1>8. CASE BootBuild(p)
  BY <1>1, <1>2, <1>3, <1>8, Operations DEF BootBuild
<1>9. CASE AgentWait(p) \/ StepFails(p) \/ Check(p)
  BY <1>1, <1>2, <1>9 DEF AgentWait, StepFails, Check
<1>10. CASE GiveUp(p) \/ StopBuild(p)
  BY <1>1, <1>2, <1>3, <1>10, Operations DEF GiveUp, StopBuild
<1>11. CASE Provision(p)
  <2>1. tart' \in [TartCommands -> TartStates]
    <3>1. PICK pc \in {"stamp", "provision"} : tart' = [tart EXCEPT ![p].step = @ + 1, ![p].pc = pc]
      BY <1>11 DEF Provision
    <3>2. pc \in MacPoints OBVIOUS
    <3>3. QED BY <1>1, <3>1, <3>2, StepsOn
  <2>2. vms[BuildVM] \in VM BY <1>1, <1>3, <1>11, Operations DEF Provision, Running
  <2>3. \/ UNCHANGED <<vms, nixDisk>> \/ PrepareDisk \/ InstallNix(p) \/ SwapStore \/ Activate(p)
    BY <1>11 DEF Provision
  <2>4. vms' \in VMs
    <3>1. ASSUME NEW d \in VM PROVE Touched(p, d) \in VM BY DEF Touched, VM
    <3>2. /\ [vms[BuildVM] EXCEPT !.nix = "yes"] \in VM
          /\ [vms[BuildVM] EXCEPT !.stack = Stack(p)] \in VM
      BY <1>3, <2>2 DEF VM
    <3>3. CASE InstallNix(p)
      BY <1>1, <3>1, <3>2, <3>3 DEF InstallNix, VMs
    <3>4. CASE Activate(p)
      BY <1>1, <3>1, <3>2, <3>4 DEF Activate, VMs
    <3>5. QED BY <1>1, <2>3, <3>3, <3>4 DEF PrepareDisk, SwapStore
  <2>5. nixDisk' \in [store : {"yes", "no"}, profile : Stacks \cup {Nil}]
    BY <1>1, <1>3, <2>3 DEF PrepareDisk, InstallNix, SwapStore, Activate
  <2>6. QED BY <2>1, <2>4, <2>5
<1>12. CASE Stamp(p)
  <2>1. vms[BuildVM] \in VM BY <1>1, <1>3, <1>12, Operations DEF Stamp, Running
  <2>2. vms' \in VMs BY <1>1, <1>3, <1>12, <2>1 DEF Stamp, Touched, VMs, VM
  <2>3. QED BY <1>1, <1>2, <1>12, <2>2 DEF Stamp
<1>13. CASE Save(p)
  <2>1. tart' \in [TartCommands -> TartStates] /\ nixDisk' = nixDisk
    BY <1>2, <1>13 DEF Save, Built
  <2>2. vms' = vms \/ /\ Exists(BuildVM)
                      /\ vms' = [vms EXCEPT ![TemplateName(p)] = Touched(p, Off(vms[BuildVM])),
                                          ![BuildVM] = Nil]
    BY <1>13 DEF Save
  <2>3. Exists(BuildVM) => Touched(p, Off(vms[BuildVM])) \in VM
    BY <1>1, <1>3 DEF VMs, Exists, Off, Touched, VM
  <2>4. vms' \in VMs BY <1>1, <1>3, <2>2, <2>3 DEF VMs
  <2>5. QED BY <1>1, <2>1, <2>4
<1>14. QED
  BY <1>4, <1>5, <1>6, <1>7, <1>8, <1>9, <1>10, <1>11, <1>12, <1>13 DEF BuildStep

\* The steps of a session, and a kill at any of them.
LEMMA SessionTypes ==
  ASSUME TartTypes, NEW p \in TartCommands, SessionStep(p) \/ Killed(p)
  PROVE  TartTypes'
<1>1. /\ vms \in VMs /\ tart \in [TartCommands -> TartStates]
      /\ nixDisk \in [store : {"yes", "no"}, profile : Stacks \cup {Nil}]
  BY TypesAre
<1> SUFFICES /\ vms' \in VMs /\ tart' \in [TartCommands -> TartStates]
             /\ nixDisk' \in [store : {"yes", "no"}, profile : Stacks \cup {Nil}]
  BY DEF TartTypes, VMs, TartStates, MacPoints
<1>2. \A pc \in MacPoints : GoOn(p, pc) => tart' \in [TartCommands -> TartStates]
  BY <1>1, GoesOn
<1>3. /\ BuildVM \in Names /\ Mine(p) \in Names /\ Stack(p) \in Stacks
      /\ Template(Stack(p)) \in Names
  BY NamesAre
<1> USE DEF MacPoints, Building, InSession
<1>4. tart[p].seen \in {"yes", "no"} /\ tart[p].managed \in {"yes", "no"}
  BY <1>1 DEF TartStates
<1>5. CASE StartSession(p)
  BY <1>1, <1>2, <1>3, <1>5, Operations DEF StartSession
<1>6. CASE FindInstance(p)
  <2>1. CASE Exists(Mine(p)) /\ tart' = [tart EXCEPT ![p].pc = "acquire", ![p].seen = vms[Mine(p)].running]
    <3>1. vms[Mine(p)].running \in {"yes", "no"}
      BY <1>1, <1>3, <2>1, Operations DEF Exists, VM
    <3>2. tart' = [tart EXCEPT ![p] = [tart[p] EXCEPT !.pc = "acquire", !.seen = vms[Mine(p)].running,
                                                      !.managed = tart[p].managed]]
      BY <1>1, <2>1 DEF TartStates
    <3>3. tart' \in [TartCommands -> TartStates] BY <1>1, <1>4, <3>1, <3>2, Notes
    <3>4. QED BY <1>1, <1>6, <3>3 DEF FindInstance
  <2>2. QED BY <1>1, <1>2, <1>6, <2>1, Begins DEF FindInstance
<1>7. CASE CloneInstance(p)
  <2>1. CASE TartClone(Template(Stack(p)), Mine(p)) /\ Exists(Template(Stack(p)))
             /\ tart' = [tart EXCEPT ![p].pc = "acquire", ![p].seen = "no"]
    <3>1. tart' = [tart EXCEPT ![p] = [tart[p] EXCEPT !.pc = "acquire", !.seen = "no",
                                                      !.managed = tart[p].managed]]
      BY <1>1, <2>1 DEF TartStates
    <3>2. tart' \in [TartCommands -> TartStates] BY <1>1, <1>4, <3>1, Notes
    <3>3. vms' \in VMs BY <1>1, <1>3, <2>1, Operations
    <3>4. QED BY <1>1, <1>7, <3>2, <3>3 DEF CloneInstance
  <2>2. QED BY <1>1, <1>2, <1>7, <2>1 DEF CloneInstance
<1>8. CASE Acquire(p)
  <2>1. CASE TartRun(p, Mine(p)) /\ tart' = [tart EXCEPT ![p].pc = "verify", ![p].managed = "yes"]
    <3>1. tart' = [tart EXCEPT ![p] = [tart[p] EXCEPT !.pc = "verify", !.seen = tart[p].seen,
                                                      !.managed = "yes"]]
      BY <1>1, <2>1 DEF TartStates
    <3>2. tart' \in [TartCommands -> TartStates] BY <1>1, <1>4, <3>1, Notes
    <3>3. vms' \in VMs BY <1>1, <1>3, <2>1, Operations
    <3>4. QED BY <1>1, <1>8, <3>2, <3>3 DEF Acquire
  <2>2. QED BY <1>1, <1>2, <1>8, <2>1 DEF Acquire
<1>9. CASE Verify(p) \/ Prepare(p) \/ MacAgentExits(p)
  <2>1. Reactivate(p) => vms' \in VMs
    BY <1>1, <1>3 DEF Reactivate, Running, VMs, VM
  <2>2. QED BY <1>1, <1>2, <1>9, <2>1 DEF Verify, Prepare, MacAgentExits
<1>10. CASE LeaveVM(p) \/ Killed(p)
  BY <1>1, <1>2, <1>3, <1>10, Operations DEF LeaveVM, Killed
<1>11. QED BY <1>5, <1>6, <1>7, <1>8, <1>9, <1>10 DEF SessionStep

\* Every step keeps the types.
LEMMA TartTypesKept == ASSUME TartTypes, [TartNext]_tartVars PROVE TartTypes'
<1>1. CASE UNCHANGED tartVars BY <1>1 DEF TartTypes, tartVars
<1>2. QED BY <1>1, BuildTypes, SessionTypes DEF TartNext

-----------------------------------------------------------------------------
\* A build works in the build VM and on templates: instances are not touched.
LEMMA BuildsApart ==
  ASSUME TartTypes, NEW p \in TartCommands, StartBuild(p) \/ BuildStep(p)
  PROVE  \A c \in MacCells : vms'[Instance(c)] = vms[Instance(c)]
<1>1. vms \in VMs BY TypesAre
<1>2. TAKE c \in MacCells
<1> DEFINE i == Instance(c)
<1>3. /\ i \in Names /\ BuildVM \in Names /\ TemplateName(p) \in Names
      /\ i # BuildVM /\ i # TemplateName(p)
  BY NamesAre
<1> HIDE DEF i
<1> SUFFICES vms'[i] = vms[i] BY DEF i
<1> USE DEF VMs
<1>4. CASE StartBuild(p) \/ AgentWait(p) \/ StepFails(p) \/ Check(p)
  BY <1>4 DEF StartBuild, AgentWait, StepFails, Check
<1>5. CASE Clear(p)
  BY <1>1, <1>3, <1>5 DEF Clear, TartDelete
<1>6. CASE Clone(p)
  BY <1>1, <1>3, <1>6 DEF Clone
<1>7. CASE Resources(p)
  BY <1>1, <1>3, <1>7 DEF Resources, TartDelete
<1>8. CASE BootBuild(p)
  BY <1>1, <1>3, <1>8 DEF BootBuild, TartDelete, TartRun
<1>9. CASE GiveUp(p) \/ StopBuild(p)
  BY <1>1, <1>3, <1>9 DEF GiveUp, StopBuild, TartStop
<1>10. CASE Provision(p)
  BY <1>1, <1>3, <1>10 DEF Provision, PrepareDisk, InstallNix, SwapStore, Activate
<1>11. CASE Stamp(p)
  BY <1>1, <1>3, <1>11 DEF Stamp
<1>12. CASE Save(p)
  BY <1>1, <1>3, <1>12 DEF Save
<1>13. QED
  BY <1>4, <1>5, <1>6, <1>7, <1>8, <1>9, <1>10, <1>11, <1>12 DEF BuildStep

\* What a step of p must show: an instance comes up only by its hand, and
\* when it stops owing a stop, its instance is down.
LEMMA Owned ==
  ASSUME InstancesOwned, NEW p \in TartCommands,
         \A q \in TartCommands \ {p} : tart'[q] = tart[q],
         \A c \in MacCells : Running(Instance(c))' =>
            \/ Running(Instance(c))
            \/ /\ p \in Sessions /\ MacOf[p] = c
               /\ tart'[p].managed = "yes" /\ tart'[p].pc # "ended",
         tart[p].managed = "yes" =>
            (tart'[p].managed = "yes" /\ tart'[p].pc # "ended") \/ ~Running(Mine(p))'
  PROVE  InstancesOwned'
<1>1. SUFFICES ASSUME NEW c \in MacCells, Running(Instance(c))'
               PROVE  \E q \in Sessions :
                         MacOf[q] = c /\ tart'[q].managed = "yes" /\ tart'[q].pc # "ended"
  BY DEF InstancesOwned
<1>2. CASE Running(Instance(c))
  <2>1. PICK q \in Sessions : MacOf[q] = c /\ tart[q].managed = "yes" /\ tart[q].pc # "ended"
    BY <1>2 DEF InstancesOwned
  <2>2. CASE q = p
    <3>1. Mine(p) = Instance(c) BY <2>1, <2>2 DEF Mine
    <3>2. Running(Mine(p))' BY <1>1, <3>1 DEF Running, Mine
    <3>3. QED BY <2>1, <2>2, <3>2
  <2>3. CASE q # p
    BY <2>1, <2>3 DEF TartCommands
  <2>4. QED BY <2>2, <2>3
<1>3. QED BY <1>1, <1>2

\* Where a step of p leads it.
LEMMA PlacedThen ==
  ASSUME Placed, NEW p \in TartCommands,
         \A q \in TartCommands \ {p} : tart'[q] = tart[q],
         tart'[p].pc \in InSession => p \in Sessions,
         tart'[p].managed = "yes" =>
            p \in Sessions /\ tart'[p].pc \in {"verify", "prepare", "agent", "leave", "dead"}
  PROVE  Placed'
  BY DEF Placed

\* A build leaves the instances to their sessions, ...
LEMMA BuildsKeepOwners ==
  ASSUME SessionInv, NEW p \in TartCommands, StartBuild(p) \/ BuildStep(p)
  PROVE  Placed' /\ InstancesOwned'
<1>1. tart \in [TartCommands -> TartStates] BY TypesAre DEF SessionInv
<1>2. tart[p].pc \in Building \cup {"idle"}
  BY DEF StartBuild, BuildStep, Clear, Clone, Resources, BootBuild, AgentWait, GiveUp, StepFails,
         Provision, Stamp, Check, StopBuild, Save, Building
<1>3. tart[p].managed = "no"
  <2>1. tart[p].managed # "yes" BY <1>2 DEF SessionInv, Placed, Building
  <2>2. QED BY <2>1, <1>1 DEF TartStates
<1>4. /\ \A q \in TartCommands \ {p} : tart'[q] = tart[q]
      /\ tart'[p].managed = "no"
      /\ tart'[p].pc \in InSession => p \in Sessions
  <2> USE DEF MacPoints, Building, InSession
  <2>1. CASE StartBuild(p)
    BY <1>1, <1>3, <2>1, Begins DEF StartBuild
  <2>2. CASE Provision(p)
    <3>1. PICK pc \in {"stamp", "provision"} : tart' = [tart EXCEPT ![p].step = @ + 1, ![p].pc = pc]
      BY <2>2 DEF Provision
    <3>2. pc \in MacPoints OBVIOUS
    <3>3. QED BY <1>1, <1>3, <3>1, <3>2, StepsOn
  <2>3. CASE Save(p)
    <3>1. GoOn(p, "ended") \/ (p \in Sessions /\ GoOn(p, "cloneInstance"))
      <4>1. p \in Builds \/ p \in Sessions BY DEF TartCommands
      <4>2. GoOn(p, Built(p)) \/ GoOn(p, "ended") BY <2>3 DEF Save
      <4>3. QED BY <4>1, <4>2 DEF Built
    <3>2. QED BY <1>1, <1>3, <3>1, GoesOn
  <2>4. CASE \/ Clear(p) \/ Clone(p) \/ Resources(p) \/ BootBuild(p) \/ AgentWait(p) \/ GiveUp(p)
             \/ StepFails(p) \/ Stamp(p) \/ Check(p) \/ StopBuild(p)
    <3>1. PICK pc \in Building \cup {"ended"} : GoOn(p, pc)
      BY <2>4 DEF Clear, Clone, Resources, BootBuild, AgentWait, GiveUp, StepFails, Stamp, Check,
                  StopBuild
    <3>2. pc \in MacPoints /\ pc \notin InSession OBVIOUS
    <3>3. QED BY <1>1, <1>3, <3>1, <3>2, GoesOn
  <2>5. QED BY <2>1, <2>2, <2>3, <2>4 DEF BuildStep
<1>5. \A c \in MacCells : Running(Instance(c))' <=> Running(Instance(c))
  BY BuildsApart DEF SessionInv, Running, Instance
<1>6. QED BY <1>3, <1>4, <1>5, Owned, PlacedThen DEF SessionInv

\* ... and a session boots its own, and stops it.
LEMMA SessionsOwn ==
  ASSUME SessionInv, NEW p \in TartCommands, SessionStep(p) \/ Killed(p)
  PROVE  Placed' /\ InstancesOwned'
<1>1. /\ vms \in VMs /\ tart \in [TartCommands -> TartStates] /\ TartTypes /\ Placed
      /\ InstancesOwned
  BY TypesAre DEF SessionInv
<1>2. \A c \in MacCells : /\ Instance(c) \in Names /\ Instance(c) # BuildVM
                          /\ Instance(c) = Mine(p) <=> c = MacOf[p]
                          /\ \A s : Instance(c) # Template(s)
  BY NamesAre DEF Mine
<1>3. BuildVM \in Names /\ Mine(p) \in Names /\ MacOf[p] \in MacCells BY NamesAre
<1> DEFINE Up(c) == Running(Instance(c))
<1> USE DEF MacPoints, Building, InSession
<1>4. ASSUME NEW pc \in MacPoints, GoOn(p, pc), pc \in InSession => p \in Sessions,
             tart[p].managed = "yes" => pc \in {"verify", "prepare", "agent", "leave", "dead"},
             \A c \in MacCells : Up(c)' => Up(c)
      PROVE  Placed' /\ InstancesOwned'
  <2>1. /\ tart'[p].pc = pc /\ \A q \in TartCommands \ {p} : tart'[q] = tart[q]
        /\ pc # "ended" => tart'[p].managed = tart[p].managed
        /\ pc = "ended" => tart'[p].managed = "no"
    BY <1>1, <1>4, GoesOn
  <2>2. Placed' BY <1>1, <1>4, <2>1, PlacedThen DEF Placed
  <2>3. InstancesOwned' BY <1>1, <1>4, <2>1, Owned
  <2>4. QED BY <2>2, <2>3
<1>5. CASE StartSession(p)
  <2>1. p \in Sessions /\ tart[p].managed # "yes" BY <1>1, <1>5 DEF StartSession, Placed
  <2>2. \A c \in MacCells : Up(c)' => Up(c)
    BY <1>1, <1>2, <1>5 DEF StartSession, TartDelete, Running
  <2>3. QED BY <1>4, <1>5, <2>1, <2>2 DEF StartSession
<1>6. CASE FindInstance(p)
  <2>1. p \in Sessions /\ tart[p].managed # "yes" BY <1>1, <1>6 DEF FindInstance, Placed
  <2>2. vms' = vms BY <1>6 DEF FindInstance
  <2>3. \A c \in MacCells : Up(c)' => Up(c) BY <2>2 DEF Running
  <2>4. CASE Exists(Mine(p)) /\ tart' = [tart EXCEPT ![p].pc = "acquire", ![p].seen = vms[Mine(p)].running]
    <3>1. /\ tart'[p].pc = "acquire" /\ tart'[p].managed = tart[p].managed
          /\ \A q \in TartCommands \ {p} : tart'[q] = tart[q]
      BY <1>1, <2>4 DEF TartStates
    <3>2. QED BY <1>1, <2>1, <2>3, <3>1, PlacedThen, Owned
  <2>5. CASE GoOn(p, "cloneInstance")
    BY <1>4, <2>1, <2>3, <2>5
  <2>6. CASE BeginBuild(p, "full", "no")
    <3>1. /\ tart'[p].pc = "clear" /\ tart'[p].managed = tart[p].managed
          /\ \A q \in TartCommands \ {p} : tart'[q] = tart[q]
      BY <1>1, <2>6, Begins
    <3>2. QED BY <1>1, <2>1, <2>3, <3>1, PlacedThen, Owned
  <2>7. QED BY <1>6, <2>4, <2>5, <2>6 DEF FindInstance
<1>7. CASE CloneInstance(p)
  <2>1. p \in Sessions /\ tart[p].managed # "yes" BY <1>1, <1>7 DEF CloneInstance, Placed
  <2>2. CASE TartClone(Template(Stack(p)), Mine(p)) /\ Exists(Template(Stack(p)))
             /\ tart' = [tart EXCEPT ![p].pc = "acquire", ![p].seen = "no"]
    <3>1. /\ tart'[p].pc = "acquire" /\ tart'[p].managed = tart[p].managed
          /\ \A q \in TartCommands \ {p} : tart'[q] = tart[q]
      BY <1>1, <2>2 DEF TartStates
    <3>2. \A n \in Names : n # Mine(p) => vms'[n] = vms[n]
      BY <1>1, <1>3, <2>2 DEF TartClone, VMs
    <3>3. ~Running(Mine(p))'
      <4>1. vms[Template(Stack(p))] \in VM
        <5>1. Template(Stack(p)) \in Names BY NamesAre
        <5>2. QED BY <1>1, <2>2, <5>1 DEF VMs, Exists
      <4>2. vms'[Mine(p)] = Off(vms[Template(Stack(p))])
        BY <1>1, <1>3, <2>2 DEF TartClone, VMs
      <4>3. Off(vms[Template(Stack(p))]).running = "no" BY <4>1 DEF Off, VM
      <4>4. QED BY <4>2, <4>3 DEF Running, Mine, Instance
    <3>4. \A c \in MacCells : Up(c)' => Up(c)
      BY <1>2, <3>2, <3>3 DEF Running, Mine, Instance
    <3>5. QED BY <1>1, <2>1, <3>1, <3>4, PlacedThen, Owned
  <2>3. CASE GoOn(p, "ended") /\ UNCHANGED vms
    BY <1>4, <2>1, <2>3 DEF Running
  <2>4. QED BY <1>7, <2>2, <2>3 DEF CloneInstance
<1>8. CASE Acquire(p)
  <2>1. p \in Sessions /\ tart[p].managed # "yes" BY <1>1, <1>8 DEF Acquire, Placed
  <2>2. CASE TartRun(p, Mine(p)) /\ tart' = [tart EXCEPT ![p].pc = "verify", ![p].managed = "yes"]
    <3>1. /\ tart'[p].pc = "verify" /\ tart'[p].managed = "yes"
          /\ \A q \in TartCommands \ {p} : tart'[q] = tart[q]
      BY <1>1, <2>2 DEF TartStates
    <3>2. \A n \in Names : n # Mine(p) => vms'[n] = vms[n]
      BY <1>1, <1>3, <2>2 DEF TartRun, VMs
    <3>3. \A c \in MacCells : Up(c)' => Up(c) \/ MacOf[p] = c
      BY <1>2, <3>2 DEF Running, Instance
    <3>4. QED BY <1>1, <2>1, <3>1, <3>3, PlacedThen, Owned
  <2>3. CASE GoOn(p, "verify") /\ UNCHANGED vms
    BY <1>4, <2>1, <2>3 DEF Running
  <2>4. CASE GoOn(p, "ended") /\ UNCHANGED vms
    BY <1>4, <2>1, <2>4 DEF Running
  <2>5. QED BY <1>8, <2>2, <2>3, <2>4 DEF Acquire
<1>9. CASE Verify(p) \/ Prepare(p) \/ MacAgentExits(p)
  <2>1. p \in Sessions
    BY <1>1, <1>9 DEF Verify, Prepare, MacAgentExits, Placed
  <2>2. \E pc \in {"prepare", "agent", "leave"} : GoOn(p, pc)
    BY <1>9 DEF Verify, Prepare, MacAgentExits
  <2>3. \A c \in MacCells : Up(c)' => Up(c)
    <3>1. CASE UNCHANGED vms BY <3>1 DEF Running
    <3>2. CASE Reactivate(p)
      <4>1. Running(Mine(p)) BY <3>2 DEF Reactivate
      <4>2. \A n \in Names : n # Mine(p) => vms'[n] = vms[n]
        BY <1>1, <1>3, <3>2 DEF Reactivate, VMs
      <4>3. QED BY <1>2, <4>1, <4>2 DEF Running, Mine, Instance
    <3>3. QED BY <1>9, <3>1, <3>2 DEF Verify, Prepare, MacAgentExits
  <2>4. QED BY <1>4, <2>1, <2>2, <2>3
<1>10. ASSUME TartStop(Mine(p)) PROVE ~Running(Mine(p))' /\ \A c \in MacCells : Up(c)' => Up(c)
  <2>1. vms[Mine(p)] = Nil \/ vms[Mine(p)] \in VM BY <1>1, <1>3 DEF VMs
  <2>2. \A n \in Names : n # Mine(p) => vms'[n] = vms[n]
    BY <1>1, <1>3, <1>10 DEF TartStop, VMs
  <2>3. vms'[Mine(p)] = Nil \/ vms'[Mine(p)].running = "no"
    BY <1>1, <1>3, <1>10, <2>1 DEF TartStop, VMs, VM, Exists
  <2>4. ~Running(Mine(p))' BY <2>3 DEF Running, Mine, Instance
  <2>5. QED BY <1>2, <2>2, <2>4 DEF Running, Mine, Instance
<1>11. CASE LeaveVM(p)
  <2>1. GoOn(p, "ended") BY <1>11 DEF LeaveVM
  <2>2. /\ tart'[p].pc = "ended" /\ tart'[p].managed = "no"
        /\ \A q \in TartCommands \ {p} : tart'[q] = tart[q]
    BY <1>1, <2>1, GoesOn
  <2>3. tart[p].managed = "yes" => ~Running(Mine(p))'
    BY <1>10, <1>11 DEF LeaveVM
  <2>4. \A c \in MacCells : Up(c)' => Up(c)
    BY <1>10, <1>11 DEF LeaveVM, Running
  <2>5. QED BY <1>1, <2>2, <2>3, <2>4, PlacedThen, Owned
<1>12. CASE Killed(p)
  <2>1. GoOn(p, "dead") BY <1>12 DEF Killed
  <2>2. TartStop(BuildVM) => \A c \in MacCells : Up(c)' => Up(c)
    BY <1>1, <1>2, <1>3 DEF TartStop, VMs, Running
  <2>3. \A c \in MacCells : Up(c)' => Up(c)
    BY <1>10, <1>12, <2>2 DEF Killed, Running
  <2>4. QED BY <1>4, <2>1, <2>3
<1>13. QED BY <1>5, <1>6, <1>7, <1>8, <1>9, <1>11, <1>12 DEF SessionStep

\* For any cells, stacks, builds and sessions, killed at any step: a macOS
\* instance that runs has a session that will stop it (the deferred stop of
\* engine.go), or one that was killed.
THEOREM InstancesAreOwned == TartSpec => []InstancesOwned
<1>1. TartInit => SessionInv
  <2> SUFFICES ASSUME TartInit PROVE SessionInv OBVIOUS
  <2>1. TartTypes BY StartsEmpty
  <2>2. Placed BY DEF TartInit, Fresh, Placed, InSession
  <2>3. InstancesOwned BY NamesAre DEF TartInit, InstancesOwned, Running
  <2>4. QED BY <2>1, <2>2, <2>3 DEF SessionInv
<1>2. SessionInv /\ [TartNext]_tartVars => SessionInv'
  <2> SUFFICES ASSUME SessionInv, [TartNext]_tartVars PROVE SessionInv' OBVIOUS
  <2>1. TartTypes' BY TartTypesKept DEF SessionInv
  <2>2. CASE UNCHANGED tartVars
    BY <2>1, <2>2 DEF tartVars, SessionInv, Placed, InstancesOwned, Running
  <2>3. CASE TartNext
    BY <2>1, <2>3, BuildsKeepOwners, SessionsOwn DEF TartNext, SessionInv
  <2>4. QED BY <2>2, <2>3
<1>3. SessionInv => InstancesOwned BY DEF SessionInv
<1>4. QED BY <1>1, <1>2, <1>3, PTL DEF TartSpec

-----------------------------------------------------------------------------
\* The steps of a build: one that does not start from the base template
\* installs nix in its third, and one for a stack activates it in its last.
LEMMA StepsAre ==
  ASSUME NEW p \in TartCommands
  PROVE  /\ Len(Steps(p)) \in Nat
         /\ tart[p].stage = "base" => Len(Steps(p)) = 4 /\ Steps(p)[3] = "nix"
         /\ tart[p].stage # "base" /\ tart[p].fromBase = "yes" =>
               Len(Steps(p)) = 1 /\ Steps(p)[1] = "activate"
         /\ tart[p].stage # "base" /\ tart[p].fromBase # "yes" =>
               Len(Steps(p)) = 5 /\ Steps(p)[3] = "nix" /\ Steps(p)[5] = "activate"
<1> DEFINE k == {"setup", "disk", "nix", "swap", "activate"}
           b == BaseSteps
           t == StackSteps
<1>1. b \in Seq(k) /\ Len(b) = 4 /\ b[3] = "nix" BY DEF BaseSteps
<1>2. t \in Seq(k) /\ Len(t) = 1 /\ t[1] = "activate" BY DEF StackSteps
<1> HIDE DEF k, b, t
<1>3. Len(b \o t) = 5 /\ (b \o t)[3] = "nix" /\ (b \o t)[5] = "activate"
  <2>1. /\ Len(b \o t) = Len(b) + Len(t)
        /\ \A i \in 1 .. Len(b) + Len(t) : (b \o t)[i] = IF i <= Len(b) THEN b[i] ELSE t[i - Len(b)]
    BY <1>1, <1>2, ConcatProperties
  <2>2. 3 \in 1 .. 4 + 1 /\ 5 \in 1 .. 4 + 1 OBVIOUS
  <2>3. QED BY <1>1, <1>2, <2>1, <2>2
<1>4. Steps(p) = IF tart[p].stage = "base" THEN b ELSE IF tart[p].fromBase = "yes" THEN t ELSE b \o t
  BY DEF Steps, b, t
<1>5. QED BY <1>1, <1>2, <1>3, <1>4

\* What a step of p may do to the build VM, as the others see it: delete it,
\* put one of its own in its place, or work in it, which takes it from its owner.
SameVM == /\ vms[BuildVM] # Nil
          /\ vms'[BuildVM].nix = vms[BuildVM].nix /\ vms'[BuildVM].stack = vms[BuildVM].stack
          /\ vms'[BuildVM].marker = vms[BuildVM].marker /\ vms'[BuildVM].by = vms[BuildVM].by
Apart(p) == vms'[BuildVM] = Nil \/ vms'[BuildVM].by \in {p, Nil} \/ SameVM

\* So a step of p leaves alone what is known of the builds of the others.
LEMMA OthersBuild ==
  ASSUME Progress, NEW p \in TartCommands,
         \A q \in TartCommands \ {p} : tart'[q] = tart[q],
         Apart(p),
         tart'[p].pc \in Building => Made(p)',
         tart'[p].pc \in Early => ~Own(p)'
  PROVE  Progress'
<1>1. ASSUME NEW q \in TartCommands \ {p}
      PROVE  /\ tart'[q].pc \in Building => Made(q)'
             /\ tart'[q].pc \in Early => ~Own(q)'
  <2>1. tart'[q] = tart[q] /\ q # p /\ q # Nil BY MacAssumption DEF TartCommands
  <2>2. ASSUME Own(q)' PROVE Own(q) /\ SameVM
    <3>1. vms'[BuildVM] # Nil /\ vms'[BuildVM].by = q BY <2>2 DEF Own, Exists, BuildVM
    <3>2. SameVM BY <2>1, <3>1 DEF Apart
    <3>3. QED BY <3>1, <3>2 DEF SameVM, Own, Exists
  <2>3. Steps(q)' = Steps(q) BY <2>1 DEF Steps
  <2>4. tart'[q].pc \in Early => ~Own(q)' BY <2>1, <2>2 DEF Progress
  <2>5. ASSUME tart'[q].pc \in Building PROVE Made(q)'
    <3>1. Made(q) BY <2>1, <2>5 DEF Progress
    <3>2. Stack(q)' = Stack(q) BY DEF Stack
    <3>3. CASE Own(q)'
      <4>1. Own(q) /\ SameVM BY <2>2, <3>3
      <4>2. vms'[BuildVM'] = vms'[BuildVM] BY DEF BuildVM
      <4>3. QED BY <2>1, <2>3, <3>1, <3>2, <4>1, <4>2 DEF Made, SameVM
    <3>4. CASE ~Own(q)'
      BY <2>1, <2>3, <3>1, <3>4 DEF Made
    <3>5. QED BY <3>3, <3>4
  <2>6. QED BY <2>4, <2>5
<1>2. QED BY <1>1 DEF Progress

\* When the command that makes a step does not build, the builds go on.
LEMMA Aside ==
  ASSUME Progress, NEW p \in TartCommands,
         \A q \in TartCommands \ {p} : tart'[q] = tart[q],
         tart'[p].pc \notin Building, tart'[p].pc \in Early => tart[p].pc \in Early,
         vms'[BuildVM] = vms[BuildVM]
  PROVE  Progress'
<1>1. Apart(p) BY DEF Apart, SameVM
<1>2. Own(p)' => Own(p) BY DEF Own, Exists, BuildVM
<1>3. tart'[p].pc \in Early => ~Own(p)' BY <1>2 DEF Progress
<1>4. QED BY <1>1, <1>3, OthersBuild

\* Templates that are deleted, or left alone, do not become incomplete.
LEMMA FewerTemplates ==
  ASSUME Complete,
         \A s \in Stacks \cup {"base"} :
            vms'[Template(s)] = Nil \/ vms'[Template(s)] = vms[Template(s)]
  PROVE  Complete'
<1>1. \A s \in Stacks \cup {"base"} : Exists(Template(s))' => vms'[Template(s)] = vms[Template(s)]
  BY DEF Exists, Template
<1>2. QED BY <1>1 DEF Complete, Exists, Template

\* Templates are neither the build VM nor instances.
LEMMA TemplateNames ==
  /\ \A s \in Stacks \cup {"base"} : Template(s) \in Names /\ Template(s) # BuildVM
  /\ \A c : \A s \in Stacks \cup {"base"} : Template(s) # Instance(c)
  BY NamesAre

\* A command that leaves its build, or was told that there is nothing to do.
LEMMA LeavesBuild ==
  ASSUME BuildInv, NEW p \in TartCommands,
         NEW pc \in MacPoints \ (Building \cup Early), GoOn(p, pc), Apart(p)
  PROVE  Progress'
<1>1. tart \in [TartCommands -> TartStates] BY TypesAre DEF BuildInv
<1>2. tart'[p].pc \notin Building \cup Early /\ \A q \in TartCommands \ {p} : tart'[q] = tart[q]
  BY <1>1, GoesOn
<1>3. QED BY <1>2, OthersBuild DEF BuildInv

\* A command that goes on with its build: what it has made, it has shown.
LEMMA GoesOnBuilding ==
  ASSUME BuildInv, NEW p \in TartCommands, tart[p].pc \in Building, tart[p].pc # "provision",
         NEW pc \in Building, GoOn(p, pc), Apart(p),
         pc \in {"clear", "clone", "resources", "boot", "agentWait"} =>
            tart[p].pc \in {"clear", "clone", "resources", "boot", "agentWait"},
         pc = "provision" => tart[p].pc = "agentWait",
         pc \in Early => vms'[BuildVM] = Nil,
         pc \in InVM /\ vms'[BuildVM] # Nil /\ vms'[BuildVM].by = p =>
            /\ tart[p].fromBase = "yes" \/ pc \in Provisioned => vms'[BuildVM].nix = "yes"
            /\ pc \in Provisioned /\ tart[p].stage = "full" => vms'[BuildVM].stack = Stack(p)
            /\ pc \in {"shutdown", "save"} => vms'[BuildVM].marker = "yes"
  PROVE  Progress'
<1>1. tart \in [TartCommands -> TartStates] BY TypesAre DEF BuildInv
<1>2. pc \in MacPoints /\ pc \notin {"ended", "dead"} BY DEF MacPoints, Building
<1>3. /\ tart'[p].pc = pc /\ \A q \in TartCommands \ {p} : tart'[q] = tart[q]
      /\ tart'[p].stage = tart[p].stage /\ tart'[p].fromBase = tart[p].fromBase
      /\ tart'[p].step = tart[p].step
  BY <1>1, <1>2, GoesOn
<1>4. Made(p) BY DEF BuildInv, Progress
<1>5. Steps(p)' = Steps(p) /\ Stack(p)' = Stack(p) BY <1>3 DEF Steps, Stack
<1>6. Made(p)'
  <2>1. tart[p].stage = "base" => tart[p].fromBase = "no" BY <1>4 DEF Made
  <2>2. tart[p].pc \in {"clear", "clone", "resources", "boot", "agentWait"} => tart[p].step = 1
    BY <1>4 DEF Made
  <2>3. 1 \in 1 .. Len(Steps(p))
    BY StepsAre, <1>1 DEF TartStates
  <2>4. pc = "provision" => tart[p].step \in 1 .. Len(Steps(p)) /\ ~(tart[p].step > 3)
    BY <2>2, <2>3
  <2>5. QED BY <1>3, <1>5, <2>1, <2>2, <2>4 DEF Made, Own, Exists, BuildVM
<1>7. tart'[p].pc \in Early => ~Own(p)' BY <1>3 DEF Own, Exists, BuildVM
<1>8. QED BY <1>3, <1>6, <1>7, OthersBuild DEF BuildInv

\* Only the build VM is touched.
BuildVMOnly == \A n \in Names \ {BuildVM} : vms'[n] = vms[n]
\* A step that touches the build VM only leaves the templates as they are.
LEMMA TemplatesLeft == ASSUME Complete, BuildVMOnly PROVE Complete'
  BY FewerTemplates, TemplateNames DEF BuildVMOnly

\* The clean-up deletes, ...
LEMMA ClearKeeps ==
  ASSUME BuildInv, NEW p \in TartCommands, Clear(p)
  PROVE  Complete' /\ Progress'
<1>1. vms \in VMs /\ tart[p].pc = "clear" BY TypesAre DEF BuildInv, Clear
<1>2. Complete'
  <2>1. \A s \in Stacks \cup {"base"} :
            vms'[Template(s)] = Nil \/ vms'[Template(s)] = vms[Template(s)]
    BY TemplateNames DEF Clear, TartDelete
  <2>2. QED BY <2>1, FewerTemplates DEF BuildInv
<1>3. CASE GoOn(p, "ended") /\ UNCHANGED vms
  <2>1. "ended" \in MacPoints \ (Building \cup Early) BY DEF MacPoints, Building, Early
  <2>2. Apart(p) BY <1>3 DEF Apart, SameVM
  <2>3. QED BY <1>2, <1>3, <2>1, <2>2, LeavesBuild
<1>4. CASE GoOn(p, "clone") /\ TartDelete({TemplateName(p), BuildVM})
  <2>1. "clone" \notin InVM /\ "clone" \in Building /\ tart[p].pc \in Building
    BY <1>1 DEF InVM, Building
  <2>2. vms'[BuildVM] = Nil BY <1>4, NamesAre DEF TartDelete
  <2>3. Apart(p) BY <2>2 DEF Apart
  <2>4. QED BY <1>1, <1>2, <1>4, <2>1, <2>2, <2>3, GoesOnBuilding
<1>5. QED BY <1>2, <1>3, <1>4 DEF Clear

\* ... and the build VM is cloned from an image without nix, or from the
\* base template, which has it.
LEMMA CloneKeeps ==
  ASSUME BuildInv, NEW p \in TartCommands, Clone(p)
  PROVE  Complete' /\ Progress'
<1>1. vms \in VMs /\ tart[p].pc = "clone" /\ p # Nil
  BY TypesAre, MacAssumption DEF BuildInv, Clone, TartCommands
<1>2. BuildVM \in Names /\ BaseTemplate \in Names /\ BaseTemplate = Template("base") BY NamesAre
<1> USE DEF Building, MacPoints, InSession
<1>3. CASE GoOn(p, "ended") /\ UNCHANGED vms
  <2>1. BuildVMOnly BY <1>3 DEF BuildVMOnly
  <2>2. Apart(p) BY <1>3 DEF Apart, SameVM
  <2>3. "ended" \in MacPoints \ (Building \cup Early) BY DEF Early
  <2>4. QED BY <1>1, <1>3, <2>1, <2>2, <2>3, LeavesBuild, TemplatesLeft DEF BuildInv
<1>4. CASE /\ tart[p].fromBase = "no" \/ Exists(BaseTemplate)
           /\ vms' = [vms EXCEPT ![BuildVM] =
                         IF tart[p].fromBase = "yes" THEN BaseClone(p) ELSE Image(p)]
           /\ GoOn(p, "resources")
  <2>1. BuildVMOnly BY <1>1, <1>4 DEF BuildVMOnly, VMs
  <2>2. ASSUME tart[p].fromBase = "yes"
        PROVE  /\ vms'[BuildVM].by \in {p, Nil}
               /\ vms'[BuildVM].by = p => vms'[BuildVM].nix = "yes"
    <3>1. Exists(BaseTemplate) /\ vms'[BuildVM] = BaseClone(p)
      BY <1>1, <1>2, <1>4, <2>2 DEF VMs
    <3>2. vms[BaseTemplate] \in VM BY <1>1, <1>2, <3>1 DEF VMs, Exists
    <3>3. /\ BaseClone(p).nix = vms[BaseTemplate].nix
          /\ BaseClone(p).by = IF vms[BaseTemplate].by = Nil THEN Nil ELSE p
      BY <3>2 DEF BaseClone, Off, VM
    <3>4. vms[BaseTemplate].by # Nil => vms[BaseTemplate].nix = "yes"
      BY <1>2, <3>1 DEF BuildInv, Complete
    <3>5. QED BY <1>1, <3>1, <3>3, <3>4
  <2>3. tart[p].fromBase # "yes" => vms'[BuildVM].by = p
    BY <1>1, <1>2, <1>4 DEF VMs, Image
  <2>4. Apart(p) BY <2>2, <2>3 DEF Apart
  <2>5. "resources" \notin Provisioned /\ "resources" \in Building /\ "resources" \notin Early
    BY DEF Provisioned, Early
  <2>6. Progress' BY <1>1, <1>4, <2>2, <2>4, <2>5, GoesOnBuilding
  <2>7. QED BY <2>1, <2>6, TemplatesLeft DEF BuildInv
<1>5. QED BY <1>3, <1>4 DEF Clone

\* The build VM keeps what it has while it is configured, booted and stopped;
\* who boots it has a hand in it.
LEMMA SameDisk ==
  ASSUME vms \in VMs, nixDisk \in [store : {"yes", "no"}, profile : Stacks \cup {Nil}],
         NEW p \in TartCommands,
         TartRun(p, BuildVM) \/ TartStop(BuildVM) \/ UNCHANGED vms
  PROVE  /\ BuildVMOnly
         /\ Apart(p)
         /\ vms'[BuildVM] # Nil => /\ vms[BuildVM] # Nil
                                   /\ vms'[BuildVM].nix = vms[BuildVM].nix
                                   /\ vms'[BuildVM].marker = vms[BuildVM].marker
                                   /\ vms'[BuildVM].by = p => vms[BuildVM].by = p
         /\ ~TartRun(p, BuildVM) /\ vms'[BuildVM] # Nil =>
               vms'[BuildVM].stack = vms[BuildVM].stack
<1> DEFINE n == BuildVM
<1>1. n \in Names BY NamesAre
<1>2. (vms[n] # Nil => vms[n] \in VM) /\ p # Nil
  BY <1>1, MacAssumption DEF VMs, TartCommands
<1> HIDE DEF n
<1>3. CASE vms' = vms
  BY <1>3 DEF BuildVMOnly, Apart, SameVM, n
<1>4. CASE TartRun(p, n) /\ vms' # vms
  <2> DEFINE d == Touched(p, Booted(vms[n]))
  <2>1. vms[n] # Nil /\ vms' = [vms EXCEPT ![n] = d]
    BY <1>4 DEF TartRun, Exists
  <2>2. /\ Booted(vms[n]) \in VM /\ Booted(vms[n]).nix = vms[n].nix
        /\ Booted(vms[n]).marker = vms[n].marker /\ Booted(vms[n]).by = vms[n].by
    BY <1>2, <2>1 DEF Booted, VM
  <2>3. /\ d.nix = vms[n].nix /\ d.marker = vms[n].marker
        /\ d.by = IF vms[n].by = p THEN p ELSE Nil
    BY <2>2 DEF Touched, VM
  <2> HIDE DEF d
  <2>4. vms'[n] = d /\ \A m \in Names \ {n} : vms'[m] = vms[m] BY <1>1, <2>1 DEF VMs
  <2>5. d.by \in {p, Nil} /\ (d.by = p => vms[n].by = p) BY <1>2, <2>3
  <2>6. BuildVMOnly /\ Apart(p) BY <2>4, <2>5 DEF BuildVMOnly, Apart, n
  <2>7. QED BY <1>4, <2>1, <2>3, <2>4, <2>5, <2>6 DEF n
<1>5. CASE TartStop(n) /\ vms' # vms
  <2> DEFINE d == [vms[n] EXCEPT !.running = "no"]
  <2>1. vms[n] # Nil /\ vms' = [vms EXCEPT ![n] = d]
    BY <1>5 DEF TartStop, Exists
  <2>2. /\ d.nix = vms[n].nix /\ d.marker = vms[n].marker /\ d.stack = vms[n].stack
        /\ d.by = vms[n].by
    BY <1>2, <2>1 DEF VM
  <2> HIDE DEF d
  <2>3. vms'[n] = d /\ \A m \in Names \ {n} : vms'[m] = vms[m] BY <1>1, <2>1 DEF VMs
  <2>4. BuildVMOnly /\ Apart(p) BY <2>1, <2>2, <2>3 DEF BuildVMOnly, Apart, SameVM, n
  <2>5. QED BY <2>1, <2>2, <2>3, <2>4 DEF n
<1>6. QED BY <1>3, <1>4, <1>5 DEF n

\* Configuring and booting the build VM, waiting for its agent, giving up.
LEMMA BootKeeps ==
  ASSUME BuildInv, NEW p \in TartCommands,
         Resources(p) \/ BootBuild(p) \/ AgentWait(p) \/ GiveUp(p) \/ StepFails(p)
  PROVE  Complete' /\ Progress'
<1>1. vms \in VMs /\ nixDisk \in [store : {"yes", "no"}, profile : Stacks \cup {Nil}] /\ Made(p)
      /\ Complete /\ tart \in [TartCommands -> TartStates]
  BY TypesAre DEF BuildInv, Progress, Building, Resources, BootBuild, AgentWait, GiveUp, StepFails
<1>2. tart[p].pc \in {"resources", "boot", "agentWait", "provision", "stamp", "check", "giveUp"}
  BY DEF Resources, BootBuild, AgentWait, GiveUp, StepFails
<1>3. BuildVM \in Names BY NamesAre
<1>4. ASSUME GoOn(p, "ended"), BuildVMOnly, Apart(p) PROVE Complete' /\ Progress'
  <2>1. "ended" \in MacPoints \ (Building \cup Early) BY DEF MacPoints, Building, Early
  <2>2. QED BY <1>1, <1>4, <2>1, LeavesBuild, TemplatesLeft
<1>5. TartDelete({BuildVM}) => BuildVMOnly /\ Apart(p)
  BY <1>3 DEF TartDelete, BuildVMOnly, Apart
<1>6. ASSUME NEW pc \in {"boot", "agentWait", "provision", "giveUp"}, GoOn(p, pc),
             pc = "boot" => tart[p].pc = "resources",
             pc = "agentWait" => tart[p].pc = "boot",
             pc = "provision" => tart[p].pc = "agentWait",
             tart[p].pc # "provision",
             TartRun(p, BuildVM) \/ UNCHANGED vms
      PROVE  Complete' /\ Progress'
  <2>1. pc \in Building /\ tart[p].pc \in Building /\ pc \notin Provisioned /\ pc \notin Early
    BY <1>2 DEF Building, Provisioned, Early
  <2>2. /\ BuildVMOnly /\ Apart(p)
        /\ vms'[BuildVM] # Nil =>
              /\ vms[BuildVM] # Nil /\ vms'[BuildVM].nix = vms[BuildVM].nix
              /\ vms'[BuildVM].by = p => vms[BuildVM].by = p
    BY <1>1, <1>6, SameDisk
  <2>3. pc \in InVM /\ vms'[BuildVM] # Nil /\ vms'[BuildVM].by = p /\ tart[p].fromBase = "yes"
        => vms'[BuildVM].nix = "yes"
    BY <1>1, <1>6, <2>2 DEF Made, InVM, Own, Exists
  <2>4. Progress'
    BY <1>6, <2>1, <2>2, <2>3, GoesOnBuilding DEF Provisioned
  <2>5. QED BY <1>1, <2>2, <2>4, TemplatesLeft
<1>7. CASE Resources(p)
  <2>1. CASE GoOn(p, "ended") /\ TartDelete({BuildVM}) BY <2>1, <1>4, <1>5
  <2>2. CASE GoOn(p, "boot") /\ UNCHANGED vms BY <2>2, <1>6, <1>7 DEF Resources
  <2>3. QED BY <1>7, <2>1, <2>2 DEF Resources
<1>8. CASE BootBuild(p)
  <2>1. CASE GoOn(p, "ended") /\ TartDelete({BuildVM}) BY <2>1, <1>4, <1>5
  <2>2. CASE GoOn(p, "agentWait") /\ TartRun(p, BuildVM) BY <2>2, <1>6, <1>8 DEF BootBuild
  <2>3. QED BY <1>8, <2>1, <2>2 DEF BootBuild
<1>9. CASE AgentWait(p)
  <2>1. GoOn(p, "provision") \/ GoOn(p, "giveUp") BY <1>9 DEF AgentWait
  <2>2. tart[p].pc = "agentWait" /\ UNCHANGED vms BY <1>9 DEF AgentWait
  <2>3. CASE GoOn(p, "provision") BY <2>2, <2>3, <1>6
  <2>4. CASE GoOn(p, "giveUp") BY <2>2, <2>4, <1>6
  <2>5. QED BY <2>1, <2>3, <2>4
<1>10. CASE GiveUp(p)
  <2>1. BuildVMOnly /\ Apart(p) BY <1>1, <1>10, SameDisk DEF GiveUp
  <2>2. QED BY <2>1, <1>4, <1>10 DEF GiveUp
<1>11. CASE StepFails(p)
  <2>1. GoOn(p, "giveUp") /\ UNCHANGED vms BY <1>11 DEF StepFails
  <2>2. "giveUp" \in MacPoints /\ "giveUp" \notin InVM /\ "giveUp" \notin Early
    BY DEF MacPoints, Building, InVM, Early
  <2>3. /\ tart'[p].pc = "giveUp" /\ \A q \in TartCommands \ {p} : tart'[q] = tart[q]
        /\ tart'[p].stage = tart[p].stage /\ tart'[p].fromBase = tart[p].fromBase
    BY <1>1, <2>1, <2>2, GoesOn
  <2>4. Made(p)' BY <1>1, <2>2, <2>3 DEF Made
  <2>5. BuildVMOnly /\ Apart(p) BY <2>1 DEF BuildVMOnly, Apart, SameVM
  <2>6. Progress' BY <2>2, <2>3, <2>4, <2>5, OthersBuild DEF BuildInv
  <2>7. QED BY <1>1, <2>5, <2>6, TemplatesLeft
<1>12. QED BY <1>7, <1>8, <1>9, <1>10, <1>11

\* A step of the provisioning adds what it is for, and takes nothing back.
LEMMA ProvisionKeeps ==
  ASSUME BuildInv, NEW p \in TartCommands, Provision(p)
  PROVE  Complete' /\ Progress'
<1> DEFINE n == tart[p].step
           l == Len(Steps(p))
           pc == IF n = l THEN "stamp" ELSE "provision"
           b == BuildVM
<1>1. /\ vms \in VMs /\ tart \in [TartCommands -> TartStates] /\ Complete
      /\ tart[p].pc = "provision" /\ Made(p)
  BY TypesAre DEF BuildInv, Progress, Building, Provision
<1>2. b \in Names /\ vms[b] \in VM /\ vms[b] # Nil
  BY <1>1, NamesAre DEF Provision, Running, VMs
<1>3. n \in 1 .. l /\ l \in Nat BY <1>1, StepsAre DEF Made
<1>4. /\ tart'[p].pc = pc /\ tart'[p].step = n + 1
      /\ tart'[p].stage = tart[p].stage /\ tart'[p].fromBase = tart[p].fromBase
      /\ \A q \in TartCommands \ {p} : tart'[q] = tart[q]
  <2>1. tart' = [tart EXCEPT ![p].step = @ + 1, ![p].pc = pc] BY DEF Provision
  <2>2. pc \in MacPoints BY DEF MacPoints, Building
  <2> HIDE DEF pc
  <2>3. QED BY <1>1, <2>1, <2>2, StepsOn
<1>5. Steps(p)' = Steps(p) /\ Stack(p)' = Stack(p) BY <1>4 DEF Steps, Stack
<1>6. /\ \A m \in Names \ {b} : vms'[m] = vms[m]
      /\ vms'[b] \in VM
      /\ vms' = vms \/ vms'[b].by \in {p, Nil}
      /\ vms'[b].by = p => vms[b].by = p
      /\ vms[b].nix = "yes" => vms'[b].nix = "yes"
      /\ Steps(p)[n] = "nix" => vms'[b].nix = "yes"
      /\ Steps(p)[n] = "activate" => vms'[b].stack = Stack(p)
  <2>1. Stack(p) \in Stacks /\ p # Nil BY NamesAre, MacAssumption DEF TartCommands
  <2>2. CASE UNCHANGED vms /\ Steps(p)[n] \notin {"nix", "activate"}
    BY <1>2, <2>2
  <2>3. CASE /\ Steps(p)[n] = "nix"
             /\ vms' = [vms EXCEPT ![b] = Touched(p, [@ EXCEPT !.nix = "yes"])]
    <3> DEFINE d == Touched(p, [vms[b] EXCEPT !.nix = "yes"])
    <3>1. d \in VM /\ d.nix = "yes" /\ d.by = IF vms[b].by = p THEN p ELSE Nil
      BY <1>2 DEF Touched, VM
    <3>2. vms' = [vms EXCEPT ![b] = d] BY <2>3
    <3> HIDE DEF d
    <3>3. vms'[b] = d /\ \A m \in Names \ {b} : vms'[m] = vms[m] BY <1>1, <1>2, <3>2 DEF VMs
    <3>4. QED BY <2>1, <2>3, <3>1, <3>3
  <2>4. CASE /\ Steps(p)[n] = "activate"
             /\ vms' = [vms EXCEPT ![b] = Touched(p, [@ EXCEPT !.stack = Stack(p)])]
    <3> DEFINE d == Touched(p, [vms[b] EXCEPT !.stack = Stack(p)])
    <3>1. /\ d \in VM /\ d.nix = vms[b].nix /\ d.stack = Stack(p)
          /\ d.by = IF vms[b].by = p THEN p ELSE Nil
      BY <1>2, <2>1 DEF Touched, VM
    <3>2. vms' = [vms EXCEPT ![b] = d] BY <2>4
    <3> HIDE DEF d
    <3>3. vms'[b] = d /\ \A m \in Names \ {b} : vms'[m] = vms[m] BY <1>1, <1>2, <3>2 DEF VMs
    <3>4. QED BY <2>1, <2>4, <3>1, <3>3
  <2>5. QED
    BY <2>2, <2>3, <2>4 DEF Provision, PrepareDisk, InstallNix, SwapStore, Activate
<1>7. BuildVMOnly BY <1>6 DEF BuildVMOnly
<1>8. Apart(p) BY <1>2, <1>6 DEF Apart, SameVM
<1>9. /\ (tart[p].fromBase = "yes" \/ n > 3) /\ vms[b].by = p => vms[b].nix = "yes"
      /\ tart[p].stage = "base" => tart[p].fromBase = "no"
  BY <1>1, <1>2 DEF Made, InVM, Own, Exists
<1>10. tart[p].stage \in {"base", "full"} /\ tart[p].fromBase \in {"yes", "no"}
  BY <1>1 DEF TartStates
<1> HIDE DEF b, n, l
<1>11. (tart[p].fromBase = "yes" \/ n >= 3) /\ vms'[b].by = p => vms'[b].nix = "yes"
  <2>1. CASE n = 3 /\ tart[p].fromBase # "yes"
    <3>1. Steps(p)[3] = "nix" BY <2>1, <1>10, StepsAre
    <3>2. QED BY <2>1, <3>1, <1>6 DEF n
  <2>2. QED BY <2>1, <1>3, <1>6, <1>9
<1>12. n = l /\ vms'[b].by = p => vms'[b].nix = "yes"
  <2>1. tart[p].fromBase = "yes" \/ l >= 3 BY <1>9, <1>10, StepsAre DEF l
  <2>2. QED BY <2>1, <1>11
<1>13. n = l /\ tart[p].stage = "full" => vms'[b].stack = Stack(p)
  <2>1. tart[p].stage = "full" => Steps(p)[l] = "activate" BY <1>10, StepsAre DEF l
  <2>2. QED BY <2>1, <1>6
<1>14. Made(p)'
  <2>1. tart'[p].stage = "base" => tart'[p].fromBase = "no" BY <1>4, <1>9
  <2>2. tart'[p].pc \notin {"clear", "clone", "resources", "boot", "agentWait"} BY <1>4
  <2>3. tart'[p].pc = "provision" => tart'[p].step \in 1 .. Len(Steps(p))'
    <3>1. n # l => n + 1 \in 1 .. l BY <1>3
    <3>2. QED BY <3>1, <1>4, <1>5 DEF l
  <2>4. /\ \/ tart'[p].fromBase = "yes" \/ tart'[p].pc \in Provisioned
           \/ tart'[p].pc = "provision" /\ tart'[p].step > 3
        /\ vms'[b].by = p
        => vms'[b].nix = "yes"
    <3>1. n + 1 > 3 => n >= 3 BY <1>3
    <3>2. tart'[p].pc \in Provisioned => n = l BY <1>4 DEF Provisioned
    <3>3. QED BY <3>1, <3>2, <1>4, <1>11, <1>12
  <2>5. tart'[p].pc \in Provisioned /\ tart'[p].stage = "full" => vms'[b].stack = Stack(p)
    BY <1>4, <1>13 DEF Provisioned
  <2>6. tart'[p].pc \notin {"shutdown", "save"} BY <1>4
  <2>7. QED BY <2>1, <2>2, <2>3, <2>4, <2>5, <2>6, <1>5 DEF Made, b, Own, Exists, BuildVM
<1>15. tart'[p].pc \notin Early BY <1>4 DEF Early
<1>16. Progress' BY <1>4, <1>8, <1>14, <1>15, OthersBuild DEF BuildInv
<1>17. QED BY <1>1, <1>7, <1>16, TemplatesLeft

\* What was provisioned is marked, checked, shut down and saved.
LEMMA SavingKeeps ==
  ASSUME BuildInv, NEW p \in TartCommands, Stamp(p) \/ Check(p) \/ StopBuild(p)
  PROVE  Complete' /\ Progress'
<1> DEFINE b == BuildVM
<1>1. /\ vms \in VMs /\ nixDisk \in [store : {"yes", "no"}, profile : Stacks \cup {Nil}] /\ Made(p)
      /\ Complete
  BY TypesAre DEF BuildInv, Progress, Building, Stamp, Check, StopBuild
<1>2. tart[p].pc \in {"stamp", "check", "shutdown"} BY DEF Stamp, Check, StopBuild
<1>3. b \in Names BY NamesAre
<1>4. vms[b] # Nil /\ vms[b].by = p =>
        /\ vms[b].nix = "yes"
        /\ tart[p].stage = "full" => vms[b].stack = Stack(p)
        /\ tart[p].pc = "shutdown" => vms[b].marker = "yes"
  BY <1>1, <1>2 DEF Made, InVM, Provisioned, Own, Exists
<1>5. PICK pc \in {"check", "shutdown", "save"} :
         /\ GoOn(p, pc)
         /\ BuildVMOnly /\ Apart(p)
         /\ vms'[b] # Nil /\ vms'[b].by = p =>
               /\ vms[b] # Nil /\ vms[b].by = p
               /\ vms'[b].nix = vms[b].nix /\ vms'[b].stack = vms[b].stack
               /\ pc # "check" => vms'[b].marker = "yes"
  <2>1. CASE Stamp(p)
    <3> DEFINE d == Touched(p, [vms[b] EXCEPT !.marker = "yes"])
    <3>1. vms[b] \in VM /\ vms[b] # Nil /\ p # Nil
      BY <1>1, <1>3, <2>1, MacAssumption DEF Stamp, Running, VMs, TartCommands
    <3>2. vms' = [vms EXCEPT ![b] = d] /\ GoOn(p, "check") BY <2>1 DEF Stamp
    <3>3. /\ d.nix = vms[b].nix /\ d.stack = vms[b].stack
          /\ d.by = IF vms[b].by = p THEN p ELSE Nil
      BY <3>1 DEF Touched, VM
    <3> HIDE DEF d
    <3>4. vms'[b] = d /\ \A n \in Names \ {b} : vms'[n] = vms[n] BY <1>1, <1>3, <3>2 DEF VMs
    <3>5. BuildVMOnly /\ Apart(p) BY <3>3, <3>4 DEF BuildVMOnly, Apart
    <3>6. QED BY <3>1, <3>2, <3>3, <3>4, <3>5
  <2>2. CASE Check(p)
    <3>1. vms' = vms /\ GoOn(p, "shutdown") /\ vms[b].marker = "yes" BY <2>2 DEF Check
    <3>2. BuildVMOnly /\ Apart(p) BY <3>1 DEF BuildVMOnly, Apart, SameVM
    <3>3. QED BY <3>1, <3>2
  <2>3. CASE StopBuild(p)
    <3>1. TartStop(b) /\ GoOn(p, "save") /\ tart[p].pc = "shutdown" BY <2>3 DEF StopBuild
    <3>2. /\ BuildVMOnly /\ Apart(p)
          /\ vms'[b] # Nil => /\ vms[b] # Nil /\ vms'[b].nix = vms[b].nix
                              /\ vms'[b].marker = vms[b].marker
                              /\ vms'[b].by = p => vms[b].by = p
      BY <1>1, <3>1, SameDisk
    <3>3. vms[b] # Nil => vms'[b].stack = vms[b].stack
      <4>1. vms[b] # Nil => vms[b] \in VM BY <1>1, <1>3 DEF VMs
      <4>2. QED BY <1>1, <1>3, <3>1, <4>1 DEF TartStop, VMs, VM, Exists
    <3>4. QED BY <1>4, <3>1, <3>2, <3>3
  <2>4. QED BY <2>1, <2>2, <2>3
<1>6. /\ pc \in Building /\ tart[p].pc \in Building /\ pc \in Provisioned
      /\ tart[p].pc # "provision" /\ pc \notin Early
  BY <1>2 DEF Building, Provisioned, Early
<1>7. vms'[b] # Nil /\ vms'[b].by = p =>
         /\ vms'[b].nix = "yes"
         /\ tart[p].stage = "full" => vms'[b].stack = Stack(p)
         /\ pc \in {"shutdown", "save"} => vms'[b].marker = "yes"
  BY <1>4, <1>5
<1>8. Progress' BY <1>5, <1>6, <1>7, GoesOnBuilding
<1>9. QED BY <1>1, <1>5, <1>8, TemplatesLeft

\* What is saved as a template is complete for its stack.
LEMMA SaveKeeps ==
  ASSUME BuildInv, NEW p \in TartCommands, Save(p)
  PROVE  Complete' /\ Progress'
<1> DEFINE b == BuildVM
           t == IF tart[p].stage = "base" THEN "base" ELSE Stack(p)
           d == Touched(p, Off(vms[b]))
<1>1. /\ vms \in VMs /\ tart \in [TartCommands -> TartStates] /\ Made(p) /\ Complete
      /\ tart[p].pc = "save" /\ p # Nil
  BY TypesAre, MacAssumption DEF BuildInv, Progress, Building, Save, TartCommands
<1>2. /\ b \in Names /\ TemplateName(p) = Template(t) /\ Template(t) \in Names
      /\ \A s \in Stacks \cup {"base"} : s # t => Template(s) # Template(t)
      /\ \A s \in Stacks \cup {"base"} : Template(s) \in Names /\ Template(s) # b
  BY NamesAre, TemplateNames
<1>3. PICK pc \in {"ended", "cloneInstance"} : GoOn(p, pc)
  BY DEF Save, Built
<1>4. pc \in MacPoints \ (Building \cup Early) BY DEF MacPoints, Building, InSession, Early
<1>5. CASE UNCHANGED vms
  <2>1. BuildVMOnly /\ Apart(p) BY <1>5 DEF BuildVMOnly, Apart, SameVM
  <2>2. QED BY <1>1, <1>3, <1>4, <2>1, LeavesBuild, TemplatesLeft
<1>6. CASE Exists(b) /\ vms' = [vms EXCEPT ![Template(t)] = d, ![b] = Nil]
  <2>1. vms[b] \in VM BY <1>1, <1>2, <1>6 DEF VMs, Exists
  <2>2. vms[b].by = p =>
           /\ vms[b].nix = "yes" /\ vms[b].marker = "yes"
           /\ tart[p].stage = "full" => vms[b].stack = Stack(p)
    BY <1>1, <1>6 DEF Made, InVM, Provisioned, Own
  <2>3. /\ Off(vms[b]) \in VM /\ Off(vms[b]).nix = vms[b].nix /\ Off(vms[b]).marker = vms[b].marker
        /\ Off(vms[b]).stack = vms[b].stack /\ Off(vms[b]).by = vms[b].by
    BY <2>1 DEF Off, VM
  <2>4. /\ d.nix = vms[b].nix /\ d.marker = vms[b].marker /\ d.stack = vms[b].stack
        /\ d.by = IF vms[b].by = p THEN p ELSE Nil
    BY <2>3 DEF Touched, VM
  <2>5. tart[p].stage \in {"base", "full"} BY <1>1 DEF TartStates
  <2> HIDE DEF b, d
  <2>6. /\ vms'[Template(t)] = d /\ vms'[b] = Nil
        /\ \A s \in Stacks \cup {"base"} : s # t => vms'[Template(s)] = vms[Template(s)]
    <3>1. \A n \in Names : n # b /\ n # Template(t) => vms'[n] = vms[n] BY <1>1, <1>6 DEF VMs
    <3>2. t \in Stacks \cup {"base"} BY NamesAre
    <3>3. vms'[Template(t)] = d /\ vms'[b] = Nil
      BY <1>1, <1>2, <1>6, <3>2 DEF VMs
    <3>4. QED BY <1>2, <3>1, <3>3
  <2>7. t # "base" /\ vms[b].by = p => d.stack = t BY <2>2, <2>4, <2>5
  <2> HIDE DEF t
  <2>8. ASSUME NEW s \in Stacks \cup {"base"}, Exists(Template(s))', vms'[Template(s)].by # Nil
        PROVE  /\ vms'[Template(s)].nix = "yes" /\ vms'[Template(s)].marker = "yes"
               /\ s # "base" => vms'[Template(s)].stack = s
    <3>1. CASE s = t BY <3>1, <2>2, <2>4, <2>6, <2>7, <2>8
    <3>2. CASE s # t
      <4>1. vms'[Template(s)] = vms[Template(s)] BY <3>2, <2>6
      <4>2. Exists(Template(s)) /\ vms[Template(s)].by # Nil
        BY <2>8, <4>1 DEF Exists, Template
      <4>3. QED BY <4>1, <4>2, <1>1 DEF Complete
    <3>3. QED BY <3>1, <3>2
  <2>9. Complete' BY <2>8 DEF Complete, Template
  <2>10. Apart(p) BY <2>6 DEF Apart, b
  <2>11. QED BY <1>3, <1>4, <2>9, <2>10, LeavesBuild
<1>7. QED BY <1>2, <1>5, <1>6 DEF Save

\* A build begins with nothing made yet.
LEMMA BeginKeeps ==
  ASSUME BuildInv, NEW p \in TartCommands, tart[p].pc \in {"idle", "find"},
         NEW stage \in {"base", "full"}, NEW force \in {"yes", "no"}, BeginBuild(p, stage, force),
         UNCHANGED vms
  PROVE  Complete' /\ Progress'
<1>1. tart \in [TartCommands -> TartStates] BY TypesAre DEF BuildInv
<1>2. /\ tart'[p].pc = "clear" /\ tart'[p].step = 1
      /\ \A q \in TartCommands \ {p} : tart'[q] = tart[q]
      /\ tart'[p].stage = "base" => tart'[p].fromBase = "no"
  BY <1>1, Begins
<1>3. ~Own(p)' BY DEF BuildInv, Progress, Early, Own, Exists, BuildVM
<1>4. Made(p)' BY <1>2 DEF Made, InVM, Provisioned
<1>5. BuildVMOnly /\ Apart(p) BY DEF BuildVMOnly, Apart, SameVM
<1>6. Progress' BY <1>2, <1>3, <1>4, <1>5, OthersBuild DEF BuildInv
<1>7. QED BY <1>5, <1>6, TemplatesLeft DEF BuildInv

\* A step outside of builds deletes templates at most.
LEMMA AsideKeeps ==
  ASSUME BuildInv, NEW p \in TartCommands, NEW ns, UNCHANGED vms \/ TartDelete(ns),
         BuildVM \notin ns,
         \A q \in TartCommands \ {p} : tart'[q] = tart[q], tart'[p].pc \notin Building,
         tart'[p].pc \in Early => tart[p].pc \in Early
  PROVE  Complete' /\ Progress'
<1>1. BuildVM \in Names /\ \A s \in Stacks \cup {"base"} : Template(s) \in Names
  BY NamesAre, TemplateNames
<1>2. vms'[BuildVM] = vms[BuildVM] BY <1>1 DEF TartDelete
<1>3. \A s \in Stacks \cup {"base"} :
         vms'[Template(s)] = Nil \/ vms'[Template(s)] = vms[Template(s)]
  BY <1>1 DEF TartDelete
<1>4. QED BY <1>2, <1>3, Aside, FewerTemplates DEF BuildInv

\* Nor does one that only changes its instance.
LEMMA InstanceKeeps ==
  ASSUME BuildInv, NEW p \in TartCommands,
         \A n \in Names : n # Mine(p) => vms'[n] = vms[n],
         \A q \in TartCommands \ {p} : tart'[q] = tart[q],
         tart'[p].pc \notin Building \cup Early
  PROVE  Complete' /\ Progress'
<1>1. /\ BuildVM \in Names /\ BuildVM # Mine(p)
      /\ \A s \in Stacks \cup {"base"} : Template(s) \in Names /\ Template(s) # Mine(p)
  BY NamesAre, TemplateNames DEF Mine
<1>2. vms'[BuildVM] = vms[BuildVM] BY <1>1
<1>3. \A s \in Stacks \cup {"base"} : vms'[Template(s)] = vms[Template(s)] BY <1>1
<1>4. QED BY <1>2, <1>3, Aside, FewerTemplates DEF BuildInv

\* The steps of a session: outside of builds, but for the one that begins one.
LEMMA SessionKeeps ==
  ASSUME BuildInv, NEW p \in TartCommands, SessionStep(p)
  PROVE  Complete' /\ Progress'
<1>1. vms \in VMs /\ tart \in [TartCommands -> TartStates] BY TypesAre DEF BuildInv
<1>2. /\ BuildVM \in Names /\ Mine(p) \in Names /\ Mine(p) # BuildVM
      /\ Template(Stack(p)) # BuildVM
  BY NamesAre DEF Mine
<1> USE DEF Building, MacPoints, InSession, Early
<1>3. ASSUME NEW pc \in MacPoints \ (Building \cup Early), GoOn(p, pc)
      PROVE  tart'[p].pc \notin Building \cup Early /\ \A q \in TartCommands \ {p} : tart'[q] = tart[q]
  BY <1>1, <1>3, GoesOn
<1>4. ASSUME NEW pc \in {"acquire", "verify"}, tart'[p].pc = pc,
             \A q \in TartCommands \ {p} : tart'[q] = tart[q],
             \A n \in Names : n # Mine(p) => vms'[n] = vms[n]
      PROVE  Complete' /\ Progress'
  <2>1. tart'[p].pc \notin Building \cup Early BY <1>4
  <2>2. QED BY <1>4, <2>1, InstanceKeeps
<1>5. ASSUME NEW pc \in MacPoints \ (Building \cup Early), GoOn(p, pc), UNCHANGED vms
      PROVE  Complete' /\ Progress'
  <2>1. tart'[p].pc \notin Building \cup Early /\ \A q \in TartCommands \ {p} : tart'[q] = tart[q]
    BY <1>3, <1>5
  <2>2. QED BY <1>5, <2>1, InstanceKeeps
<1>6. CASE StartSession(p)
  <2>1. GoOn(p, "find") /\ tart[p].pc \in Early BY <1>6 DEF StartSession
  <2>2. tart'[p].pc \notin Building /\ \A q \in TartCommands \ {p} : tart'[q] = tart[q]
    BY <1>1, <2>1, GoesOn
  <2>3. UNCHANGED vms \/ TartDelete({Mine(p), Template(Stack(p))}) BY <1>6 DEF StartSession
  <2>4. BuildVM \notin {Mine(p), Template(Stack(p))} BY <1>2
  <2>5. QED BY <2>1, <2>2, <2>3, <2>4, AsideKeeps
<1>7. CASE FindInstance(p)
  <2>1. vms' = vms /\ tart[p].pc = "find" BY <1>7 DEF FindInstance
  <2>2. CASE tart' = [tart EXCEPT ![p].pc = "acquire", ![p].seen = vms[Mine(p)].running]
    <3>1. tart'[p].pc = "acquire" /\ \A q \in TartCommands \ {p} : tart'[q] = tart[q]
      BY <1>1, <2>2 DEF TartStates
    <3>2. QED BY <1>4, <2>1, <3>1
  <2>3. CASE GoOn(p, "cloneInstance") BY <2>1, <2>3, <1>5
  <2>4. CASE BeginBuild(p, "full", "no") BY <2>1, <2>4, BeginKeeps
  <2>5. QED BY <1>7, <2>2, <2>3, <2>4 DEF FindInstance
<1>8. CASE CloneInstance(p)
  <2>1. CASE TartClone(Template(Stack(p)), Mine(p))
             /\ tart' = [tart EXCEPT ![p].pc = "acquire", ![p].seen = "no"]
    <3>1. tart'[p].pc = "acquire" /\ \A q \in TartCommands \ {p} : tart'[q] = tart[q]
      BY <1>1, <2>1 DEF TartStates
    <3>2. \A n \in Names : n # Mine(p) => vms'[n] = vms[n]
      BY <1>1, <2>1 DEF TartClone, VMs
    <3>3. QED BY <1>4, <3>1, <3>2
  <2>2. CASE GoOn(p, "ended") /\ UNCHANGED vms BY <2>2, <1>5
  <2>3. QED BY <1>8, <2>1, <2>2 DEF CloneInstance
<1>9. CASE Acquire(p)
  <2>1. CASE TartRun(p, Mine(p)) /\ tart' = [tart EXCEPT ![p].pc = "verify", ![p].managed = "yes"]
    <3>1. tart'[p].pc = "verify" /\ \A q \in TartCommands \ {p} : tart'[q] = tart[q]
      BY <1>1, <2>1 DEF TartStates
    <3>2. \A n \in Names : n # Mine(p) => vms'[n] = vms[n]
      BY <1>1, <2>1 DEF TartRun, VMs
    <3>3. QED BY <1>4, <3>1, <3>2
  <2>2. CASE GoOn(p, "verify") /\ UNCHANGED vms BY <2>2, <1>5
  <2>3. CASE GoOn(p, "ended") /\ UNCHANGED vms BY <2>3, <1>5
  <2>4. QED BY <1>9, <2>1, <2>2, <2>3 DEF Acquire
<1>10. CASE Verify(p) \/ Prepare(p) \/ MacAgentExits(p)
  <2>1. PICK pc \in {"prepare", "agent", "leave"} : GoOn(p, pc)
    BY <1>10 DEF Verify, Prepare, MacAgentExits
  <2>2. tart'[p].pc \notin Building \cup Early /\ \A q \in TartCommands \ {p} : tart'[q] = tart[q]
    BY <1>3, <2>1
  <2>3. \A n \in Names : n # Mine(p) => vms'[n] = vms[n]
    BY <1>1, <1>2, <1>10 DEF Verify, Prepare, MacAgentExits, Reactivate, VMs
  <2>4. QED BY <2>2, <2>3, InstanceKeeps
<1>11. CASE LeaveVM(p)
  <2>1. GoOn(p, "ended") /\ "ended" \in MacPoints \ (Building \cup Early) BY <1>11 DEF LeaveVM
  <2>2. tart'[p].pc \notin Building \cup Early /\ \A q \in TartCommands \ {p} : tart'[q] = tart[q]
    BY <1>3, <2>1
  <2>3. \A n \in Names : n # Mine(p) => vms'[n] = vms[n]
    BY <1>1, <1>11 DEF LeaveVM, TartStop, VMs
  <2>4. QED BY <2>2, <2>3, InstanceKeeps
<1>12. QED BY <1>6, <1>7, <1>8, <1>9, <1>10, <1>11 DEF SessionStep

\* A killed command may take its VM down: its instance, or the build VM.
LEMMA KilledKeeps ==
  ASSUME BuildInv, NEW p \in TartCommands, Killed(p)
  PROVE  Complete' /\ Progress'
<1>1. /\ vms \in VMs /\ tart \in [TartCommands -> TartStates] /\ Complete
      /\ nixDisk \in [store : {"yes", "no"}, profile : Stacks \cup {Nil}]
  BY TypesAre DEF BuildInv
<1>2. GoOn(p, "dead") /\ "dead" \in MacPoints \ (Building \cup Early)
  BY DEF Killed, MacPoints, Building, InSession, Early
<1>3. tart'[p].pc \notin Building \cup Early /\ \A q \in TartCommands \ {p} : tart'[q] = tart[q]
  BY <1>1, <1>2, GoesOn
<1>4. CASE UNCHANGED vms
  BY <1>3, <1>4, InstanceKeeps
<1>5. CASE TartStop(Mine(p))
  <2>1. \A n \in Names : n # Mine(p) => vms'[n] = vms[n] BY <1>1, <1>5 DEF TartStop, VMs
  <2>2. QED BY <1>3, <2>1, InstanceKeeps
<1>6. CASE tart[p].pc \in Building /\ TartStop(BuildVM)
  <2>1. BuildVMOnly /\ Apart(p) BY <1>1, <1>6, SameDisk
  <2>2. Progress' BY <1>2, <2>1, LeavesBuild
  <2>3. QED BY <1>1, <2>1, <2>2, TemplatesLeft
<1>7. QED BY <1>4, <1>5, <1>6 DEF Killed

\* For any cells, stacks, builds and sessions, whatever step fails, whichever
\* command is killed and however builds overlap: a template whose disk is the
\* work of one build was fully provisioned for its stack (engine_darwin.go, build).
THEOREM TemplatesAreComplete == TartSpec => []TemplatesComplete
<1>1. TartInit => BuildInv
  <2> SUFFICES ASSUME TartInit PROVE BuildInv OBVIOUS
  <2>1. TartTypes BY StartsEmpty
  <2>2. Progress BY NamesAre DEF TartInit, Fresh, Progress, Building, Own, Exists
  <2>3. Complete BY TemplateNames DEF TartInit, Complete, Exists
  <2>4. QED BY <2>1, <2>2, <2>3 DEF BuildInv
<1>2. BuildInv /\ [TartNext]_tartVars => BuildInv'
  <2> SUFFICES ASSUME BuildInv, [TartNext]_tartVars PROVE BuildInv' OBVIOUS
  <2>1. TartTypes' BY TartTypesKept DEF BuildInv
  <2>2. CASE UNCHANGED tartVars
    <3>1. UNCHANGED <<vms, tart>> BY <2>2 DEF tartVars
    <3>2. Complete' BY <3>1 DEF BuildInv, Complete, Exists, Template
    <3>3. Progress'
      BY <3>1 DEF BuildInv, Progress, Made, Own, Steps, Stack, Exists, BuildVM
    <3>4. QED BY <2>1, <3>2, <3>3 DEF BuildInv
  <2>3. ASSUME NEW p \in TartCommands, StartBuild(p)
        PROVE  Complete' /\ Progress'
    <3>1. tart[p].pc \in {"idle", "find"} /\ UNCHANGED vms BY <2>3 DEF StartBuild
    <3>2. QED BY <2>3, <3>1, BeginKeeps DEF StartBuild
  <2>4. ASSUME NEW p \in TartCommands, BuildStep(p)
        PROVE  Complete' /\ Progress'
    BY <2>4, ClearKeeps, CloneKeeps, BootKeeps, ProvisionKeeps, SavingKeeps, SaveKeeps DEF BuildStep
  <2>5. CASE TartNext
    <3>1. Complete' /\ Progress'
      BY <2>3, <2>4, <2>5, SessionKeeps, KilledKeeps DEF TartNext
    <3>2. QED BY <2>1, <3>1 DEF BuildInv
  <2>6. QED BY <2>2, <2>5
<1>3. BuildInv => TemplatesComplete
  <2> SUFFICES ASSUME BuildInv, NEW s \in Stacks \ {"base"},
                      Exists(Template(s)), vms[Template(s)].by # Nil
               PROVE  FullyProvisioned(s)
    BY DEF TemplatesComplete
  <2>1. QED BY DEF BuildInv, Complete, FullyProvisioned
<1>4. QED BY <1>1, <1>2, <1>3, PTL DEF TartSpec
=============================================================================
