------------------------------ MODULE BootPopup ------------------------------
(***************************************************************************)
(* The boot popup of the cage (internal/cage/popup.go, bootui.go,          *)
(* internal/ux/bootview.go, the boot part of internal/engine/docker/run.go)*)
(*                                                                         *)
(* Four parties share one terminal:                                        *)
(*   - the window process: the engine's Run, the popup session object and  *)
(*     its goroutines (accept, ack reader, client reaper, binder, and the  *)
(*     consumer of the container's boot events);                           *)
(*   - the tmux display-popup client it starts;                            *)
(*   - boot-ui, which tmux runs inside the popup and which draws the panel;*)
(*   - the user, who presses keys in the popup.                            *)
(***************************************************************************)
EXTENDS Naturals, Sequences

CONSTANT MaxSteps   \* bound on the length of the event log before boot ends

ASSUME MaxStepsAssumption == MaxSteps \in Nat

VARIABLES
  pc,          \* where the window process's main goroutine is
  err,         \* what the engine's Run returned: "none", "boot", "agent"
  consumer,    \* ConsumeContainerEventsPanel: its bootDone value, once sent
  mode,        \* Popup.mode
  stdio,       \* where os.Stdin/Stdout/Stderr point: the tty or the log
  listener,    \* the unix listener
  ackDone,     \* the ackDone channel: boot-ui's close closes it
  clientDone,  \* the clientDone channel: empty, one value, value received
  binder,      \* the goroutine NewBootView starts
  events,      \* EventPanel.events
  sink,        \* EventPanel.sink
  sent,        \* how many events were written to the socket
  client,      \* the tmux display-popup process
  ui,          \* boot-ui, and how it exited once it did
  conn,        \* the socket connection
  seen,        \* how many events boot-ui has read
  ctrlC        \* whether boot-ui has forwarded a Ctrl+C

engine == <<pc, err, consumer>>
session == <<mode, stdio, listener, ackDone, clientDone, binder>>
stream == <<events, sink, sent>>
peer == <<client, ui, conn, seen, ctrlC>>
vars == <<engine, session, stream, peer>>

Kinds == {"groups", "step", "finish", "finish_error"}
Dead == {"exited", "killed", "inlineOnly"}
UIGone == {"ok", "failed", "unreachable", "interrupted", "lost"}
Gate == {"gate", "ackWait", "clientWait", "killWait", "gateClose"}
Finishing == {"finish", "finishWait", "finishClose", "returned"}

PCs == {"start", "redirect", "spawn", "prepare", "phases", "waitBoot",
        "attach", "agent"} \cup Gate \cup Finishing \cup Dead

TypeOK ==
  /\ pc \in PCs
  /\ err \in {"none", "boot", "agent"}
  /\ consumer \in {"none", "running", "ready", "closed"}
  /\ mode \in {"undecided", "popup", "inline", "skipped"}
  /\ stdio \in {"tty", "log"}
  /\ listener \in {"open", "closed"}
  /\ ackDone \in {"open", "closed"}
  /\ clientDone \in {"empty", "full", "taken"}
  /\ binder \in {"none", "waiting", "done"}
  /\ events \in Seq(Kinds)
  /\ sink \in {"none", "socket", "inline"}
  /\ sent \in 0..Len(events)
  /\ client \in {"none", "running", "killed", "exited"}
  /\ ui \in {"absent", "dialing", "reading", "panel", "dwell", "hold"} \cup UIGone
  /\ conn \in {"none", "backlog", "open", "uiClosed", "eof"}
  /\ seen \in 0..sent
  /\ ctrlC \in {"never", "once"}

Init ==
  /\ pc = "start" /\ err = "none" /\ consumer = "none"
  /\ mode = "undecided" /\ stdio = "tty" /\ listener = "closed"
  /\ ackDone = "open" /\ clientDone = "empty" /\ binder = "none"
  /\ events = <<>> /\ sink = "none" /\ sent = 0
  /\ client = "none" /\ ui = "absent" /\ conn = "none" /\ seen = 0
  /\ ctrlC = "never"

Alive == pc \notin Dead

(***************************************************************************)
(* Finished(): the first finish or finish_error in the log decides.        *)
(***************************************************************************)
Ends(log) == {i \in 1..Len(log) : log[i] \in {"finish", "finish_error"}}
FirstEnd(log, k) == \E i \in Ends(log) : log[i] = k /\ \A j \in Ends(log) : i <= j
Finished == Ends(events) # {}

(***************************************************************************)
(* EventPanel.emit: append, then write to the sink; an event written to a  *)
(* socket boot-ui has closed is lost, and emit only records the error.     *)
(***************************************************************************)
EmitToBoth(ks) ==   \* mutant: the connection is written to whatever sink is bound
  /\ events' = events \o ks
  /\ sent' = IF conn = "open" THEN Len(events \o ks) ELSE sent
  /\ UNCHANGED sink

Emit(ks) ==
  /\ events' = events \o ks
  /\ sent' = IF sink = "socket" /\ conn = "open" THEN Len(events \o ks) ELSE sent
  /\ UNCHANGED sink

\* net.Listener.Close: a connection nobody accepted is reset.
CloseListener ==
  /\ listener' = "closed"
  /\ conn' = IF conn = "backlog" THEN "eof" ELSE conn

\* Process.Kill on the display-popup client.
KillClient == client' = IF client = "running" THEN "killed" ELSE client

AbandonSocketOnly == CloseListener /\ UNCHANGED client   \* mutant: no kill

AbandonClient == CloseListener /\ KillClient

-----------------------------------------------------------------------------
(***************************************************************************)
(* StartPopup: listen, redirect stdio, start the client; each failure      *)
(* undoes what was done and the run continues without a popup.             *)
(***************************************************************************)
Listen ==
  /\ pc = "start"
  /\ \/ pc' = "redirect" /\ listener' = "open"
     \/ pc' = "inlineOnly" /\ UNCHANGED listener
  /\ UNCHANGED <<err, consumer, mode, stdio, ackDone, clientDone, binder, stream, peer>>

RedirectStdio ==
  /\ pc = "redirect"
  /\ \/ pc' = "spawn" /\ stdio' = "log" /\ UNCHANGED <<listener, conn>>
     \/ pc' = "inlineOnly" /\ CloseListener /\ UNCHANGED stdio
  /\ UNCHANGED <<err, consumer, mode, ackDone, clientDone, binder, stream, client, ui, seen, ctrlC>>

StartClient ==
  /\ pc = "spawn"
  /\ \/ pc' = "prepare" /\ client' = "running" /\ UNCHANGED <<stdio, listener, conn>>
     \/ pc' = "inlineOnly" /\ stdio' = "tty" /\ CloseListener /\ UNCHANGED client
  /\ UNCHANGED <<err, consumer, mode, ackDone, clientDone, binder, stream, ui, seen, ctrlC>>

-----------------------------------------------------------------------------
(***************************************************************************)
(* The goroutines of the popup session.                                    *)
(***************************************************************************)
AcceptConn ==
  /\ Alive /\ listener = "open" /\ conn = "backlog"
  /\ conn' = "open"
  /\ UNCHANGED <<engine, session, stream, client, ui, seen, ctrlC>>

Connected == conn \in {"open", "uiClosed"}   \* p.connected is closed

ReadAck ==
  /\ Alive /\ conn = "uiClosed" /\ ackDone = "open"
  /\ ackDone' = "closed"
  /\ UNCHANGED <<engine, mode, stdio, listener, clientDone, binder, stream, peer>>

ReapClient ==
  /\ Alive /\ client = "exited" /\ clientDone = "empty"
  /\ clientDone' = "full"
  /\ UNCHANGED <<engine, mode, stdio, listener, ackDone, binder, stream, peer>>

\* EventPanel.Bind(jsonSink): replay everything; a failed write leaves the
\* sink unset.
BindSocket ==
  /\ UNCHANGED events
  /\ IF conn = "open" THEN sink' = "socket" /\ sent' = Len(events)
                      ELSE UNCHANGED <<sink, sent>>

BinderConnected ==
  /\ Alive /\ binder = "waiting" /\ Connected
  /\ binder' = "done"
  /\ IF mode # "undecided" THEN UNCHANGED <<mode, stream>>
                           ELSE mode' = "popup" /\ BindSocket
  /\ UNCHANGED <<engine, stdio, listener, ackDone, clientDone, peer>>

\* 1.5 s passed: abandon the client, take the tty back, replay inline.
BinderTimeout ==
  /\ Alive /\ binder = "waiting"
  /\ binder' = "done"
  /\ IF mode # "undecided"
     THEN UNCHANGED <<mode, stdio, listener, conn, client, sink>>
     ELSE mode' = "inline" /\ AbandonClient /\ stdio' = "tty" /\ sink' = "inline"
  /\ UNCHANGED <<engine, ackDone, clientDone, events, sent, ui, seen, ctrlC>>

-----------------------------------------------------------------------------
(***************************************************************************)
(* The engine's Run up to the gate.                                        *)
(***************************************************************************)
ReturnFrom(place, e) == pc = place /\ pc' = "finish" /\ err' = e

NewBootView ==
  /\ pc = "prepare" /\ pc' = "phases"
  /\ Emit(<<"groups">>)
  /\ binder' = "waiting"
  /\ UNCHANGED <<err, consumer, mode, stdio, listener, ackDone, clientDone, peer>>

\* An error before NewBootView, or a boot phase that fails.
PhaseFails ==
  /\ ReturnFrom("prepare", "boot") \/ ReturnFrom("phases", "boot")
  /\ UNCHANGED <<consumer, session, stream, peer>>

PhaseStep ==
  /\ pc = "phases" /\ Len(events) < MaxSteps
  /\ Emit(<<"step">>)
  /\ UNCHANGED <<engine, session, peer>>

\* The container already runs: finish, ClearBelowGroups, gate.
AttachRunning ==
  /\ pc = "phases" /\ pc' = "gate"
  /\ Emit(<<"step", "finish", "step">>)
  /\ UNCHANGED <<err, consumer, session, peer>>

StartFails ==
  /\ ReturnFrom("phases", "boot")
  /\ Emit(<<"finish_error">>)
  /\ UNCHANGED <<consumer, session, peer>>

StartContainer ==
  /\ pc = "phases" /\ pc' = "waitBoot"
  /\ consumer' = "running"
  /\ UNCHANGED <<err, session, stream, peer>>

\* ConsumeContainerEventsPanel, in its own goroutine.
ConsumeStep ==
  /\ Alive /\ consumer = "running" /\ Len(events) < MaxSteps
  /\ Emit(<<"step">>)
  /\ UNCHANGED <<engine, session, peer>>

ConsumeReady ==
  /\ Alive /\ consumer = "running" /\ consumer' = "ready"
  /\ Emit(<<"step", "finish">>)
  /\ UNCHANGED <<pc, err, session, peer>>

ConsumeClosed ==
  /\ Alive /\ consumer = "running" /\ consumer' = "closed"
  /\ Emit(<<"finish_error">>)
  /\ UNCHANGED <<pc, err, session, peer>>

BootReadyUnchecked ==   \* mutant: the value of bootDone is dropped
  /\ pc = "waitBoot" /\ consumer \in {"ready", "closed"} /\ pc' = "gate"
  /\ Emit(<<"step">>)
  /\ UNCHANGED <<err, consumer, session, peer>>

BootReady ==
  /\ pc = "waitBoot" /\ consumer = "ready" /\ pc' = "gate"
  /\ Emit(<<"step">>)
  /\ UNCHANGED <<err, consumer, session, peer>>

BootInterrupted ==
  /\ consumer = "closed" /\ ReturnFrom("waitBoot", "boot")
  /\ Emit(<<"finish_error">>)
  /\ UNCHANGED <<consumer, session, peer>>

\* The 90 s timer; select may pick it although bootDone is ready too.
BootTimeout ==
  /\ ReturnFrom("waitBoot", "boot")
  /\ Emit(<<"finish_error">>)
  /\ UNCHANGED <<consumer, session, peer>>

-----------------------------------------------------------------------------
(***************************************************************************)
(* BeforeAttach: the agent gate.                                           *)
(***************************************************************************)
GateUndecided ==
  /\ pc = "gate" /\ mode = "undecided"
  /\ pc' = "attach" /\ mode' = "skipped" /\ stdio' = "tty"
  /\ AbandonClient
  /\ UNCHANGED <<err, consumer, ackDone, clientDone, binder, stream, ui, seen, ctrlC>>

GateInline ==
  /\ pc = "gate" /\ mode \in {"inline", "skipped"}
  /\ pc' = "attach"
  /\ UNCHANGED <<err, consumer, session, stream, peer>>

GatePopup ==
  /\ pc = "gate" /\ mode = "popup"
  /\ pc' = "ackWait"
  /\ UNCHANGED <<err, consumer, session, stream, peer>>

\* The ack, or 5 s without one: the code goes on in both cases.
AwaitAck ==
  /\ pc = "ackWait" /\ pc' = "clientWait"
  /\ UNCHANGED <<err, consumer, session, stream, peer>>

TakeClientDone(from, to) ==
  /\ pc = from /\ clientDone = "full"
  /\ pc' = to /\ clientDone' = "taken"
  /\ UNCHANGED <<err, consumer, mode, stdio, listener, ackDone, binder, stream, peer>>

AwaitClient == TakeClientDone("clientWait", "gateClose")

ClientTimeoutNoWait ==   \* mutant: the killed client is not waited for
  /\ pc = "clientWait" /\ pc' = "gateClose"
  /\ KillClient
  /\ UNCHANGED <<err, consumer, session, stream, ui, conn, seen, ctrlC>>

ClientTimeoutNoKill ==   \* mutant: waits for the client without killing it
  /\ pc = "clientWait" /\ pc' = "killWait"
  /\ UNCHANGED <<err, consumer, session, stream, peer>>

\* 5 s and the client still runs: kill it and wait again.
ClientTimeout ==
  /\ pc = "clientWait" /\ pc' = "killWait"
  /\ KillClient
  /\ UNCHANGED <<err, consumer, session, stream, ui, conn, seen, ctrlC>>

AwaitKilledClient == TakeClientDone("killWait", "gateClose")

GateClose ==
  /\ pc = "gateClose" /\ pc' = "attach"
  /\ stdio' = "tty" /\ CloseListener
  /\ UNCHANGED <<err, consumer, mode, ackDone, clientDone, binder, stream, client, ui, seen, ctrlC>>

(***************************************************************************)
(* The agent: docker exec on the window process's stdio.                   *)
(***************************************************************************)
AgentStarts ==
  /\ pc = "attach" /\ pc' = "agent"
  /\ UNCHANGED <<err, consumer, session, stream, peer>>

AgentStartFails ==
  /\ ReturnFrom("attach", "agent")
  /\ UNCHANGED <<consumer, session, stream, peer>>

\* agentExit: nil for status 0, an ExitError otherwise.
AgentExits ==
  /\ ReturnFrom("agent", "none") \/ ReturnFrom("agent", "agent")
  /\ UNCHANGED <<consumer, session, stream, peer>>

-----------------------------------------------------------------------------
(***************************************************************************)
(* Finish: after Run returned.                                             *)
(***************************************************************************)
FinishUndecided ==
  /\ pc = "finish" /\ mode = "undecided"
  /\ pc' = "finishClose" /\ mode' = "skipped"
  /\ AbandonClient
  /\ UNCHANGED <<err, consumer, stdio, ackDone, clientDone, binder, stream, ui, seen, ctrlC>>

FinishFailedNoWait ==   \* mutant: the popup is not waited for
  /\ pc = "finish" /\ mode = "popup" /\ err # "none"
  /\ pc' = "finishClose"
  /\ IF Finished THEN UNCHANGED stream ELSE Emit(<<"finish_error">>)
  /\ UNCHANGED <<err, consumer, session, peer>>

FinishFailedSilent ==   \* mutant: boot-ui is not told
  /\ pc = "finish" /\ mode = "popup" /\ err # "none"
  /\ pc' = "finishWait"
  /\ UNCHANGED <<err, consumer, session, stream, peer>>

\* With an error in popup mode, tell boot-ui unless it was told, and wait.
FinishFailed ==
  /\ pc = "finish" /\ mode = "popup" /\ err # "none"
  /\ pc' = "finishWait"
  /\ IF Finished THEN UNCHANGED stream ELSE Emit(<<"finish_error">>)
  /\ UNCHANGED <<err, consumer, session, peer>>

FinishQuiet ==
  /\ pc = "finish" /\ mode # "undecided" /\ (mode = "popup" => err = "none")
  /\ pc' = "finishClose"
  /\ UNCHANGED <<err, consumer, session, stream, peer>>

FinishAwaitClient == TakeClientDone("finishWait", "finishClose")

FinishClose ==
  /\ pc = "finishClose" /\ pc' = "returned"
  /\ stdio' = "tty" /\ CloseListener
  /\ UNCHANGED <<err, consumer, mode, ackDone, clientDone, binder, stream, client, ui, seen, ctrlC>>

\* The kernel closes the dead process's end of the socket.
ProcessGone(how) ==
  /\ pc' = how
  /\ listener' = "closed"
  /\ conn' = IF conn \in {"backlog", "open"} THEN "eof" ELSE conn

ProcessExit ==
  /\ pc = "returned" /\ ProcessGone("exited")
  /\ UNCHANGED <<err, consumer, mode, stdio, ackDone, clientDone, binder, stream, client, ui, seen, ctrlC>>

-----------------------------------------------------------------------------
(***************************************************************************)
(* tmux.                                                                   *)
(***************************************************************************)
UISpawn ==
  /\ client \in {"running", "killed"} /\ ui = "absent"
  /\ ui' = "dialing"
  /\ UNCHANGED <<engine, session, stream, client, conn, seen, ctrlC>>

\* tmux refuses the popup: the client exits and boot-ui never runs.
PopupRefused ==
  /\ client = "running" /\ ui = "absent"
  /\ client' = "exited"
  /\ UNCHANGED <<engine, session, stream, ui, conn, seen, ctrlC>>

\* -E: the popup closes with its command, the client with the popup.
ClientExits ==
  /\ client = "killed" \/ (client = "running" /\ ui \in UIGone)
  /\ client' = "exited"
  /\ UNCHANGED <<engine, session, stream, ui, conn, seen, ctrlC>>

(***************************************************************************)
(* boot-ui.                                                                *)
(***************************************************************************)
UIExits(code) ==
  /\ ui' = code
  /\ conn' = IF conn \in {"backlog", "open"} THEN "uiClosed" ELSE conn

\* A popup whose client was killed may be closed under boot-ui, or not.
UILost ==
  /\ client \in {"killed", "exited"} /\ ui \notin UIGone \cup {"absent"}
  /\ UIExits("lost")
  /\ UNCHANGED <<engine, session, stream, client, seen, ctrlC>>

UIDials ==
  /\ ui = "dialing" /\ listener = "open"
  /\ ui' = "reading" /\ conn' = "backlog"
  /\ UNCHANGED <<engine, session, stream, client, seen, ctrlC>>

UIUnreachable ==
  /\ ui = "dialing" /\ listener = "closed"
  /\ UIExits("unreachable")
  /\ UNCHANGED <<engine, session, stream, client, seen, ctrlC>>

\* What boot-ui does with the next event.
After(kind) ==
  CASE ui = "reading" -> IF kind = "groups" THEN "panel" ELSE "failed"
    [] ui # "reading" /\ kind = "finish" -> "dwell"
    [] ui # "reading" /\ kind = "finish_error" -> "hold"
    [] OTHER -> "panel"

UIReads ==
  /\ ui \in {"reading", "panel"} /\ seen < sent
  /\ seen' = seen + 1
  /\ LET next == After(events[seen + 1])
     IN IF next = "failed" THEN UIExits(next) ELSE ui' = next /\ UNCHANGED conn
  /\ UNCHANGED <<engine, session, stream, client, ctrlC>>

UIEof ==
  /\ ui \in {"reading", "panel"} /\ seen = sent /\ conn = "eof"
  /\ ui' = IF ui = "reading" THEN "failed" ELSE "hold"
  /\ UNCHANGED <<engine, session, stream, client, conn, seen, ctrlC>>

UIDwellOver ==
  /\ ui = "dwell" /\ UIExits("ok")
  /\ UNCHANGED <<engine, session, stream, client, seen, ctrlC>>

(***************************************************************************)
(* The user.  A Ctrl+C on the held panel is a key: waitKey is in raw mode. *)
(***************************************************************************)
PressKey ==
  /\ ui = "hold" /\ UIExits("failed")
  /\ UNCHANGED <<engine, session, stream, client, seen, ctrlC>>

\* boot-ui forwards the first Ctrl+C; until the agent's exec installs a
\* handler SIGINT ends the window process.
CtrlC ==
  /\ ui \in {"dialing", "reading", "panel", "dwell"}
  /\ ctrlC' = "once"
  /\ \/ /\ Alive /\ pc # "agent"
        /\ ProcessGone("killed")
     \/ /\ ~Alive \/ pc \in {"attach", "agent"}
        /\ UNCHANGED <<pc, listener, conn>>
  /\ UNCHANGED <<err, consumer, mode, stdio, ackDone, clientDone, binder, stream, client, ui, seen>>

\* The second Ctrl+C within two seconds.
ForceQuit ==
  /\ ctrlC = "once"
  /\ \/ ui \in {"reading", "panel"} /\ UIExits("interrupted")
     \/ ui = "dwell" /\ UIExits("ok")
  /\ UNCHANGED <<engine, session, stream, client, seen, ctrlC>>

-----------------------------------------------------------------------------
StartPopup == Listen \/ RedirectStdio \/ StartClient
Goroutines == AcceptConn \/ ReadAck \/ ReapClient \/ BinderConnected \/ BinderTimeout
Boot == \/ NewBootView \/ PhaseFails \/ PhaseStep \/ AttachRunning \/ StartFails
        \/ StartContainer \/ BootReady \/ BootInterrupted \/ BootTimeout
Consumer == ConsumeStep \/ ConsumeReady \/ ConsumeClosed
BeforeAttach == \/ GateUndecided \/ GateInline \/ GatePopup \/ AwaitAck \/ AwaitClient
                \/ ClientTimeout \/ AwaitKilledClient \/ GateClose
Agent == AgentStarts \/ AgentStartFails \/ AgentExits
Finish == \/ FinishUndecided \/ FinishFailed \/ FinishQuiet \/ FinishAwaitClient
          \/ FinishClose \/ ProcessExit
Tmux == UISpawn \/ PopupRefused \/ ClientExits \/ UILost
BootUI == UIDials \/ UIUnreachable \/ UIReads \/ UIEof \/ UIDwellOver
User == PressKey \/ CtrlC \/ ForceQuit

Next == \/ StartPopup \/ Goroutines \/ Boot \/ Consumer \/ BeforeAttach
        \/ Agent \/ Finish \/ Tmux \/ BootUI \/ User

Spec == Init /\ [][Next]_vars

(***************************************************************************)
(* What the code's scheduling gives: its goroutines run, its timers fire,  *)
(* a killed client dies.  Nothing is promised of the boot phases, of the   *)
(* container or of the agent.                                              *)
(***************************************************************************)
ProgramFairness ==
  /\ WF_vars(Goroutines) /\ WF_vars(BeforeAttach) /\ WF_vars(Finish)
  /\ WF_vars(ReapClient) /\ WF_vars(ClientExits)

GateSpec == Spec /\ ProgramFairness

\* Also: boot-ui runs, and a user looking at a failed boot presses a key.
UIFairness == WF_vars(BootUI) /\ WF_vars(PressKey)

LiveSpec == GateSpec /\ UIFairness

-----------------------------------------------------------------------------
(***************************************************************************)
(* One writer on the terminal: as long as the popup client runs, the       *)
(* window process's stdio points at the log, however the boot timer, the   *)
(* connection, a boot failure and the gate interleave.                     *)
(***************************************************************************)
OneTerminalWriter == client = "running" => stdio = "log"

(***************************************************************************)
(* The agent owns the terminal: it starts only with stdio on the tty and   *)
(* the client dead (exited if boot-ui had taken the panel, at least killed *)
(* if not), and only after a boot whose first verdict was a finish.        *)
(***************************************************************************)
AgentOwnsTerminal ==
  pc = "agent" =>
    /\ stdio = "tty" /\ client \in {"killed", "exited"}
    /\ mode = "popup" => client = "exited"
    /\ FirstEnd(events, "finish")

\* Never two panels: once the inline panel is bound, boot-ui, even if it
\* connects in the same instant, is never given an event to draw.
OnePanel == sink = "inline" => ui \notin {"panel", "dwell", "hold"} /\ sent = 0

(***************************************************************************)
(* A failure is acknowledged: when the process has returned a boot error   *)
(* that was the log's first verdict while boot-ui showed the panel, the    *)
(* user closed the panel with a key or a double Ctrl+C.                    *)
(***************************************************************************)
FailureAcknowledged ==
  (pc \in {"returned", "exited"} /\ mode = "popup" /\ err = "boot" /\ FirstEnd(events, "finish_error"))
    => ui \in {"failed", "interrupted"}

\* The connection, the 1.5 s timer, the gate and Finish race for the mode;
\* whoever wins, nobody decides a second time.
ModeDecidedOnce == [][mode # "undecided" => mode' = mode]_vars

\* The gate opens whatever boot-ui does (never acks, never exits, ignores
\* its socket): two 5 s timers and a kill bound the wait.
GateOpens == pc = "gate" ~> pc \in {"attach", "killed"}

\* A run that failed to boot or whose agent exited with status 0 ends: its
\* process returns, if boot-ui runs and the user presses the key that a held
\* panel asks for.
RunReturns == UIFairness => ((pc = "finish" /\ err # "agent") ~> ~Alive)

(***************************************************************************)
(* The protocol implements its promise: the cover is the client together   *)
(* with the redirection of stdio, and the verdict is the log's first end.  *)
(***************************************************************************)
Stage ==
  IF pc = "agent" THEN "agent" ELSE IF pc \in Finishing \cup Dead THEN "over" ELSE "booting"

Verdict ==
  IF ~Finished THEN "none" ELSE IF FirstEnd(events, "finish") THEN "ready" ELSE "failed"

Cover ==
  IF client = "none" THEN "unused"
  ELSE IF client = "running" \/ stdio = "log" THEN "up" ELSE "down"

Promise == INSTANCE BootGate WITH stage <- Stage, verdict <- Verdict, cover <- Cover

KeepsPromise == Promise!Spec

(***************************************************************************)
(* popup.go, Finish: "on success everything was already torn down by       *)
(* BeforeAttach", and docs/cage.md: "When the agent exits the window       *)
(* closes and tmux exits", also when the agent's status is not 0.          *)
(***************************************************************************)
AgentExitReturns == (pc = "finish" /\ err = "agent") ~> ~Alive
=============================================================================
