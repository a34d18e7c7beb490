------------------------------- MODULE BootLog -------------------------------
(***************************************************************************)
(* How the engine follows a container's boot (container_log_watcher.go,    *)
(* ConsumeContainerEventsPanel, and their use in run.go): a reader         *)
(* goroutine turns the lines of docker logs into events on a bounded       *)
(* channel, a consumer takes events until boot.ready or the channel's end, *)
(* and the engine waits for the consumer or for 90 s.  The watcher is      *)
(* closed when the boot times out, and by a defer when Run returns.        *)
(*                                                                         *)
(* A line longer than the scanner's 64 KiB stops the reader: it waits for  *)
(* docker logs to end, and nothing that follows the line is read.          *)
(***************************************************************************)
EXTENDS Naturals, Sequences

CONSTANTS
  Cap,        \* capacity of the event channel, at least 1 (64 in the code)
  MaxEvents   \* bound on the JSON events the container logs

ASSUME LogAssumption == Cap \in Nat \ {0} /\ MaxEvents \in Nat

VARIABLES
  container,  \* "running" or "stopped"
  logged,     \* events the container has logged so far
  pipe,       \* what was logged and not scanned: events, "ready", "long" lines
  reader,     \* "scan", "send" (an event in hand), "wait" (cmd.Wait), "done"
  hand,       \* the event in hand
  out,        \* the channel
  follow,     \* docker logs: "alive", "gone", "failed" (it could not be started)
  consumer,   \* "running", "ready" or "closed": the value sent on bootDone
  main        \* the engine's Run: "boot", "session", "closing", "returned"

logVars == <<container, logged, pipe, reader, hand, out, follow, consumer, main>>

Events == {"event", "ready"}
Lines == Events \union {"long"}

LogTypes ==
  /\ container \in {"running", "stopped"}
  /\ logged \in 0..MaxEvents
  /\ pipe \in Seq(Lines)
  /\ reader \in {"scan", "send", "wait", "done"}
  /\ hand \in Events
  /\ out \in Seq(Events) /\ Len(out) <= Cap
  /\ follow \in {"alive", "gone", "failed"}
  /\ consumer \in {"running", "ready", "closed"}
  /\ main \in {"boot", "session", "closing", "returned"}

\* Without a pipe or a process both channels are closed at once.
LogInit ==
  /\ container = "running" /\ logged = 0 /\ pipe = <<>>
  /\ \/ reader = "scan" /\ follow = "alive"
     \/ reader = "done" /\ follow = "failed"
  /\ hand = "event" /\ out = <<>>
  /\ consumer = "running" /\ main = "boot"

-----------------------------------------------------------------------------
(* The container logs: its services go on logging after boot.ready. *)
Log ==
  /\ container = "running" /\ follow = "alive" /\ logged < MaxEvents
  /\ \E line \in Lines : pipe' = Append(pipe, line)
  /\ logged' = logged + 1
  /\ UNCHANGED <<container, reader, hand, out, follow, consumer, main>>

Stop ==
  /\ container = "running" /\ container' = "stopped"
  /\ UNCHANGED <<logged, pipe, reader, hand, out, follow, consumer, main>>

\* docker logs ends with the container, or is killed.
FollowEnds ==
  /\ follow = "alive" /\ follow' = "gone"
  /\ UNCHANGED <<container, logged, pipe, reader, hand, out, consumer, main>>

-----------------------------------------------------------------------------
(* watchReader; a line that is no event is skipped, so it is not modelled. *)
Scan ==
  /\ reader = "scan" /\ pipe # <<>> /\ Head(pipe) # "long"
  /\ reader' = "send" /\ hand' = Head(pipe) /\ pipe' = Tail(pipe)
  /\ UNCHANGED <<container, logged, out, follow, consumer, main>>

SendEvent ==
  /\ reader = "send" /\ Len(out) < Cap
  /\ out' = Append(out, hand) /\ reader' = "scan"
  /\ UNCHANGED <<container, logged, pipe, hand, follow, consumer, main>>

ScanStuck ==   \* mutant: the scanner ends only with the container
  /\ reader = "scan" /\ pipe = <<>> /\ container = "stopped"
  /\ reader' = "wait"
  /\ UNCHANGED <<container, logged, pipe, hand, out, follow, consumer, main>>

ScanEnds ==
  /\ reader = "scan" /\ pipe = <<>> /\ follow = "gone"
  /\ reader' = "wait"
  /\ UNCHANGED <<container, logged, pipe, hand, out, follow, consumer, main>>

\* The scanner gives up, and leaves the rest in the pipe.
ScanTooLong ==
  /\ reader = "scan" /\ pipe # <<>> /\ Head(pipe) = "long"
  /\ reader' = "wait"
  /\ UNCHANGED <<container, logged, pipe, hand, out, follow, consumer, main>>

\* Mutant: docker logs is not waited for.
ReaderDoneNoWait ==
  /\ reader = "wait" /\ reader' = "done"
  /\ UNCHANGED <<container, logged, pipe, hand, out, follow, consumer, main>>

\* cmd.Wait, which waits for docker logs, then the defers: close(out), close(done).
ReaderDone ==
  /\ reader = "wait" /\ follow = "gone" /\ reader' = "done"
  /\ UNCHANGED <<container, logged, pipe, hand, out, follow, consumer, main>>

-----------------------------------------------------------------------------
(* ConsumeContainerEventsPanel. *)
Consume ==
  /\ consumer = "running" /\ out # <<>>
  /\ out' = Tail(out)
  /\ consumer' = IF Head(out) = "ready" THEN "ready" ELSE consumer
  /\ UNCHANGED <<container, logged, pipe, reader, hand, follow, main>>

ConsumeEnds ==
  /\ consumer = "running" /\ out = <<>> /\ reader = "done"
  /\ consumer' = "closed"
  /\ UNCHANGED <<container, logged, pipe, reader, hand, out, follow, main>>

-----------------------------------------------------------------------------
(* Close: cancel kills docker logs, then wait for the reader. *)
CancelFollow ==
  main' = "closing" /\ follow' = IF follow = "alive" THEN "gone" ELSE follow

BootReady ==
  /\ main = "boot" /\ consumer = "ready" /\ main' = "session"
  /\ UNCHANGED <<container, logged, pipe, reader, hand, out, follow, consumer>>

BootInterrupted ==
  /\ main = "boot" /\ consumer = "closed" /\ CancelFollow
  /\ UNCHANGED <<container, logged, pipe, reader, hand, out, consumer>>

BootTimeout ==
  /\ main = "boot" /\ CancelFollow
  /\ UNCHANGED <<container, logged, pipe, reader, hand, out, consumer>>

\* The agent exited; a oneshot container was told to stop; Run's defers run.
SessionEnds ==
  /\ main = "session" /\ CancelFollow
  /\ UNCHANGED <<container, logged, pipe, reader, hand, out, consumer>>

Closed ==
  /\ main = "closing" /\ reader = "done"
  /\ main' = "returned"
  /\ UNCHANGED <<container, logged, pipe, reader, hand, out, follow, consumer>>

-----------------------------------------------------------------------------
Reader == Scan \/ SendEvent \/ ScanEnds \/ ScanTooLong \/ ReaderDone
Consumer == Consume \/ ConsumeEnds
Main == BootReady \/ BootInterrupted \/ BootTimeout \/ SessionEnds \/ Closed

LogNext == Log \/ Stop \/ FollowEnds \/ Reader \/ Consumer \/ Main

LogSpec == LogInit /\ [][LogNext]_logVars

\* Goroutines run; nothing is promised of the container or of the timer.
LogLiveSpec == LogSpec /\ WF_logVars(Reader) /\ WF_logVars(Consumer) /\ WF_logVars(Closed)

-----------------------------------------------------------------------------
(***************************************************************************)
(* A boot is interrupted only when docker logs is over, or was never       *)
(* started, and everything that the scanner can read of it was consumed:   *)
(* all of it, or all before a line that is too long.  None of that was     *)
(* boot.ready.                                                             *)
(***************************************************************************)
InterruptedOnlyAtEnd ==
  consumer = "closed" =>
    /\ follow # "alive" /\ out = <<>>
    /\ pipe = <<>> \/ Head(pipe) = "long"

(***************************************************************************)
(* Closing the watcher while the consumer still reads (a boot that timed   *)
(* out) always returns: the consumer drains the channel.                   *)
(***************************************************************************)
CloseReturnsAfterTimeout ==
  (main = "closing" /\ consumer = "running") ~> (main = "returned" \/ consumer = "ready")

=============================================================================
