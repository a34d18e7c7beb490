------------------------------ MODULE StreamPipe ------------------------------
(***************************************************************************)
(* A streamed answer of `cell serve` (internal/serve: exec_stream.go,      *)
(* claude_stream.go, sse_chat.go, sse_responses.go).                       *)
(*                                                                         *)
(*   claude -> stdout pipe -> scanner -> channel -> wrapper -> channel     *)
(*          -> pump -> HTTP client                                         *)
(*                                                                         *)
(* The scanner decodes lines, the wrapper forwards them and joins the      *)
(* subprocess, the pump writes server-sent events.  The pump returns at    *)
(* the first terminal event or when the client has left; its return, like  *)
(* the client's leaving, cancels the context, which kills claude.          *)
(***************************************************************************)
EXTENDS Naturals, Sequences

CONSTANTS ChannelCap,  \* capacity of each of the two channels (16 in the code)
          MaxLines     \* bound on the lines claude writes

ASSUME StreamAssumption == ChannelCap \in Nat \ {0} /\ MaxLines \in Nat

VARIABLES
  cli,         \* the subprocess: running, its exit status, or killed
  lastWord,    \* what its last line is, if it is a result
  said,        \* how many lines it wrote; they are numbered from 1
  stdout,      \* lines not scanned yet
  scanner,     \* the goroutine of scanClaudeStream
  inHand,      \* the line it is about to send
  scanned,     \* its channel
  wrapper,     \* the goroutine of streamClaude
  outHand,     \* the event it is about to send
  events,      \* its channel; closed once the goroutine is done
  pump,        \* pumpChatSSE or pumpResponsesSSE
  shown,       \* the text deltas written to the client
  terminal,    \* how the client was told that the answer ended
  client       \* the HTTP client

process == <<cli, lastWord, said, stdout>>
scanning == <<scanner, inHand, scanned>>
joining == <<wrapper, outHand, events>>
answer == <<pump, shown, terminal>>
streamVars == <<process, scanning, joining, answer, client>>

Failure == 0   \* the event of kind StreamEventError; lines have other numbers

StreamInit ==
  /\ cli = "running" /\ lastWord = "none" /\ said = 0 /\ stdout = <<>>
  /\ scanner = "scan" /\ inHand = 0 /\ scanned = <<>>
  /\ wrapper = "range" /\ outHand = 0 /\ events = <<>>
  /\ pump = "pumping" /\ shown = <<>> /\ terminal = "none"
  /\ client = "connected"

\* The context given to the subprocess.
Cancelled == client = "gone" \/ pump = "returned"

-----------------------------------------------------------------------------
(* claude: text deltas, then a result, which may have is_error set.  Lines  *)
(* that decode to no event, and the markers around a message, are left out. *)
ClaudeWrites ==
  /\ cli = "running" /\ lastWord = "none" /\ said < MaxLines
  /\ said' = said + 1
  /\ stdout' = Append(stdout, said + 1)
  /\ lastWord' \in {"none", "result", "is_error"}
  /\ UNCHANGED <<cli, scanning, joining, answer, client>>

\* It exits, with or without a result.
ClaudeExits ==
  /\ cli = "running"
  /\ cli' \in {"zero", "nonzero"}
  /\ UNCHANGED <<lastWord, said, stdout, scanning, joining, answer, client>>

\* exec.CommandContext.
ClaudeKilled ==
  /\ cli = "running" /\ Cancelled
  /\ cli' = "killed"
  /\ UNCHANGED <<lastWord, said, stdout, scanning, joining, answer, client>>

-----------------------------------------------------------------------------
(* scanClaudeStream.                                                         *)
ScanLine ==
  /\ scanner = "scan" /\ stdout # <<>>
  /\ scanner' = "send" /\ inHand' = Head(stdout) /\ stdout' = Tail(stdout)
  /\ UNCHANGED <<cli, lastWord, said, scanned, joining, answer, client>>

\* A line longer than the scanner's buffer: sc.Err().
LineTooLong ==
  /\ scanner = "scan" /\ stdout # <<>>
  /\ scanner' = "fail" /\ inHand' = Failure
  /\ UNCHANGED <<process, scanned, joining, answer, client>>

\* Mutant: a full channel drops the event.
SendScannedOrDrop ==
  /\ scanner \in {"send", "fail"}
  /\ scanned' = IF Len(scanned) < ChannelCap THEN Append(scanned, inHand) ELSE scanned
  /\ scanner' = IF scanner = "send" THEN "scan" ELSE "closed"
  /\ UNCHANGED <<process, inHand, joining, answer, client>>

SendScanned ==
  /\ scanner \in {"send", "fail"} /\ Len(scanned) < ChannelCap
  /\ scanned' = Append(scanned, inHand)
  /\ scanner' = IF scanner = "send" THEN "scan" ELSE "closed"
  /\ UNCHANGED <<process, inHand, joining, answer, client>>

\* Mutant: the subprocess's end is taken for the end of its output.
ScanEofEarly ==
  /\ scanner = "scan" /\ cli # "running"
  /\ scanner' = "closed"
  /\ UNCHANGED <<process, inHand, scanned, joining, answer, client>>

\* The pipe is at its end once the process is gone and all is read.
ScanEof ==
  /\ scanner = "scan" /\ stdout = <<>> /\ cli # "running"
  /\ scanner' = "closed"
  /\ UNCHANGED <<process, inHand, scanned, joining, answer, client>>

-----------------------------------------------------------------------------
(* streamClaude's goroutine.                                                 *)
Take ==
  /\ wrapper = "range" /\ scanned # <<>>
  /\ wrapper' = "send" /\ outHand' = Head(scanned) /\ scanned' = Tail(scanned)
  /\ UNCHANGED <<process, scanner, inHand, events, answer, client>>

SendOut ==
  /\ wrapper = "send" /\ Len(events) < ChannelCap
  /\ events' = Append(events, outHand) /\ wrapper' = "range"
  /\ UNCHANGED <<process, scanning, outHand, answer, client>>

RangeEnds ==
  /\ wrapper = "range" /\ scanned = <<>> /\ scanner = "closed"
  /\ wrapper' = "wait"
  /\ UNCHANGED <<process, scanning, outHand, events, answer, client>>

\* Mutant: the exit status is ignored.
WaitIgnored ==
  /\ wrapper = "wait" /\ cli # "running"
  /\ wrapper' = "done"
  /\ UNCHANGED <<process, scanning, outHand, events, answer, client>>

\* cmd.Wait: reaps the process; an error is forwarded unless it is the
\* cancellation's.
Wait ==
  /\ wrapper = "wait" /\ cli # "running"
  /\ wrapper' = IF cli = "zero" \/ Cancelled THEN "done" ELSE "warn"
  /\ UNCHANGED <<process, scanning, outHand, events, answer, client>>

SendFailure ==
  /\ wrapper = "warn" /\ Len(events) < ChannelCap
  /\ events' = Append(events, Failure) /\ wrapper' = "done"
  /\ UNCHANGED <<process, scanning, outHand, answer, client>>

-----------------------------------------------------------------------------
(* The pump: one select over the context, the heartbeat and the channel.    *)
End(how) == pump' = "returned" /\ terminal' = how

\* The result is claude's last line. A result with is_error decodes to a
\* Final that does not carry it, so the pump takes it for a success.
IsResult(line) == line # Failure /\ lastWord # "none" /\ line = said

\* Mutant: the answer is taken for complete at the first event.
PumpEventEager ==
  /\ pump = "pumping" /\ events # <<>>
  /\ events' = Tail(events)
  /\ End("completed") /\ UNCHANGED shown
  /\ UNCHANGED <<process, scanning, wrapper, outHand, client>>

PumpEvent ==
  /\ pump = "pumping" /\ events # <<>>
  /\ events' = Tail(events)
  /\ IF Head(events) = Failure THEN End("failed") /\ UNCHANGED shown
     ELSE IF IsResult(Head(events)) THEN End("completed") /\ UNCHANGED shown
     ELSE shown' = Append(shown, Head(events)) /\ UNCHANGED <<pump, terminal>>
  /\ UNCHANGED <<process, scanning, wrapper, outHand, client>>

\* Mutant: no terminal event when the channel closes.
PumpClosedSilent ==
  /\ pump = "pumping" /\ events = <<>> /\ wrapper = "done"
  /\ End("none")
  /\ UNCHANGED <<process, scanning, joining, shown, client>>

PumpClosed ==
  /\ pump = "pumping" /\ events = <<>> /\ wrapper = "done"
  /\ End("completed")
  /\ UNCHANGED <<process, scanning, joining, shown, client>>

PumpCancelled ==
  /\ pump = "pumping" /\ client = "gone"
  /\ pump' = "returned"
  /\ UNCHANGED <<process, scanning, joining, shown, terminal, client>>

ClientLeaves ==
  /\ client = "connected" /\ client' = "gone"
  /\ UNCHANGED <<process, scanning, joining, answer>>

-----------------------------------------------------------------------------
Claude == ClaudeWrites \/ ClaudeExits \/ ClaudeKilled
Scanner == ScanLine \/ LineTooLong \/ SendScanned \/ ScanEof
Wrapper == Take \/ SendOut \/ RangeEnds \/ Wait \/ SendFailure
Pump == PumpEvent \/ PumpClosed \/ PumpCancelled

StreamNext == Claude \/ Scanner \/ Wrapper \/ Pump \/ ClientLeaves

StreamSpec == StreamInit /\ [][StreamNext]_streamVars

\* Goroutines run and a cancelled context kills; claude owes nothing.
StreamLiveSpec == StreamSpec /\ WF_streamVars(Scanner) /\ WF_streamVars(Wrapper) /\ WF_streamVars(Pump) /\ WF_streamVars(ClaudeKilled)

-----------------------------------------------------------------------------
(* Properties.                                                              *)

EventNumbers == 0 .. MaxLines

\* The types of the processes, the channels and what is shown.
StreamTypes ==
  /\ cli \in {"running", "zero", "nonzero", "killed"}
  /\ lastWord \in {"none", "result", "is_error"}
  /\ said \in 0 .. MaxLines
  /\ stdout \in Seq(EventNumbers)
  /\ scanner \in {"scan", "send", "fail", "closed"}
  /\ inHand \in EventNumbers
  /\ scanned \in Seq(EventNumbers) /\ Len(scanned) <= ChannelCap
  /\ wrapper \in {"range", "send", "wait", "warn", "done"}
  /\ outHand \in EventNumbers
  /\ events \in Seq(EventNumbers) /\ Len(events) <= ChannelCap
  /\ pump \in {"pumping", "returned"}
  /\ shown \in Seq(EventNumbers)
  /\ terminal \in {"none", "completed", "failed"}
  /\ client \in {"connected", "gone"}

\* The client reads the answer from its start, no delta lost, doubled or
\* reordered by the two channels and their goroutines.
InOrder == \A i \in 1 .. Len(shown) : shown[i] = i

\* An answer that ended as completed is whole: claude wrote a result or
\* exited with 0, and every delta it wrote was shown.
CompletedIsWhole ==
  terminal = "completed" /\ client = "connected" =>
    \/ lastWord # "none" /\ Len(shown) = said - 1
    \/ lastWord = "none" /\ cli = "zero" /\ Len(shown) = said

\* "failed" if the agent exited non-zero (responses.go): the status that a
\* client is given and the exit status agree.
FailedIfExitedNonZero ==
  cli = "nonzero" /\ client = "connected" => terminal # "completed"

\* A client that stays is told how the answer ended, however claude exits.
Answered == cli # "running" ~> (terminal # "none" \/ client = "gone")

\* While the client stays, nothing is left behind when the subprocess has
\* ended: it is reaped and both goroutines return.
ReapedWhenHeard == cli # "running" ~> (wrapper = "done" \/ client = "gone")

=============================================================================
