----------------------------- MODULE PtySession -----------------------------
(***************************************************************************)
(* `cell serve --pty` (internal/serve/pty_exec.go on internal/ptyctl): all *)
(* requests type their prompts into one agent session in a virtual         *)
(* terminal, and read the answer off the screen, which is over when the    *)
(* screen has not changed for two seconds.                                 *)
(*                                                                         *)
(* A screen is the sequence of the pieces of text the agent has written to *)
(* it, each named by the request it answers and a row of its own.  The     *)
(* terminal shows the last Rows of them, 500 in the code, and keeps no     *)
(* others.                                                                 *)
(***************************************************************************)
EXTENDS Naturals, Sequences

CONSTANTS PtyRequests,
          Rows,          \* of the terminal
          MaxPieces,     \* bound on the pieces of an answer
          MaxSessions,   \* bound on the sessions started
          Nobody

ASSUME PtyAssumption ==
    /\ MaxPieces \in Nat /\ MaxSessions \in Nat /\ Rows \in Nat \ {0}
    /\ Nobody \notin PtyRequests

VARIABLES
    claude,  \* the session: its life, screen, the pieces it has yet to write,
             \* whether it wiped something of its own since the last snapshot
    lock,    \* the request that holds the executor's mutex, or Nobody
    req,     \* per request; apart: its answer was cut from the rest of the screen
    server   \* "up", "closing" or "closed"

ptyVars == <<claude, lock, req, server>>

Holding == {"locked", "starting", "snapshot", "send", "sent"}
Turns == {"idle", "waiting", "answered", "failed"} \cup Holding

PtyTypes ==
    /\ claude \in [life : {"none", "starting", "up", "dead"}, pause : {"yes", "no"},
                   wiped : {"yes", "no"}, screen : Seq(PtyRequests), todo : Seq(PtyRequests), number : 0 .. MaxSessions]
    /\ lock \in PtyRequests \cup {Nobody}
    /\ req \in [PtyRequests -> [pc : Turns, before : Nat, wants : 0 .. MaxPieces,
                                answer : Seq(PtyRequests), cut : {"yes", "no"},
                                apart : {"yes", "no"}]]
    /\ server \in {"up", "closing", "closed"}

NoAgent(life, number) ==
    [life |-> life, pause |-> "no", wiped |-> "no", screen |-> <<>>, todo |-> <<>>, number |-> number]

PtyInit ==
    /\ claude = NoAgent("none", 0)
    /\ lock = Nobody
    /\ req = [r \in PtyRequests |->
                [pc |-> "idle", before |-> 0, wants |-> 0, answer |-> <<>>, cut |-> "no",
                 apart |-> "no"]]
    /\ server = "up"

Turn(r, pc) == req' = [req EXCEPT ![r].pc = pc]

-----------------------------------------------------------------------------
(* pty_exec.go *)

Arrive(r) ==
    /\ req[r].pc = "idle" /\ server # "closed"
    /\ Turn(r, "waiting")
    /\ UNCHANGED <<claude, lock, server>>

\* Mutant: the mutex guards the start of the session only.
LockAnyway(r) ==
    /\ req[r].pc = "waiting"
    /\ \A s \in PtyRequests : req[s].pc \notin {"locked", "starting"}
    /\ lock' = r
    /\ Turn(r, "locked")
    /\ UNCHANGED <<claude, server>>
Lock(r) ==
    /\ req[r].pc = "waiting" /\ lock = Nobody
    /\ lock' = r
    /\ Turn(r, "locked")
    /\ UNCHANGED <<claude, server>>

\* A session that lives is used as it is.  One whose process has exited is
\* replaced, once its exit has been reported; nothing starts once the executor's context is cancelled.
EnsureStarted(r) ==
    /\ req[r].pc = "locked"
    /\ \/ claude.life \in {"up", "dead"} /\ Turn(r, "snapshot") /\ UNCHANGED <<claude, lock>>
       \/ /\ claude.life # "up" /\ server # "closed" /\ claude.number < MaxSessions
          /\ claude' = NoAgent("starting", claude.number + 1)
          /\ Turn(r, "starting") /\ UNCHANGED lock
       \/ /\ claude.life # "up"
          /\ claude' = NoAgent("none", claude.number)
          /\ Turn(r, "failed") /\ lock' = Nobody
    /\ UNCHANGED server

\* Thirty seconds for the marker on the screen.
Ready(r) ==
    /\ req[r].pc = "starting" /\ claude.life = "starting"
    /\ claude' = [claude EXCEPT !.life = "up"]
    /\ Turn(r, "snapshot")
    /\ UNCHANGED <<lock, server>>
NotReady(r) ==
    /\ req[r].pc = "starting"
    /\ claude' = NoAgent("none", claude.number)
    /\ Turn(r, "failed") /\ lock' = Nobody
    /\ UNCHANGED server

\* The screen is remembered, then the prompt is typed; the agent answers in
\* some number of pieces after what it has yet to write.
Snapshot(r) ==
    /\ req[r].pc = "snapshot"
    /\ req' = [req EXCEPT ![r].before = Len(claude.screen), ![r].pc = "send"]
    /\ claude' = [claude EXCEPT !.wiped = "no"]
    /\ UNCHANGED <<lock, server>>

SendLine(r) ==
    /\ req[r].pc = "send"
    /\ \/ \E n \in 1 .. MaxPieces :
            /\ req' = [req EXCEPT ![r].pc = "sent", ![r].wants = n]
            /\ claude' = IF claude.life = "up"
                         THEN [claude EXCEPT !.todo = @ \o [i \in 1 .. n |-> r]] ELSE claude
            /\ UNCHANGED lock
       \/ claude.life = "dead" /\ Turn(r, "failed") /\ lock' = Nobody /\ UNCHANGED claude
    /\ UNCHANGED server

\* extractResponse: the rows from the first that differs from the one
\* remembered in its place.  Once the screen has scrolled that is the topmost,
\* and where the difference is only in what was wiped, all rows are returned:
\* earlier requests' answers with them.
Visible ==
    LET n == Len(claude.screen) IN SubSeq(claude.screen, IF n > Rows THEN n - Rows + 1 ELSE 1, n)
Apart(r) == req[r].before < Len(claude.screen) /\ Len(claude.screen) <= Rows
Extract(r) ==
    IF Apart(r) THEN SubSeq(claude.screen, req[r].before + 1, Len(claude.screen)) ELSE Visible
Return(r, pc) ==
    /\ req' = [req EXCEPT ![r] =
          [@ EXCEPT !.pc = pc, !.answer = Extract(r),
                    !.apart = IF Apart(r) THEN "yes" ELSE "no",
                    !.cut = IF claude.todo # <<>> \/ claude.life # "up" THEN "yes" ELSE "no"]]
    /\ lock' = Nobody
    /\ UNCHANGED <<claude, server>>

\* The screen has changed since and has not for two seconds: the agent is
\* done, dead, or thinking.
Stable(r) ==
    /\ req[r].pc = "sent"
    /\ Len(claude.screen) > req[r].before \/ claude.wiped = "yes"
    /\ claude.todo = <<>> \/ claude.life # "up" \/ claude.pause = "yes"
    /\ Return(r, "answered")

\* Five minutes after the lock was taken.
TooLong(r) ==
    /\ req[r].pc = "sent"
    /\ Return(r, "failed")

\* cmd/serve.go: the session is closed when the server has returned; a
\* request that has the mutex is waited for.
ServerStops ==
    /\ server = "up" /\ server' = "closing"
    /\ UNCHANGED <<claude, lock, req>>
Close ==
    /\ server = "closing" /\ lock = Nobody
    /\ server' = "closed"
    /\ claude' = NoAgent("none", claude.number)
    /\ UNCHANGED <<lock, req>>

-----------------------------------------------------------------------------
(* The agent in the terminal (external). *)

\* An agent that does not pause writes its next piece within two seconds.
Write ==
    /\ claude.life = "up" /\ claude.todo # <<>>
    /\ claude' = [claude EXCEPT !.screen = Append(@, Head(claude.todo)), !.todo = Tail(@), !.pause = "no"]
    /\ UNCHANGED <<lock, req, server>>
Pause ==
    /\ claude.life = "up" /\ claude.todo # <<>> /\ claude.pause = "no"
    /\ claude' = [claude EXCEPT !.pause = "yes"]
    /\ UNCHANGED <<lock, req, server>>
\* Something beside the answers goes from the screen: a hint, a spinner.
Wipe ==
    /\ claude.life = "up" /\ claude.wiped = "no"
    /\ claude' = [claude EXCEPT !.wiped = "yes"]
    /\ UNCHANGED <<lock, req, server>>
Exit ==
    /\ claude.life \in {"starting", "up"}
    /\ claude' = [claude EXCEPT !.life = "dead", !.todo = <<>>, !.pause = "no"]
    /\ UNCHANGED <<lock, req, server>>

PtyNext ==
    \/ \E r \in PtyRequests :
          Arrive(r) \/ Lock(r) \/ EnsureStarted(r) \/ Ready(r) \/ NotReady(r)
          \/ Snapshot(r) \/ SendLine(r) \/ Stable(r) \/ TooLong(r)
    \/ ServerStops \/ Close \/ Write \/ Pause \/ Wipe \/ Exit
PtySpec == PtyInit /\ [][PtyNext]_ptyVars

-----------------------------------------------------------------------------
\* An answer given as a success holds the request's own text only, and all of
\* it that the screen has room for, last.  Two ways the protocol can be cut
\* short are apart: a tail left by a request that returned before its agent
\* was done, and a pause or an exit of the agent in this answer
\* (pty_exec.go:86-91, 132-133, 163-165).  So is the answer that is a whole
\* screen, which others' text may precede (pty_exec.go:163-190).
OwnAnswers ==
    \A r \in PtyRequests : req[r].pc = "answered" =>
        LET text == req[r].answer
            own == {i \in DOMAIN text : text[i] = r}
            fits == IF req[r].wants > Rows THEN Rows ELSE req[r].wants
        IN /\ req[r].apart = "yes" => \A i \in DOMAIN text \ own : req[text[i]].cut = "yes"
           /\ req[r].cut = "no" => (Len(text) - fits + 1) .. Len(text) \subseteq own
=============================================================================
