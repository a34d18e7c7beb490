------------------------------- MODULE JobStore -------------------------------
(***************************************************************************)
(* Background responses of `cell serve` (internal/serve: jobs.go,          *)
(* responses.go, responses_get.go, the sweeper of server.go).              *)
(*                                                                         *)
(* A POST with "background": true creates a job and leaves a goroutine     *)
(* running the agent; clients poll and cancel the job over HTTP, the       *)
(* sweeper evicts it.  The store's methods are atomic (one mutex), but a   *)
(* reply is written from a copy taken under it, and travels.               *)
(***************************************************************************)
EXTENDS Naturals

CONSTANTS Jobs,     \* response ids
          Clients,  \* each has at most one request under way
          TTL,      \* one hour, in ticks
          MaxTime,  \* bound: the clock stops there
          NoJob     \* the job of a client without a request

ASSUME TimeAssumption == TTL \in Nat /\ MaxTime \in Nat
ASSUME NoJobAssumption == NoJob \notin Jobs

VARIABLES status,    \* per job: absent (never created or evicted) or Job.Status
          result,    \* per job: the status of Job.Result, or none
          finished,  \* per job: Job.FinishedAt
          agent,     \* per job: the goroutine of runBackgroundJob
          request,   \* per client: the request under way
          told,      \* per client and job: the status of the last reply, if any
          now

vars == <<status, result, finished, agent, request, told, now>>

Terminal == {"completed", "failed", "cancelled"}
NoRequest == [op |-> "none", job |-> NoJob, body |-> "none"]

Init ==
    /\ status = [j \in Jobs |-> "absent"]
    /\ result = [j \in Jobs |-> "none"]
    /\ finished = [j \in Jobs |-> 0]
    /\ agent = [j \in Jobs |-> "none"]
    /\ request = [c \in Clients |-> NoRequest]
    /\ told = [c \in Clients |-> [j \in Jobs |-> "none"]]
    /\ now = 0

-----------------------------------------------------------------------------
(* The store.                                                               *)

\* POST: Create, and the goroutine. A response id is never used twice.
Create(j) ==
    /\ agent[j] = "none"
    /\ status' = [status EXCEPT ![j] = "in_progress"]
    /\ agent' = [agent EXCEPT ![j] = "running"]
    /\ UNCHANGED <<result, finished, request, told, now>>

\* Mutant: the check for a cancelled job is missing.
CompleteAnyway(j, verdict) ==
    /\ agent[j] = "running"
    /\ agent' = [agent EXCEPT ![j] = "done"]
    /\ IF status[j] = "absent"
       THEN UNCHANGED <<status, result, finished>>
       ELSE /\ status' = [status EXCEPT ![j] = verdict]
            /\ result' = [result EXCEPT ![j] = verdict]
            /\ finished' = [finished EXCEPT ![j] = now]
    /\ UNCHANGED <<request, told, now>>

\* exec.Run returned; Complete is a no-op on an evicted or cancelled job.
Complete(j, verdict) ==
    /\ agent[j] = "running"
    /\ agent' = [agent EXCEPT ![j] = "done"]
    /\ IF status[j] \in {"absent", "cancelled"}
       THEN UNCHANGED <<status, result, finished>>
       ELSE /\ status' = [status EXCEPT ![j] = verdict]
            /\ result' = [result EXCEPT ![j] = verdict]
            /\ finished' = [finished EXCEPT ![j] = now]
    /\ UNCHANGED <<request, told, now>>

\* Mutant: cancelled jobs have no result and are passed over.
ExpiredFinished(j) == status[j] \in {"completed", "failed"} /\ finished[j] + TTL < now

Expired(j) == status[j] \in Terminal /\ finished[j] + TTL < now

Sweep ==
    /\ \E j \in Jobs : Expired(j)
    /\ status' = [j \in Jobs |-> IF Expired(j) THEN "absent" ELSE status[j]]
    /\ result' = [j \in Jobs |-> IF Expired(j) THEN "none" ELSE result[j]]
    /\ UNCHANGED <<finished, agent, request, told, now>>

Tick ==
    /\ now < MaxTime /\ now' = now + 1
    /\ UNCHANGED <<status, result, finished, agent, request, told>>

-----------------------------------------------------------------------------
(* The handlers.                                                            *)

\* A client learns the id from the 202 reply to its POST.
Send(c, j, op) ==
    /\ request[c] = NoRequest /\ agent[j] # "none"
    /\ request' = [request EXCEPT ![c] = [op |-> op, job |-> j, body |-> "none"]]
    /\ UNCHANGED <<status, result, finished, agent, told, now>>

\* What the handlers write from a snapshot: the result, a stub, or a 404.
Body(j) == IF status[j] = "absent" THEN "not_found"
           ELSE IF result[j] # "none" THEN result[j] ELSE status[j]

Reply(c, j, body) == request' = [request EXCEPT ![c] =
                                   [op |-> "reply", job |-> j, body |-> body]]

\* NewResponseGetHandler
Get(c, j) ==
    /\ request[c].op = "get" /\ request[c].job = j
    /\ Reply(c, j, Body(j))
    /\ UNCHANGED <<status, result, finished, agent, told, now>>

\* Mutant: a job that ended is cancelled like one in progress.
CancelAnyway(c, j) ==
    /\ request[c].op = "cancel" /\ request[c].job = j
    /\ IF status[j] # "absent"
       THEN /\ status' = [status EXCEPT ![j] = "cancelled"]
            /\ finished' = [finished EXCEPT ![j] = now]
            /\ Reply(c, j, "cancelled")
       ELSE /\ UNCHANGED <<status, finished>>
            /\ Reply(c, j, Body(j))
    /\ UNCHANGED <<result, agent, told, now>>

\* NewResponseCancelHandler. Job.Cancel cancels a context that
\* runBackgroundJob does not look at: the agent runs on.
Cancel(c, j) ==
    /\ request[c].op = "cancel" /\ request[c].job = j
    /\ IF status[j] = "in_progress"
       THEN /\ status' = [status EXCEPT ![j] = "cancelled"]
            /\ finished' = [finished EXCEPT ![j] = now]
            /\ Reply(c, j, "cancelled")
       ELSE /\ UNCHANGED <<status, finished>>
            /\ Reply(c, j, Body(j))
    /\ UNCHANGED <<result, agent, told, now>>

Deliver(c) ==
    /\ request[c].op = "reply"
    /\ told' = [told EXCEPT ![c][request[c].job] = request[c].body]
    /\ request' = [request EXCEPT ![c] = NoRequest]
    /\ UNCHANGED <<status, result, finished, agent, now>>

-----------------------------------------------------------------------------
Next ==
    \/ \E j \in Jobs : Create(j) \/ \E v \in {"completed", "failed"} : Complete(j, v)
    \/ Sweep \/ Tick
    \/ \E c \in Clients :
         \/ \E j \in Jobs : Get(c, j) \/ Cancel(c, j)
         \/ \E j \in Jobs, op \in {"get", "cancel"} : Send(c, j, op)
         \/ Deliver(c)

Spec == Init /\ [][Next]_vars

\* The ticker sweeps every minute and time goes on.
SweepSpec == Spec /\ WF_vars(Sweep) /\ WF_vars(Tick)

-----------------------------------------------------------------------------
(* Properties.                                                              *)

Statuses == Terminal \union {"in_progress", "not_found"}

Requests == [op : {"none", "get", "cancel", "reply"}, job : Jobs \union {NoJob},
             body : Statuses \union {"none"}]

\* The types of the store and of the requests.
TypeOK ==
    /\ status \in [Jobs -> Terminal \union {"absent", "in_progress"}]
    /\ result \in [Jobs -> {"none", "completed", "failed"}]
    /\ finished \in [Jobs -> 0 .. MaxTime]
    /\ agent \in [Jobs -> {"none", "running", "done"}]
    /\ request \in [Clients -> Requests]
    /\ \A c \in Clients : request[c].op # "none" => request[c].job \in Jobs
    /\ \A c \in Clients : request[c].op = "reply" => request[c].body \in Statuses
    /\ told \in [Clients -> [Jobs -> Statuses \union {"none"}]]
    /\ now \in 0 .. MaxTime

\* "Cancel wins", and completion is final: a client that was told a terminal
\* status is never told another, whatever other clients and the agent do
\* between its requests; all it may hear later is that the job is gone.
ToldOnce ==
    [][\A c \in Clients, j \in Jobs :
          told[c][j] \in Terminal =>
             told'[c][j] \in {told[c][j], "not_found"}]_vars

\* Two clients are never told different outcomes of one job.
ClientsAgree ==
    \A c, d \in Clients, j \in Jobs :
        told[c][j] \in Terminal /\ told[d][j] \in Terminal => told[c][j] = told[d][j]

\* "So the in-memory store doesn't grow unbounded" (server.go): a job that
\* ended is evicted, if the clock gets there.
Evicted ==
    \A j \in Jobs : (status[j] \in Terminal /\ finished[j] + TTL < MaxTime) ~> status[j] = "absent"
=============================================================================
