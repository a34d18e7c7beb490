---------------------------- MODULE ServeProofs -----------------------------
(***************************************************************************)
(* Proofs about two executors of `cell serve`.                             *)
(*                                                                         *)
(* JobStore, for any number of jobs and clients, any TTL and any clock:    *)
(* what clients hear of a job's outcome is consistent over time and among  *)
(* them.                                                                   *)
(*                                                                         *)
(* PtySession, for any number of requests, sessions and pieces of text:    *)
(* one request at a time talks to the agent, and an answer is its own.     *)
(***************************************************************************)
EXTENDS JobStore, PtySession, SequenceTheorems, TLAPS

(* JobStore *)

\* A client heard x of job j, or is about to.
Heard(c, j, x) ==
    /\ x \in Terminal
    /\ \/ told[c][j] = x
       \/ request[c].op = "reply" /\ request[c].job = j /\ request[c].body = x

\* Nobody hears two outcomes, ...
Agree == \A c, d \in Clients, j \in Jobs, x, y \in Terminal :
            Heard(c, j, x) /\ Heard(d, j, y) => x = y

\* ... the store still holds the one that was heard, or dropped the job, ...
Current == \A c \in Clients, j \in Jobs, x \in Terminal :
            Heard(c, j, x) => status[j] \in {x, "absent"} /\ agent[j] # "none"

\* ... a result is that of the status, and the agent's last word, ...
Results == \A j \in Jobs :
            /\ result[j] # "none" => status[j] = result[j]
            /\ status[j] \in {"completed", "failed"} => agent[j] = "done"

\* ... and what is under way to a client does not take back what it heard.
InOrder == \A c \in Clients, j \in Jobs :
            told[c][j] \in Terminal /\ request[c].op = "reply" /\ request[c].job = j
               => request[c].body \in {told[c][j], "not_found"}

\* Clients ask about jobs that were created.
Asked == /\ \A c \in Clients : request[c].op # "none" => agent[request[c].job] # "none"
         /\ \A j \in Jobs : status[j] # "absent" => agent[j] # "none"

JobInv == TypeOK /\ Agree /\ Current /\ Results /\ InOrder /\ Asked

\* A reply written now says what was heard before, or that the job is gone,
\* or, when nobody heard an outcome, the job's status.
LEMMA BodyIs ==
  ASSUME TypeOK, Results, NEW j \in Jobs
  PROVE  /\ Body(j) \in Statuses
         /\ status[j] = "absent" => Body(j) = "not_found"
         /\ status[j] # "absent" => Body(j) = status[j]
  BY DEF TypeOK, Results, Body, Statuses, Terminal

\* Writing a reply adds at most what it says to what is heard, ...
LEMMA HeardThen ==
  ASSUME TypeOK, NEW c \in Clients, NEW j \in Jobs, NEW b \in Statuses,
         Reply(c, j, b), UNCHANGED told
  PROVE  \A d \in Clients, k \in Jobs, x \in Terminal :
            Heard(d, k, x)' => Heard(d, k, x) \/ (d = c /\ k = j /\ x = b)
<1>1. /\ request'[c] = [op |-> "reply", job |-> j, body |-> b]
      /\ \A d \in Clients \ {c} : request'[d] = request[d]
      /\ told' = told
  BY DEF Reply, TypeOK
<1> QED  BY <1>1 DEF Heard

\* ... so an answer made from the job's own state changes nothing.
LEMMA Replied ==
  ASSUME JobInv, NEW c \in Clients, NEW j \in Jobs, agent[j] # "none",
         Reply(c, j, Body(j)), UNCHANGED <<status, result, finished, agent, told, now>>
  PROVE  JobInv'
<1> USE DEF JobInv
<1> DEFINE b == Body(j)
<1>1. /\ b \in Statuses
      /\ status[j] = "absent" => b = "not_found"
      /\ status[j] # "absent" => b = status[j]
  BY BodyIs
<1>2. /\ request'[c] = [op |-> "reply", job |-> j, body |-> b]
      /\ \A d \in Clients \ {c} : request'[d] = request[d]
      /\ request' = [request EXCEPT ![c] = [op |-> "reply", job |-> j, body |-> b]]
  BY DEF Reply, TypeOK
<1>3. \A d \in Clients, k \in Jobs, x \in Terminal :
         Heard(d, k, x)' => Heard(d, k, x) \/ (d = c /\ k = j /\ x = b)
  BY <1>1, HeardThen
<1>4. b \in Terminal => status[j] = b
  BY <1>1 DEF Terminal
<1> HIDE DEF b
<1>5. TypeOK'
  BY <1>1, <1>2 DEF TypeOK, Requests
<1>6. Current'
  BY <1>3, <1>4 DEF Current
<1>7. Agree'
  <2> SUFFICES ASSUME NEW d \in Clients, NEW e \in Clients, NEW k \in Jobs,
                      NEW x \in Terminal, NEW y \in Terminal,
                      Heard(d, k, x)', Heard(e, k, y)'
               PROVE  x = y
    BY DEF Agree
  <2>1. status[k] = "absent" => Heard(d, k, x) /\ Heard(e, k, y)
    BY <1>1, <1>3 DEF Terminal
  <2>2. status[k] # "absent" => status[k] = x /\ status[k] = y
    BY <1>3, <1>4 DEF Current
  <2> QED  BY <2>1, <2>2 DEF Agree
<1>8. Results' /\ InOrder' /\ Asked'
  <2>1. Results'
    BY DEF Results
  <2>2. \A d \in Clients, k \in Jobs : told[d][k] \in Terminal => Heard(d, k, told[d][k])
    BY DEF Heard
  <2>3. told[c][j] \in Terminal => b \in {told[c][j], "not_found"}
    BY <1>1, <2>2 DEF Current, Terminal
  <2>4. Asked'
    BY <1>2 DEF Asked, TypeOK
  <2> QED  BY <1>2, <2>1, <2>3, <2>4 DEF InOrder
<1> QED  BY <1>5, <1>6, <1>7, <1>8

\* The store and the clients start empty.
LEMMA JobInvInit == Init => JobInv
  BY TimeAssumption, NoJobAssumption
     DEF Init, JobInv, TypeOK, Agree, Current, Results, InOrder, Asked, Heard, Terminal,
         Requests, Statuses, NoRequest

\* Every step preserves the inductive invariant.
LEMMA JobInvStep == JobInv /\ [Next]_vars => JobInv'
<1> SUFFICES ASSUME JobInv, [Next]_vars PROVE JobInv'
  OBVIOUS
<1> USE TimeAssumption, NoJobAssumption DEF JobInv
<1>1. ASSUME NEW j \in Jobs, Create(j) PROVE JobInv'
  BY <1>1 DEF Create, TypeOK, Agree, Current, Results, InOrder, Asked, Heard, Terminal
<1>2. ASSUME NEW j \in Jobs, NEW v \in {"completed", "failed"}, Complete(j, v) PROVE JobInv'
  <2>1. CASE status[j] \in {"absent", "cancelled"}
    BY <1>2, <2>1 DEF Complete, TypeOK, Agree, Current, Results, InOrder, Asked, Heard
  <2>2. CASE status[j] \notin {"absent", "cancelled"}
    <3>1. /\ status' = [status EXCEPT ![j] = v]
          /\ result' = [result EXCEPT ![j] = v]
          /\ finished' = [finished EXCEPT ![j] = now]
          /\ agent' = [agent EXCEPT ![j] = "done"]
          /\ UNCHANGED <<request, told, now>>
      BY <1>2, <2>2 DEF Complete
    <3>2. TypeOK'
      BY <3>1 DEF TypeOK, Terminal
    <3>3. \A c \in Clients, x \in Terminal : ~Heard(c, j, x)
      <4>1. status[j] = "in_progress"
        BY <1>2, <2>2 DEF Complete, TypeOK, Results, Terminal
      <4> QED  BY <4>1 DEF Current, Terminal
    <3>4. Agree' /\ Current'
      BY <3>1, <3>3 DEF Agree, Current, Heard, TypeOK
    <3>5. Results' /\ InOrder' /\ Asked'
      BY <3>1 DEF Results, InOrder, Asked, TypeOK
    <3> QED  BY <3>2, <3>4, <3>5
  <2> QED  BY <2>1, <2>2
<1>3. ASSUME Sweep PROVE JobInv'
  BY <1>3 DEF Sweep, Expired, TypeOK, Agree, Current, Results, InOrder, Asked, Heard
<1>4. ASSUME Tick PROVE JobInv'
  BY <1>4 DEF Tick, TypeOK, Agree, Current, Results, InOrder, Asked, Heard
<1>5. ASSUME NEW c \in Clients, NEW j \in Jobs, NEW op \in {"get", "cancel"}, Send(c, j, op)
      PROVE JobInv'
  BY <1>5 DEF Send, TypeOK, Agree, Current, Results, InOrder, Asked, Heard, Requests
<1>6. ASSUME NEW c \in Clients, NEW j \in Jobs, Get(c, j) PROVE JobInv'
  BY <1>6, Replied DEF Get, TypeOK, Asked
<1>7. ASSUME NEW c \in Clients, NEW j \in Jobs, Cancel(c, j) PROVE JobInv'
  <2>1. CASE status[j] = "in_progress"
    <3>1. /\ status' = [status EXCEPT ![j] = "cancelled"]
          /\ finished' = [finished EXCEPT ![j] = now]
          /\ request' = [request EXCEPT ![c] = [op |-> "reply", job |-> j, body |-> "cancelled"]]
          /\ UNCHANGED <<result, agent, told, now>>
      BY <1>7, <2>1 DEF Cancel, Reply
    <3>2. TypeOK'
      BY <3>1 DEF TypeOK, Requests, Statuses, Terminal
    <3>3. \A d \in Clients, x \in Terminal : ~Heard(d, j, x)
      BY <2>1 DEF Current, Terminal
    <3>4. \A d \in Clients, k \in Jobs, x \in Terminal :
             Heard(d, k, x)' => \/ k # j /\ Heard(d, k, x)
                                \/ d = c /\ k = j /\ x = "cancelled"
      <4>1. TypeOK /\ Reply(c, j, "cancelled") /\ UNCHANGED told /\ "cancelled" \in Statuses
        BY <3>1 DEF Reply, Statuses, Terminal
      <4>2. \A d \in Clients, k \in Jobs, x \in Terminal :
               Heard(d, k, x)' => Heard(d, k, x) \/ (d = c /\ k = j /\ x = "cancelled")
        BY <4>1, HeardThen
      <4> QED  BY <3>3, <4>2
    <3>5. agent[j] # "none"
      BY <1>7, <2>1 DEF Cancel, TypeOK, Asked
    <3>6. Agree' /\ Current'
      BY <3>1, <3>4, <3>5 DEF Agree, Current, TypeOK
    <3>7. Results'
      BY <2>1, <3>1 DEF Results, TypeOK
    <3>9. Asked'
      BY <3>1, <3>5 DEF Asked, TypeOK
    <3>8. InOrder'
      <4>1. told[c][j] \notin Terminal
        BY <3>3 DEF Heard
      <4> QED  BY <3>1, <4>1 DEF InOrder, TypeOK
    <3> QED  BY <3>2, <3>6, <3>7, <3>8, <3>9
  <2>2. CASE status[j] # "in_progress"
    BY <1>7, <2>2, Replied DEF Cancel, TypeOK, Asked
  <2> QED  BY <2>1, <2>2
<1>8. ASSUME NEW c \in Clients, Deliver(c) PROVE JobInv'
  BY <1>8 DEF Deliver, NoRequest, TypeOK, Agree, Current, Results, InOrder, Asked, Heard,
             Terminal, Requests, Statuses
<1>9. CASE UNCHANGED vars
  BY <1>9 DEF vars, TypeOK, Agree, Current, Results, InOrder, Asked, Heard
<1> QED
  BY <1>1, <1>2, <1>3, <1>4, <1>5, <1>6, <1>7, <1>8, <1>9 DEF Next

\* The inductive invariant holds in every reachable state.
THEOREM JobInvHolds == Spec => []JobInv
<1>1. Init => JobInv
  BY JobInvInit
<1>2. JobInv /\ [Next]_vars => JobInv'
  BY JobInvStep
<1> QED
  BY <1>1, <1>2, PTL DEF Spec

\* TypeOK: the store's and the requests' types.
THEOREM JobTypesHold == Spec => []TypeOK
<1>1. JobInv => TypeOK
  BY DEF JobInv
<1> QED
  BY <1>1, JobInvHolds, PTL

\* ClientsAgree: no two clients are told different outcomes of a job.
THEOREM OutcomeAgreed == Spec => []ClientsAgree
<1>1. JobInv => ClientsAgree
  BY DEF JobInv, Agree, Heard, ClientsAgree
<1> QED
  BY <1>1, JobInvHolds, PTL

\* ToldOnce: a client that was told how a job ended is never told otherwise.
THEOREM OutcomeToldOnce == Spec => ToldOnce
<1> DEFINE Once == \A c \in Clients, j \in Jobs :
                     told[c][j] \in Terminal => told'[c][j] \in {told[c][j], "not_found"}
<1>1. JobInv /\ [Next]_vars => [Once]_vars
  <2> SUFFICES ASSUME JobInv, Next PROVE Once
    OBVIOUS
  <2>1. ASSUME NEW c \in Clients, Deliver(c) PROVE Once
    BY <2>1 DEF Deliver, JobInv, InOrder, TypeOK
  <2>2. CASE UNCHANGED told
    BY <2>2
  <2> QED
    BY <2>1, <2>2 DEF Next, Create, Complete, Sweep, Tick, Send, Get, Cancel
<1> QED
  BY <1>1, JobInvHolds, PTL DEF Spec, ToldOnce

-----------------------------------------------------------------------------
(* PtySession *)

\* What is on the screen and what the agent has yet to write, in order.
Pieces == Len(claude.screen) + Len(claude.todo)
Piece(i) ==
    IF i <= Len(claude.screen) THEN claude.screen[i] ELSE claude.todo[i - Len(claude.screen)]

Cut(r) == req[r].cut = "yes"

\* The executor's mutex is held by the request between Lock and Return.
OneAtATime == \A r \in PtyRequests : lock = r <=> req[r].pc \in Holding

\* Only an agent that lives has something to write, and a prompt is typed to
\* one that does or did.
Living ==
    /\ claude.todo # <<>> => claude.life = "up"
    /\ \A r \in PtyRequests :
          req[r].pc \in {"snapshot", "send", "sent"} => claude.life \in {"up", "dead"}

\* A request is cut short when it returns, not before.
CutAtReturn == \A r \in PtyRequests : Cut(r) => req[r].pc \in {"answered", "failed"}

\* The agent works for the request that waits, or for one that gave up on it.
Awaited == \A i \in DOMAIN claude.todo :
              LET q == claude.todo[i] IN req[q].pc = "sent" \/ Cut(q)

\* Nothing else comes after what a request saw before it typed its prompt, ...
Beyond == \A r \in PtyRequests : req[r].pc \in {"send", "sent"} =>
    /\ req[r].before <= Len(claude.screen)
    /\ \A i \in req[r].before + 1 .. Pieces :
          (Piece(i) = r /\ req[r].pc = "sent") \/ Cut(Piece(i))

\* ... and its own answer comes last.
Whole == \A r \in PtyRequests : req[r].pc = "sent" /\ claude.life = "up" =>
    /\ req[r].before + req[r].wants <= Pieces
    /\ \A i \in req[r].before + 1 .. Pieces : Piece(i) = r <=> i > Pieces - req[r].wants

PtyInv ==
    PtyTypes /\ OneAtATime /\ Living /\ CutAtReturn /\ Awaited /\ Beyond /\ Whole /\ OwnAnswers

-----------------------------------------------------------------------------
\* Nobody has asked, and no agent runs.
LEMMA PtyStarts == PtyInit => PtyInv
<1> SUFFICES ASSUME PtyInit PROVE PtyInv OBVIOUS
<1> USE PtyAssumption DEF PtyInit, NoAgent
<1>1. PtyTypes BY DEF PtyTypes, Turns
<1>2. OneAtATime BY DEF OneAtATime, Holding
<1>3. Living /\ CutAtReturn /\ Awaited BY DEF Living, CutAtReturn, Awaited, Cut
<1>4. Beyond /\ Whole /\ OwnAnswers BY DEF Beyond, Whole, OwnAnswers
<1>5. QED BY <1>1, <1>2, <1>3, <1>4 DEF PtyInv

\* The types, with what is known of texts kept apart.
Texts == Seq(PtyRequests)
Agents == [life : {"none", "starting", "up", "dead"}, pause : {"yes", "no"},
           wiped : {"yes", "no"}, screen : Texts, todo : Texts, number : 0 .. MaxSessions]
Asks == [pc : Turns, before : Nat, wants : 0 .. MaxPieces, answer : Texts, cut : {"yes", "no"},
         apart : {"yes", "no"}]

\* PtyTypes, in these terms.
LEMMA TypesAre ==
  PtyTypes <=> /\ claude \in Agents /\ lock \in PtyRequests \cup {Nobody}
               /\ req \in [PtyRequests -> Asks] /\ server \in {"up", "closing", "closed"}
  BY DEF PtyTypes, Agents, Asks, Texts

\* The pieces are those of the screen, then those to be written.
LEMMA PiecesAre ==
  ASSUME PtyTypes
  PROVE  /\ claude.screen \in Texts /\ claude.todo \in Texts
         /\ Len(claude.screen) \in Nat /\ Len(claude.todo) \in Nat /\ Pieces \in Nat
         /\ Len(claude.screen) <= Pieces
         /\ DOMAIN claude.screen = 1 .. Len(claude.screen)
         /\ DOMAIN claude.todo = 1 .. Len(claude.todo)
         /\ \A i \in 1 .. Len(claude.screen) : Piece(i) = claude.screen[i]
         /\ \A i \in Len(claude.screen) + 1 .. Pieces :
               /\ i - Len(claude.screen) \in 1 .. Len(claude.todo)
               /\ Piece(i) = claude.todo[i - Len(claude.screen)]
         /\ \A i \in 1 .. Pieces : Piece(i) \in PtyRequests
<1>1. claude.screen \in Texts /\ claude.todo \in Texts BY TypesAre DEF Agents
<1> DEFINE s == claude.screen
           t == claude.todo
<1>2. /\ Len(s) \in Nat /\ DOMAIN s = 1 .. Len(s) /\ \A i \in 1 .. Len(s) : s[i] \in PtyRequests
      /\ Len(t) \in Nat /\ DOMAIN t = 1 .. Len(t) /\ \A i \in 1 .. Len(t) : t[i] \in PtyRequests
  BY <1>1 DEF Texts
<1> HIDE DEF s, t
<1>3. Pieces = Len(s) + Len(t) /\ \A i : Piece(i) = IF i <= Len(s) THEN s[i] ELSE t[i - Len(s)]
  BY DEF Pieces, Piece, s, t
<1>4. /\ Pieces \in Nat /\ Len(s) <= Pieces
      /\ \A i \in 1 .. Len(s) : Piece(i) = s[i]
      /\ \A i \in Len(s) + 1 .. Pieces : i - Len(s) \in 1 .. Len(t) /\ Piece(i) = t[i - Len(s)]
  BY <1>2, <1>3
<1>5. \A i \in 1 .. Pieces : Piece(i) \in PtyRequests
  <2> TAKE i \in 1 .. Pieces
  <2>1. i \in 1 .. Len(s) \/ i \in Len(s) + 1 .. Pieces BY <1>2, <1>4
  <2>2. QED BY <2>1, <1>2, <1>4
<1>6. QED BY <1>1, <1>2, <1>4, <1>5 DEF s, t

\* What a request reads off the screen is a text.
LEMMA Read == ASSUME PtyTypes, NEW r \in PtyRequests PROVE Extract(r) \in Texts
<1>1. req[r].before \in Nat BY TypesAre DEF Asks
<1>2. claude.screen \in Seq(PtyRequests) /\ Len(claude.screen) \in Nat
  BY PiecesAre DEF Texts
<1> DEFINE n == Len(claude.screen)
           first == IF n > Rows THEN n - Rows + 1 ELSE 1
<1>3. n \in Nat /\ first \in 1 .. n + 1 BY <1>2, PtyAssumption
<1>4. /\ Extract(r) = SubSeq(claude.screen, first, n)
         \/ Extract(r) = SubSeq(claude.screen, req[r].before + 1, n)
      /\ n = Len(claude.screen)
  BY DEF Extract, Visible
<1> HIDE DEF n, first
<1>5. SubSeq(claude.screen, first, n) \in Seq(PtyRequests)
      /\ SubSeq(claude.screen, req[r].before + 1, n) \in Seq(PtyRequests)
  BY <1>1, <1>2, <1>3, <1>4
<1>6. QED BY <1>4, <1>5 DEF Texts

\* What a request may become.
LEMMA Turned ==
  ASSUME req \in [PtyRequests -> Asks], NEW r \in PtyRequests, NEW pc \in Turns, Turn(r, pc)
  PROVE  req' \in [PtyRequests -> Asks]
  BY DEF Turn, Asks

\* A session without an agent is one.
LEMMA NoAgentIs ==
  ASSUME NEW life \in {"none", "starting", "up", "dead"}, NEW n \in 0 .. MaxSessions
  PROVE  NoAgent(life, n) \in Agents
<1>1. <<>> \in Texts BY DEF Texts
<1>2. QED BY <1>1 DEF NoAgent, Agents

\* Every step keeps the types.
LEMMA PtyTypesKept == ASSUME PtyTypes, [PtyNext]_ptyVars PROVE PtyTypes'
<1>0. /\ claude \in Agents /\ lock \in PtyRequests \cup {Nobody}
      /\ req \in [PtyRequests -> Asks] /\ server \in {"up", "closing", "closed"}
  BY TypesAre
<1>a. claude.number \in 0 .. MaxSessions BY <1>0 DEF Agents
<1> SUFFICES /\ claude' \in Agents /\ lock' \in PtyRequests \cup {Nobody}
             /\ req' \in [PtyRequests -> Asks] /\ server' \in {"up", "closing", "closed"}
  BY DEF PtyTypes, Agents, Asks, Texts
<1>1. ASSUME NEW r \in PtyRequests, Arrive(r) \/ Lock(r)
      PROVE  /\ claude' = claude /\ lock' \in PtyRequests \cup {Nobody} /\ server' = server
             /\ req' \in [PtyRequests -> Asks]
  <2>1. \E pc \in Turns : Turn(r, pc) BY <1>1 DEF Arrive, Lock, Turns, Holding
  <2>2. req' \in [PtyRequests -> Asks] BY <2>1, <1>0, Turned
  <2>3. QED BY <2>2, <1>0, <1>1 DEF Arrive, Lock
<1>2. ASSUME NEW r \in PtyRequests, EnsureStarted(r) \/ Ready(r) \/ NotReady(r)
      PROVE  /\ claude' \in Agents /\ lock' \in PtyRequests \cup {Nobody} /\ server' = server
             /\ req' \in [PtyRequests -> Asks]
  <2>1. \E pc \in Turns : Turn(r, pc)
    BY <1>2 DEF EnsureStarted, Ready, NotReady, Turns, Holding
  <2>2. req' \in [PtyRequests -> Asks] BY <2>1, <1>0, Turned
  <2>3. lock' \in {lock, Nobody} /\ server' = server
    BY <1>2 DEF EnsureStarted, Ready, NotReady
  <2>4. \/ claude' = claude
        \/ claude.number < MaxSessions /\ claude' = NoAgent("starting", claude.number + 1)
        \/ claude' = NoAgent("none", claude.number)
        \/ claude' = [claude EXCEPT !.life = "up"]
    BY <1>2 DEF EnsureStarted, Ready, NotReady
  <2>5. claude.number < MaxSessions => claude.number + 1 \in 0 .. MaxSessions
    BY <1>a, PtyAssumption
  <2>6. [claude EXCEPT !.life = "up"] \in Agents BY <1>0 DEF Agents
  <2>7. claude' \in Agents
    BY <2>4, <2>5, <2>6, <1>0, <1>a, NoAgentIs
  <2>8. QED BY <2>2, <2>3, <2>7, <1>0
<1>3. ASSUME NEW r \in PtyRequests, Snapshot(r)
      PROVE  claude' \in Agents /\ lock' = lock /\ server' = server /\ req' \in [PtyRequests -> Asks]
  <2>1. Len(claude.screen) \in Nat BY PiecesAre
  <2>2. "send" \in Turns BY DEF Turns, Holding
  <2>3. req' = [req EXCEPT ![r].before = Len(claude.screen), ![r].pc = "send"]
    BY <1>3 DEF Snapshot
  <2> DEFINE n == Len(claude.screen)
  <2> HIDE DEF n
  <2>4. [req EXCEPT ![r].before = n, ![r].pc = "send"] \in [PtyRequests -> Asks]
    BY <1>0, <2>1, <2>2 DEF Asks, n
  <2>5. [claude EXCEPT !.wiped = "no"] \in Agents BY <1>0 DEF Agents
  <2>6. QED BY <2>3, <2>4, <2>5, <1>3 DEF Snapshot, n
<1>4. ASSUME NEW r \in PtyRequests, SendLine(r)
      PROVE  claude' \in Agents /\ lock' \in {lock, Nobody} /\ server' = server
             /\ req' \in [PtyRequests -> Asks]
  <2>1. CASE claude.life = "dead" /\ Turn(r, "failed") /\ lock' = Nobody /\ UNCHANGED claude
    <3>1. "failed" \in Turns BY DEF Turns
    <3>2. req' \in [PtyRequests -> Asks] BY <2>1, <3>1, <1>0, Turned
    <3>3. QED BY <3>2, <2>1, <1>0, <1>4 DEF SendLine
  <2>2. ASSUME NEW n \in 1 .. MaxPieces,
               req' = [req EXCEPT ![r].pc = "sent", ![r].wants = n],
               claude' = IF claude.life = "up"
                         THEN [claude EXCEPT !.todo = @ \o [i \in 1 .. n |-> r]] ELSE claude,
               UNCHANGED lock
        PROVE claude' \in Agents /\ lock' \in {lock, Nobody} /\ req' \in [PtyRequests -> Asks]
    <3>1. [i \in 1 .. n |-> r] \in Seq(PtyRequests) BY PtyAssumption
    <3>2. claude.todo \in Texts BY PiecesAre
    <3> DEFINE more == claude.todo \o [i \in 1 .. n |-> r]
    <3>3. more \in Texts BY <3>1, <3>2 DEF Texts
    <3> HIDE DEF more
    <3>4. claude' \in Agents
      <4>1. [claude EXCEPT !.todo = more] \in Agents BY <3>3, <1>0 DEF Agents
      <4>2. claude' = [claude EXCEPT !.todo = more] \/ claude' = claude BY <2>2 DEF more
      <4>3. QED BY <4>1, <4>2, <1>0
    <3>5. "sent" \in Turns /\ n \in 0 .. MaxPieces BY PtyAssumption DEF Turns, Holding
    <3>6. req' \in [PtyRequests -> Asks] BY <2>2, <3>5, <1>0 DEF Asks
    <3>7. QED BY <3>4, <3>6, <2>2
  <2>3. QED BY <1>4, <2>1, <2>2 DEF SendLine
<1>5. ASSUME NEW r \in PtyRequests, Stable(r) \/ TooLong(r)
      PROVE  /\ claude' = claude /\ lock' = Nobody /\ server' = server
             /\ req' \in [PtyRequests -> Asks]
  <2>1. PICK pc \in {"answered", "failed"} : Return(r, pc) BY <1>5 DEF Stable, TooLong
  <2>2. Extract(r) \in Texts BY Read
  <2>3. pc \in Turns BY DEF Turns
  <2> DEFINE cut == IF claude.todo # <<>> \/ claude.life # "up" THEN "yes" ELSE "no"
             apart == IF Apart(r) THEN "yes" ELSE "no"
             text == Extract(r)
  <2>4. cut \in {"yes", "no"} /\ apart \in {"yes", "no"} /\ text \in Texts BY <2>2
  <2> DEFINE d == [req[r] EXCEPT !.pc = pc, !.answer = text, !.apart = apart, !.cut = cut]
  <2>5. req' = [req EXCEPT ![r] = d] BY <2>1 DEF Return
  <2> HIDE DEF cut, apart, text
  <2>a. d \in Asks
    <3>1. req[r] \in Asks BY <1>0
    <3>2. QED BY <3>1, <2>3, <2>4 DEF Asks
  <2> HIDE DEF d
  <2>6. req' \in [PtyRequests -> Asks] BY <2>5, <2>a, <1>0
  <2>7. QED BY <2>1, <2>6 DEF Return
<1>6. CASE ServerStops \/ Close
  <2>1. server' \in {"up", "closing", "closed"} /\ UNCHANGED <<lock, req>>
        /\ (claude' = claude \/ claude' = NoAgent("none", claude.number))
    BY <1>6 DEF ServerStops, Close
  <2>2. QED BY <2>1, <1>0, <1>a, NoAgentIs
<1>7. CASE Write \/ Pause \/ Wipe \/ Exit
  <2>1. claude.screen \in Texts /\ claude.todo \in Texts BY PiecesAre
  <2> DEFINE s == Append(claude.screen, Head(claude.todo))
             t == Tail(claude.todo)
  <2>2. claude.todo # <<>> => s \in Texts /\ t \in Texts
    BY <2>1 DEF Texts
  <2>3. <<>> \in Texts BY DEF Texts
  <2>4. \/ claude.todo # <<>> /\ claude' = [claude EXCEPT !.screen = s, !.todo = t, !.pause = "no"]
        \/ claude' = [claude EXCEPT !.pause = "yes"] \/ claude' = [claude EXCEPT !.wiped = "yes"]
        \/ claude' = [claude EXCEPT !.life = "dead", !.todo = <<>>, !.pause = "no"]
    BY <1>7 DEF Write, Pause, Wipe, Exit
  <2> HIDE DEF s, t
  <2>5. claude' \in Agents BY <2>2, <2>3, <2>4, <1>0 DEF Agents
  <2>6. QED BY <2>5, <1>0, <1>7 DEF Write, Pause, Wipe, Exit
<1>8. CASE UNCHANGED ptyVars
  BY <1>0, <1>8 DEF ptyVars
<1>9. CASE PtyNext
  <2>1. CASE \E r \in PtyRequests :
                Arrive(r) \/ Lock(r) \/ EnsureStarted(r) \/ Ready(r) \/ NotReady(r)
                \/ Snapshot(r) \/ SendLine(r) \/ Stable(r) \/ TooLong(r)
    BY <2>1, <1>0, <1>1, <1>2, <1>3, <1>4, <1>5
  <2>2. QED BY <2>1, <1>6, <1>7, <1>9 DEF PtyNext
<1>10. QED BY <1>8, <1>9

-----------------------------------------------------------------------------
\* One request at a time has the mutex: the only one that types or reads.
LEMMA MutexKept == ASSUME PtyInv, [PtyNext]_ptyVars PROVE OneAtATime'
<1>1. req \in [PtyRequests -> Asks] /\ OneAtATime BY TypesAre DEF PtyInv
<1> USE PtyAssumption, <1>1 DEF OneAtATime, Holding
<1>2. ASSUME NEW r \in PtyRequests, NEW pc, Turn(r, pc), lock' = lock,
             req[r].pc \in Holding <=> pc \in Holding
      PROVE OneAtATime'
  BY <1>2 DEF Turn, Asks
<1>3. ASSUME NEW r \in PtyRequests, req[r].pc \in Holding, lock' = Nobody,
             req'[r].pc \notin Holding, \A q \in PtyRequests \ {r} : req'[q] = req[q]
      PROVE OneAtATime'
  BY <1>3
<1>4. ASSUME NEW r \in PtyRequests, Arrive(r) PROVE OneAtATime'
  BY <1>2, <1>4 DEF Arrive
<1>5. ASSUME NEW r \in PtyRequests, Lock(r) PROVE OneAtATime'
  BY <1>5 DEF Lock, Turn, Asks
<1>6. ASSUME NEW r \in PtyRequests, EnsureStarted(r) \/ Ready(r) \/ NotReady(r) PROVE OneAtATime'
  <2>1. req[r].pc \in Holding BY <1>6 DEF EnsureStarted, Ready, NotReady
  <2>2. \/ lock' = lock /\ (Turn(r, "snapshot") \/ Turn(r, "starting"))
        \/ lock' = Nobody /\ Turn(r, "failed")
    BY <1>6 DEF EnsureStarted, Ready, NotReady
  <2>3. CASE lock' = Nobody /\ Turn(r, "failed")
    BY <2>1, <2>3, <1>3 DEF Turn, Asks
  <2>4. QED BY <2>1, <2>2, <2>3, <1>2
<1>7. ASSUME NEW r \in PtyRequests, Snapshot(r) PROVE OneAtATime'
  BY <1>7 DEF Snapshot, Asks
<1>8. ASSUME NEW r \in PtyRequests, SendLine(r) PROVE OneAtATime'
  <2>1. req[r].pc = "send" BY <1>8 DEF SendLine
  <2>2. CASE Turn(r, "failed") /\ lock' = Nobody
    BY <2>1, <2>2, <1>3 DEF Turn, Asks
  <2>3. CASE lock' = lock /\ \E n \in 1 .. MaxPieces :
                                req' = [req EXCEPT ![r].pc = "sent", ![r].wants = n]
    BY <2>1, <2>3 DEF Asks
  <2>4. QED BY <1>8, <2>2, <2>3 DEF SendLine
<1>9. ASSUME NEW r \in PtyRequests, Stable(r) \/ TooLong(r) PROVE OneAtATime'
  <2>1. PICK pc \in {"answered", "failed"} : Return(r, pc) BY <1>9 DEF Stable, TooLong
  <2>2. req[r].pc = "sent" BY <1>9 DEF Stable, TooLong
  <2>3. req'[r].pc = pc /\ \A q \in PtyRequests \ {r} : req'[q] = req[q]
    BY <2>1 DEF Return, Asks
  <2>4. QED BY <2>1, <2>2, <2>3, <1>3 DEF Return
<1>10. CASE ServerStops \/ Close \/ Write \/ Pause \/ Wipe \/ Exit \/ UNCHANGED ptyVars
  BY <1>10 DEF ServerStops, Close, Write, Pause, Wipe, Exit, ptyVars
<1>11. QED BY <1>4, <1>5, <1>6, <1>7, <1>8, <1>9, <1>10 DEF PtyNext

\* No agent writes after its end, and nothing is typed before its start.
LEMMA LivingKept == ASSUME PtyInv, [PtyNext]_ptyVars PROVE Living'
<1>1. /\ req \in [PtyRequests -> Asks] /\ claude \in Agents /\ OneAtATime /\ Living
  BY TypesAre DEF PtyInv
<1> DEFINE Typing == {"snapshot", "send", "sent"}
<1>2. \A r, q \in PtyRequests : req[r].pc \in Holding /\ req[q].pc \in Typing => q = r
  BY <1>1 DEF OneAtATime, Holding
<1>3. ASSUME NEW r \in PtyRequests, Arrive(r) \/ Lock(r) PROVE Living'
  BY <1>1, <1>3 DEF Living, Arrive, Lock, Turn, Asks
<1>4. ASSUME NEW r \in PtyRequests, EnsureStarted(r) PROVE Living'
  <2>1. req[r].pc = "locked" /\ \A q \in PtyRequests : req[q].pc \notin Typing
    BY <1>2, <1>4 DEF EnsureStarted, Holding
  <2>2. CASE claude.life \in {"up", "dead"} /\ UNCHANGED claude
    BY <1>1, <2>2 DEF Living
  <2>3. CASE \E life, n : claude' = NoAgent(life, n) /\ (Turn(r, "starting") \/ Turn(r, "failed"))
    <3>1. \A q \in PtyRequests : req'[q].pc \in {"starting", "failed"} \/ req'[q].pc = req[q].pc
      BY <1>1, <2>3 DEF Turn, Asks
    <3>2. claude'.todo = <<>> BY <2>3 DEF NoAgent
    <3>3. QED BY <2>1, <3>1, <3>2 DEF Living
  <2>4. QED BY <2>2, <2>3, <1>4 DEF EnsureStarted
<1>5. ASSUME NEW r \in PtyRequests, Ready(r) PROVE Living'
  BY <1>1, <1>5 DEF Living, Ready, Agents
<1>6. ASSUME NEW r \in PtyRequests, NotReady(r) PROVE Living'
  <2>1. req[r].pc = "starting" /\ \A q \in PtyRequests : req[q].pc \notin Typing
    BY <1>2, <1>6 DEF NotReady, Holding
  <2>2. QED BY <1>1, <1>6, <2>1 DEF Living, NotReady, NoAgent, Turn, Asks
<1>7. ASSUME NEW r \in PtyRequests, Snapshot(r) PROVE Living'
  BY <1>1, <1>7 DEF Living, Snapshot, Asks, Agents
<1>8. ASSUME NEW r \in PtyRequests, SendLine(r) PROVE Living'
  <2>1. claude.life \in {"up", "dead"} BY <1>1, <1>8 DEF SendLine, Living
  <2>2. claude'.life = claude.life /\ (claude.life = "dead" => claude'.todo = claude.todo)
    BY <1>1, <1>8 DEF SendLine, Agents
  <2>3. QED BY <1>1, <2>1, <2>2 DEF Living
<1>9. ASSUME NEW r \in PtyRequests, Stable(r) \/ TooLong(r) PROVE Living'
  <2>1. PICK pc \in {"answered", "failed"} : Return(r, pc) BY <1>9 DEF Stable, TooLong
  <2>2. claude' = claude /\ \A q \in PtyRequests : req'[q].pc = pc \/ req'[q].pc = req[q].pc
    BY <1>1, <2>1 DEF Return, Asks
  <2>3. QED BY <1>1, <2>2 DEF Living
<1>10. CASE Close
  <2>1. \A q \in PtyRequests : req[q].pc \notin Typing
    BY <1>1, <1>10, PtyAssumption DEF Close, OneAtATime, Holding
  <2>2. QED BY <1>10, <2>1 DEF Close, Living, NoAgent
<1>11. CASE Write
  <2>1. claude'.life = "up" BY <1>1, <1>11 DEF Write, Agents
  <2>2. QED BY <2>1, <1>1, <1>11 DEF Write, Living
<1>12. CASE Exit
  BY <1>1, <1>12 DEF Exit, Living, Agents
<1>13. CASE Pause \/ Wipe \/ ServerStops \/ UNCHANGED ptyVars
  BY <1>1, <1>13 DEF Pause, Wipe, ServerStops, ptyVars, Living, Agents
<1>14. QED BY <1>3, <1>4, <1>5, <1>6, <1>7, <1>8, <1>9, <1>10, <1>11, <1>12, <1>13 DEF PtyNext

-----------------------------------------------------------------------------
\* Answers once given stay as they are, and so do the requests cut short.
LEMMA AnswersKept ==
  ASSUME PtyTypes, OwnAnswers, CutAtReturn,
         \A q \in PtyRequests : req[q].pc \in {"answered", "failed"} => req'[q] = req[q],
         \A q \in PtyRequests : req[q].pc \notin {"answered", "failed"} =>
            req'[q].pc # "answered" /\ (Cut(q)' => req'[q].pc = "failed")
  PROVE  OwnAnswers' /\ CutAtReturn'
<1>1. \A q \in PtyRequests : Cut(q) => Cut(q)' BY DEF CutAtReturn, Cut
<1>2. CutAtReturn' BY DEF CutAtReturn, Cut
<1>3. ASSUME NEW r \in PtyRequests, req'[r].pc = "answered"
      PROVE  req[r].pc = "answered" /\ req'[r] = req[r]
  BY <1>3
<1>4. ASSUME NEW r \in PtyRequests, req'[r].pc = "answered"
      PROVE  LET text == req'[r].answer
                 own == {i \in DOMAIN text : text[i] = r}
                 fits == IF req'[r].wants > Rows THEN Rows ELSE req'[r].wants
             IN /\ req'[r].apart = "yes" => \A i \in DOMAIN text \ own : req'[text[i]].cut = "yes"
                /\ req'[r].cut = "no" => (Len(text) - fits + 1) .. Len(text) \subseteq own
  <2> DEFINE text == req[r].answer
             own == {i \in DOMAIN text : text[i] = r}
             fits == IF req[r].wants > Rows THEN Rows ELSE req[r].wants
  <2>1. req[r].pc = "answered" /\ req'[r] = req[r] BY <1>3, <1>4
  <2>2. /\ req[r].apart = "yes" => \A i \in DOMAIN text \ own : req[text[i]].cut = "yes"
        /\ req[r].cut = "no" => (Len(text) - fits + 1) .. Len(text) \subseteq own
    BY <2>1 DEF OwnAnswers
  <2>3. \A i \in DOMAIN text : text[i] \in PtyRequests
    <3>1. text \in Seq(PtyRequests) BY TypesAre DEF Asks, Texts
    <3>2. QED BY <3>1
  <2>4. req[r].apart = "yes" => \A i \in DOMAIN text \ own : req'[text[i]].cut = "yes"
    BY <1>1, <2>2, <2>3 DEF Cut
  <2> HIDE DEF own, fits
  <2>5. QED BY <2>1, <2>2, <2>4 DEF own, fits
<1>5. QED BY <1>2, <1>4 DEF OwnAnswers

\* Nothing is under way when there is no agent, or a dead one, and nobody reads.
LEMMA Emptied ==
  ASSUME PtyTypes', claude'.todo = <<>>, \A q \in PtyRequests : req'[q].pc \notin {"send", "sent"}
  PROVE  Awaited' /\ Beyond' /\ Whole'
  BY DEF Awaited, Beyond, Whole

\* An agent with nothing to write works for nobody.
LEMMA NoneAwaited == ASSUME claude'.todo = <<>> PROVE Awaited'
  BY DEF Awaited

\* The pieces that a step leaves.
LEMMA PiecesThen ==
  ASSUME NEW s, NEW t, claude'.screen = s, claude'.todo = t
  PROVE  /\ Pieces' = Len(s) + Len(t)
         /\ \A i : Piece(i)' = IF i <= Len(s) THEN s[i] ELSE t[i - Len(s)]
  BY DEF Pieces, Piece

\* A request that goes on, and neither types nor returns, leaves things as they are.
LEMMA WentOn ==
  ASSUME PtyInv, NEW r \in PtyRequests, NEW pc \in {"waiting", "locked", "starting", "snapshot"},
         Turn(r, pc), req[r].pc \notin {"send", "sent", "answered", "failed"},
         claude'.screen = claude.screen, claude'.todo = claude.todo,
         claude'.life = claude.life \/ claude.life = "starting"
  PROVE  CutAtReturn' /\ Awaited' /\ Beyond' /\ Whole' /\ OwnAnswers'
<1>1. req \in [PtyRequests -> Asks] BY TypesAre DEF PtyInv
<1>2. /\ req'[r].pc = pc /\ req'[r].cut = req[r].cut
      /\ \A q \in PtyRequests \ {r} : req'[q] = req[q]
  BY <1>1 DEF Turn, Asks
<1>3. ~Cut(r) BY DEF PtyInv, CutAtReturn
<1>4. OwnAnswers' /\ CutAtReturn'
  <2>1. OwnAnswers /\ CutAtReturn BY DEF PtyInv
  <2>2. \A q \in PtyRequests : req[q].pc \in {"answered", "failed"} => req'[q] = req[q]
    BY <1>2
  <2>3. \A q \in PtyRequests : req[q].pc \notin {"answered", "failed"} =>
            req'[q].pc # "answered" /\ (Cut(q)' => req'[q].pc = "failed")
    BY <1>2, <1>3, <2>1 DEF Cut, CutAtReturn
  <2>4. QED BY <2>1, <2>2, <2>3, AnswersKept DEF PtyInv
<1>5. /\ \A q \in PtyRequests : Cut(q)' <=> Cut(q)
      /\ \A q \in PtyRequests : req'[q].pc \in {"send", "sent"} => req'[q] = req[q]
      /\ \A q \in PtyRequests : req[q].pc \in {"send", "sent"} => req'[q] = req[q]
  BY <1>2 DEF Cut
<1>6. Pieces' = Pieces /\ \A i : Piece(i)' = Piece(i) BY DEF Pieces, Piece
<1>7. \A i \in 1 .. Pieces : Piece(i) \in PtyRequests BY PiecesAre DEF PtyInv
<1>8. \A q \in PtyRequests : req[q].pc \in {"send", "sent"} => req[q].before \in Nat
  BY <1>1 DEF Asks
<1>9. Beyond'
  <2>1. Pieces \in Nat BY PiecesAre DEF PtyInv
  <2>2. \A q \in PtyRequests : req[q].pc \in {"send", "sent"} =>
           \A i \in req[q].before + 1 .. Pieces : Piece(i) \in PtyRequests
    BY <1>7, <1>8, <2>1
  <2>3. QED BY <1>5, <1>6, <2>2 DEF PtyInv, Beyond
<1>10. Whole'
  <2>1. \A q \in PtyRequests : req'[q].pc = "sent" => claude'.life = claude.life
    BY <1>5 DEF PtyInv, Living
  <2>2. QED BY <1>5, <1>6, <2>1 DEF PtyInv, Whole
<1>11. Awaited'
  <2>1. \A i \in DOMAIN claude.todo : claude.todo[i] \in PtyRequests
    BY PiecesAre DEF PtyInv, Texts
  <2>2. QED BY <1>5, <2>1 DEF PtyInv, Awaited
<1>12. QED BY <1>4, <1>9, <1>10, <1>11

\* A prompt is typed, and its answer comes after what was to be written.
LEMMA Typed ==
  ASSUME PtyInv, NEW r \in PtyRequests, req[r].pc = "send", NEW n \in 1 .. MaxPieces,
         req' = [req EXCEPT ![r].pc = "sent", ![r].wants = n],
         claude' = IF claude.life = "up"
                   THEN [claude EXCEPT !.todo = @ \o [i \in 1 .. n |-> r]] ELSE claude
  PROVE  CutAtReturn' /\ Awaited' /\ Beyond' /\ Whole' /\ OwnAnswers'
<1>1. req \in [PtyRequests -> Asks] /\ claude \in Agents BY TypesAre DEF PtyInv
<1>2. /\ req'[r].pc = "sent" /\ req'[r].wants = n /\ req'[r].before = req[r].before
      /\ req'[r].cut = req[r].cut
      /\ \A q \in PtyRequests \ {r} : req'[q] = req[q]
  BY <1>1 DEF Asks
<1>3. ~Cut(r) BY DEF PtyInv, CutAtReturn
<1>4. OwnAnswers' /\ CutAtReturn'
  <2>1. OwnAnswers /\ CutAtReturn BY DEF PtyInv
  <2>2. \A q \in PtyRequests : req[q].pc \in {"answered", "failed"} => req'[q] = req[q]
    BY <1>2
  <2>3. \A q \in PtyRequests : req[q].pc \notin {"answered", "failed"} =>
            req'[q].pc # "answered" /\ (Cut(q)' => req'[q].pc = "failed")
    BY <1>2, <1>3, <2>1 DEF Cut, CutAtReturn
  <2>4. QED BY <2>1, <2>2, <2>3, AnswersKept DEF PtyInv
<1>5. \A q \in PtyRequests : (Cut(q)' <=> Cut(q)) /\ (req[q].pc = "sent" => req'[q].pc = "sent")
  BY <1>2 DEF Cut
<1>6. \A q \in PtyRequests : req[q].pc \in {"send", "sent"} => q = r
  BY DEF PtyInv, OneAtATime, Holding
<1>7. /\ claude.screen \in Texts /\ claude.todo \in Texts
      /\ Len(claude.screen) \in Nat /\ Len(claude.todo) \in Nat /\ Pieces \in Nat
      /\ Len(claude.screen) <= Pieces
      /\ DOMAIN claude.todo = 1 .. Len(claude.todo)
      /\ \A i \in 1 .. Pieces : Piece(i) \in PtyRequests
  BY PiecesAre DEF PtyInv
<1>8. /\ req[r].before \in Nat /\ req[r].before <= Len(claude.screen)
      /\ \A i \in req[r].before + 1 .. Pieces : Cut(Piece(i))
  BY <1>1 DEF PtyInv, Beyond, Asks
<1>9. n \in Nat BY PtyAssumption
<1>10. CASE claude.life = "up"
  <2> DEFINE s == claude.screen
             t == claude.todo
             more == t \o [i \in 1 .. n |-> r]
  <2>1. claude'.screen = s /\ claude'.todo = more /\ claude'.life = claude.life
    BY <1>1, <1>10 DEF Agents
  <2>2. /\ Len(more) = Len(t) + n
        /\ \A i \in 1 .. Len(t) : more[i] = t[i]
        /\ \A i \in Len(t) + 1 .. Len(t) + n : more[i] = r
        /\ DOMAIN more = 1 .. Len(t) + n
    BY <1>7, <1>9 DEF Texts
  <2>3. Pieces = Len(s) + Len(t) /\ \A i : Piece(i) = IF i <= Len(s) THEN s[i] ELSE t[i - Len(s)]
    BY DEF Pieces, Piece
  <2>5. Len(s) \in Nat /\ Len(t) \in Nat BY <1>7
  <2> HIDE DEF s, t, more
  <2>4. /\ Pieces' = Len(s) + Len(more)
        /\ \A i : Piece(i)' = IF i <= Len(s) THEN s[i] ELSE more[i - Len(s)]
    BY <2>1, PiecesThen, ZenonT(30)
  <2>6. /\ Pieces' = Pieces + n
        /\ \A i \in 1 .. Pieces : Piece(i)' = Piece(i)
        /\ \A i \in Pieces + 1 .. Pieces + n : Piece(i)' = r
    <3>1. Pieces' = Pieces + n BY <2>2, <2>3, <2>4, <2>5, <1>9
    <3>2. ASSUME NEW i \in 1 .. Pieces PROVE Piece(i)' = Piece(i)
      <4>1. CASE i <= Len(s) BY <4>1, <2>3, <2>4
      <4>2. CASE ~(i <= Len(s))
        <5>1. i - Len(s) \in 1 .. Len(t) BY <4>2, <2>3, <2>5
        <5>2. QED BY <5>1, <4>2, <2>2, <2>3, <2>4
      <4>3. QED BY <4>1, <4>2
    <3>3. ASSUME NEW i \in Pieces + 1 .. Pieces + n PROVE Piece(i)' = r
      <4>1. ~(i <= Len(s)) /\ i - Len(s) \in Len(t) + 1 .. Len(t) + n
        BY <2>3, <2>5, <1>9
      <4>2. QED BY <4>1, <2>2, <2>4
    <3>4. QED BY <3>1, <3>2, <3>3
  <2>7. /\ \A i \in req[r].before + 1 .. Pieces :
              Piece(i)' = Piece(i) /\ Piece(i) \in PtyRequests /\ Cut(Piece(i)) /\ Piece(i) # r
        /\ \A i \in req[r].before + 1 .. Pieces + n : i \in 1 .. Pieces \/ i \in Pieces + 1 .. Pieces + n
        /\ \A i \in req[r].before + 1 .. Pieces + n :
              i \in 1 .. Pieces => i \in req[r].before + 1 .. Pieces
    BY <2>6, <1>7, <1>8, <1>9, <1>3, SMTT(30)
  <2>8. Beyond'
    <3>1. \A q \in PtyRequests : req'[q].pc \in {"send", "sent"} => q = r BY <1>2, <1>6
    <3>2. req'[r].before <= Len(claude'.screen) BY <1>2, <1>8, <2>1 DEF s
    <3>3. \A i \in req'[r].before + 1 .. Pieces' : Piece(i)' = r \/ Cut(Piece(i))'
      <4>1. TAKE i \in req'[r].before + 1 .. Pieces'
      <4>2. i \in req[r].before + 1 .. Pieces + n BY <1>2, <2>6
      <4>3. CASE i \in 1 .. Pieces
        <5>1. i \in req[r].before + 1 .. Pieces BY <4>2, <4>3, <2>7
        <5>2. Piece(i)' = Piece(i) /\ Piece(i) \in PtyRequests /\ Cut(Piece(i)) BY <5>1, <2>7
        <5>3. QED BY <5>2, <1>5 DEF Cut
      <4>4. CASE i \in Pieces + 1 .. Pieces + n BY <4>4, <2>6
      <4>5. QED BY <4>2, <4>3, <4>4, <2>7
    <3>4. QED BY <3>1, <3>2, <3>3, <1>2 DEF Beyond, Cut
  <2>9. Whole'
    <3>1. \A q \in PtyRequests : req'[q].pc = "sent" => q = r BY <1>2, <1>6
    <3>2. req'[r].before + req'[r].wants <= Pieces' BY <1>2, <2>6, <1>7, <1>8, <1>9
    <3>3. \A i \in req'[r].before + 1 .. Pieces' :
             Piece(i)' = r <=> i > Pieces' - req'[r].wants
      <4>1. TAKE i \in req'[r].before + 1 .. Pieces'
      <4>2. i \in req[r].before + 1 .. Pieces + n BY <1>2, <2>6
      <4>3. Pieces' - req'[r].wants = Pieces BY <1>2, <2>6, <1>7, <1>9
      <4>4. CASE i \in 1 .. Pieces
        <5>1. i \in req[r].before + 1 .. Pieces BY <4>2, <4>4, <2>7
        <5>2. Piece(i)' # r BY <5>1, <2>7
        <5>3. QED BY <5>2, <4>3, <4>4, <1>7
      <4>5. CASE i \in Pieces + 1 .. Pieces + n BY <4>5, <4>3, <2>6, <1>7, <1>9
      <4>6. QED BY <4>2, <4>4, <4>5, <2>7
    <3>4. QED BY <3>1, <3>2, <3>3 DEF Whole
  <2>10. Awaited'
    <3>1. \A i \in DOMAIN claude.todo : claude.todo[i] \in PtyRequests
      BY <1>7 DEF Texts
    <3>2. DOMAIN more = 1 .. Len(t) + n /\ DOMAIN claude.todo = 1 .. Len(t)
      BY <2>2, <1>7 DEF t
    <3>3. \A i \in 1 .. Len(t) + n : i \in 1 .. Len(t) \/ i \in Len(t) + 1 .. Len(t) + n
      BY <2>5, <1>9
    <3>4. ASSUME NEW i \in 1 .. Len(t) + n
          PROVE  req'[more[i]].pc = "sent" \/ req'[more[i]].cut = "yes"
      <4>1. CASE i \in 1 .. Len(t)
        <5>1. more[i] = claude.todo[i] /\ i \in DOMAIN claude.todo BY <4>1, <2>2, <3>2 DEF t
        <5>2. req[claude.todo[i]].pc = "sent" \/ Cut(claude.todo[i]) BY <5>1 DEF PtyInv, Awaited
        <5>3. QED BY <5>1, <5>2, <3>1, <1>5 DEF Cut
      <4>2. CASE i \in Len(t) + 1 .. Len(t) + n BY <4>2, <2>2, <1>2
      <4>3. QED BY <4>1, <4>2, <3>3
    <3>5. QED BY <3>2, <3>4, <2>1 DEF Awaited, Cut
  <2>11. QED BY <1>4, <2>8, <2>9, <2>10
<1>11. CASE claude.life # "up"
  <2>1. claude' = claude /\ claude.todo = <<>> BY <1>11 DEF PtyInv, Living
  <2>2. Awaited'
    <3>1. claude'.todo = <<>> BY <2>1
    <3>2. QED BY <3>1, NoneAwaited
  <2>3. Whole' BY <2>1, <1>11 DEF Whole
  <2>4. Beyond'
    <3>1. Pieces' = Pieces /\ \A i : Piece(i)' = Piece(i) BY <2>1 DEF Pieces, Piece
    <3>2. \A i \in req[r].before + 1 .. Pieces : Piece(i) \in PtyRequests /\ Cut(Piece(i))
      BY <1>7, <1>8
    <3>3. \A q \in PtyRequests : req'[q].pc \in {"send", "sent"} => q = r BY <1>2, <1>6
    <3>4. req'[r].before <= Len(claude'.screen) BY <1>2, <1>8, <2>1
    <3>5. \A i \in req'[r].before + 1 .. Pieces' : Cut(Piece(i))'
      <4>1. TAKE i \in req'[r].before + 1 .. Pieces'
      <4>2. Piece(i) \in PtyRequests /\ Cut(Piece(i)) BY <1>2, <3>1, <3>2
      <4>3. req'[Piece(i)].cut = "yes" BY <4>2, <1>5 DEF Cut
      <4>4. QED BY <4>3, <3>1 DEF Cut
    <3>6. QED BY <3>3, <3>4, <3>5 DEF Beyond, Cut
  <2>5. QED BY <1>4, <2>2, <2>3, <2>4
<1>12. QED BY <1>10, <1>11

\* The screen is remembered: what is still to be written belongs to others.
LEMMA Remembered ==
  ASSUME PtyInv, NEW r \in PtyRequests, Snapshot(r)
  PROVE  CutAtReturn' /\ Awaited' /\ Beyond' /\ Whole' /\ OwnAnswers'
<1>1. req \in [PtyRequests -> Asks] /\ claude \in Agents BY TypesAre DEF PtyInv
<1>2. /\ req[r].pc = "snapshot" /\ claude'.screen = claude.screen /\ claude'.todo = claude.todo
      /\ req'[r].pc = "send" /\ req'[r].before = Len(claude.screen) /\ req'[r].cut = req[r].cut
      /\ \A q \in PtyRequests \ {r} : req'[q] = req[q]
  BY <1>1 DEF Snapshot, Asks, Agents
<1>3. ~Cut(r) BY <1>2 DEF PtyInv, CutAtReturn
<1>4. OwnAnswers' /\ CutAtReturn'
  <2>1. OwnAnswers /\ CutAtReturn BY DEF PtyInv
  <2>2. \A q \in PtyRequests : req[q].pc \in {"answered", "failed"} => req'[q] = req[q]
    BY <1>2
  <2>3. \A q \in PtyRequests : req[q].pc \notin {"answered", "failed"} =>
            req'[q].pc # "answered" /\ (Cut(q)' => req'[q].pc = "failed")
    BY <1>2, <1>3, <2>1 DEF Cut, CutAtReturn
  <2>4. QED BY <2>1, <2>2, <2>3, AnswersKept DEF PtyInv
<1>5. \A q \in PtyRequests : (Cut(q)' <=> Cut(q)) /\ req[q].pc # "sent"
  <2>1. \A q \in PtyRequests : Cut(q)' <=> Cut(q) BY <1>2 DEF Cut
  <2>2. \A q \in PtyRequests : req[q].pc # "sent"
    BY <1>2 DEF PtyInv, OneAtATime, Holding
  <2>3. QED BY <2>1, <2>2
<1>6. \A q \in PtyRequests : req'[q].pc \in {"send", "sent"} => q = r
  <2>1. \A q \in PtyRequests : req[q].pc \in Holding => q = r
    BY <1>2 DEF PtyInv, OneAtATime, Holding
  <2>2. QED BY <1>2, <2>1 DEF Holding
<1>7. /\ Len(claude.screen) \in Nat /\ Pieces \in Nat
      /\ DOMAIN claude.todo = 1 .. Len(claude.todo)
      /\ \A i \in Len(claude.screen) + 1 .. Pieces :
            /\ i - Len(claude.screen) \in 1 .. Len(claude.todo)
            /\ Piece(i) = claude.todo[i - Len(claude.screen)]
      /\ \A i \in 1 .. Pieces : Piece(i) \in PtyRequests
  BY PiecesAre DEF PtyInv
<1>8. \A i \in DOMAIN claude.todo : claude.todo[i] \in PtyRequests /\ Cut(claude.todo[i])
  <2>1. \A i \in DOMAIN claude.todo : claude.todo[i] \in PtyRequests
    BY PiecesAre DEF PtyInv, Texts
  <2>2. QED BY <2>1, <1>5 DEF PtyInv, Awaited
<1>9. Pieces' = Pieces /\ \A i : Piece(i)' = Piece(i) BY <1>2 DEF Pieces, Piece
<1>10. Awaited' BY <1>2, <1>5, <1>8 DEF Awaited
<1>11. Whole' BY <1>2, <1>6 DEF Whole
<1>12. Beyond'
  <2>1. ASSUME NEW i \in Len(claude.screen) + 1 .. Pieces PROVE Cut(Piece(i))'
    <3>1. Piece(i) \in PtyRequests /\ Cut(Piece(i)) BY <1>7, <1>8
    <3>2. req'[Piece(i)].cut = "yes" BY <3>1, <1>5 DEF Cut
    <3>3. QED BY <3>2, <1>9 DEF Cut
  <2>2. QED BY <2>1, <1>2, <1>6, <1>7, <1>9 DEF Beyond
<1>13. QED BY <1>4, <1>10, <1>11, <1>12

\* What a request cuts out of the screen is what came after what it had seen, ...
LEMMA Extracted ==
  ASSUME PtyInv, NEW r \in PtyRequests, req[r].pc = "sent", Apart(r)
  PROVE  /\ Len(Extract(r)) = Len(claude.screen) - req[r].before
         /\ DOMAIN Extract(r) = 1 .. Len(claude.screen) - req[r].before
         /\ \A i \in DOMAIN Extract(r) : Extract(r)[i] = Piece(req[r].before + i)
<1> DEFINE s == claude.screen
           b == req[r].before
           e == Extract(r)
<1>1. b \in Nat /\ b <= Len(s) BY TypesAre DEF PtyInv, Beyond, Asks
<1>2. s \in Seq(PtyRequests) /\ Len(s) \in Nat /\ \A i \in 1 .. Len(s) : Piece(i) = s[i]
  BY PiecesAre DEF PtyInv, Texts
<1>3. e = SubSeq(s, b + 1, Len(s)) BY DEF Extract
<1> HIDE DEF s, b, e
<1>4. /\ Len(e) = Len(s) - b /\ DOMAIN e = 1 .. Len(s) - b
      /\ \A i \in 1 .. Len(s) - b : e[i] = s[b + i]
  BY <1>1, <1>2, <1>3
<1>5. \A i \in 1 .. Len(s) - b : b + i \in 1 .. Len(s) BY <1>1, <1>2
<1>6. \A i \in 1 .. Len(s) - b : e[i] = Piece(b + i) BY <1>2, <1>4, <1>5
<1>7. QED BY <1>1, <1>4, <1>6 DEF s, b, e

\* ... and a screen that has scrolled shows the last of its pieces.
LEMMA Scrolled ==
  ASSUME PtyInv, NEW r \in PtyRequests, ~Apart(r), Len(claude.screen) > Rows
  PROVE  /\ Len(Extract(r)) = Rows /\ DOMAIN Extract(r) = 1 .. Rows
         /\ \A i \in 1 .. Rows : Extract(r)[i] = Piece(Len(claude.screen) - Rows + i)
<1> DEFINE s == claude.screen
           n == Len(s)
           e == Extract(r)
<1>1. s \in Seq(PtyRequests) /\ n \in Nat /\ \A i \in 1 .. n : Piece(i) = s[i]
  BY PiecesAre DEF PtyInv, Texts
<1>2. e = SubSeq(s, n - Rows + 1, n) BY DEF Extract, Visible
<1>3. Rows \in Nat /\ Rows > 0 /\ n > Rows BY PtyAssumption
<1> HIDE DEF s, n, e
<1>a. n = Len(s) BY DEF n
<1>4. n - Rows + 1 \in 1 .. n BY <1>1, <1>3
<1>5. /\ Len(e) = Rows /\ DOMAIN e = 1 .. Rows
      /\ \A i \in 1 .. Rows : e[i] = s[(n - Rows) + i]
  <2> DEFINE m == n - Rows
  <2>1. m \in Nat /\ m + 1 = n - Rows + 1 /\ n - m = Rows /\ m <= n BY <1>1, <1>3
  <2>2. e = SubSeq(s, m + 1, n) BY <2>1, <1>2
  <2> HIDE DEF m
  <2>3. /\ Len(e) = n - m /\ DOMAIN e = 1 .. n - m
        /\ \A i \in 1 .. n - m : e[i] = s[m + i]
    BY <2>1, <2>2, <1>1, <1>a
  <2>4. QED BY <2>1, <2>3 DEF m
<1>6. \A i \in 1 .. Rows : (n - Rows) + i \in 1 .. n BY <1>1, <1>3
<1>7. \A i \in 1 .. Rows : e[i] = Piece((n - Rows) + i) BY <1>1, <1>5, <1>6
<1>8. QED BY <1>5, <1>7 DEF s, n, e

\* A request that returns has its own answer last, unless it is cut short.
LEMMA Returned ==
  ASSUME PtyInv, NEW r \in PtyRequests, req[r].pc = "sent",
         NEW pc \in {"answered", "failed"}, Return(r, pc)
  PROVE  CutAtReturn' /\ Awaited' /\ Beyond' /\ Whole' /\ OwnAnswers'
<1> DEFINE text == Extract(r)
           b == req[r].before
           own == {i \in DOMAIN text : text[i] = r}
           n == Len(claude.screen)
           w == req[r].wants
           fits == IF w > Rows THEN Rows ELSE w
<1>1. req \in [PtyRequests -> Asks] BY TypesAre DEF PtyInv
<1>2. /\ claude' = claude
      /\ req'[r].pc = pc /\ req'[r].answer = text /\ req'[r].wants = w
      /\ req'[r].apart = "yes" => Apart(r)
      /\ req'[r].cut = "no" => claude.todo = <<>> /\ claude.life = "up"
      /\ req'[r].cut = "no" \/ req'[r].cut = "yes"
      /\ \A q \in PtyRequests \ {r} : req'[q] = req[q]
  BY <1>1 DEF Return, Asks
<1>3. \A q \in PtyRequests : req[q].pc \in {"send", "sent"} => q = r
  BY DEF PtyInv, OneAtATime, Holding
<1>4. \A q \in PtyRequests : req'[q].pc \notin {"send", "sent"} BY <1>2, <1>3
<1>5. Beyond' /\ Whole' BY <1>4 DEF Beyond, Whole
<1>6. \A q \in PtyRequests : Cut(q) => Cut(q)' BY <1>2 DEF Cut, CutAtReturn, PtyInv
<1>7. CutAtReturn' BY <1>2 DEF PtyInv, CutAtReturn, Cut
<1>8. Awaited'
  <2>1. CASE req'[r].cut = "no"
    BY <1>2, <2>1, NoneAwaited
  <2>2. CASE req'[r].cut = "yes"
    <3>1. \A i \in DOMAIN claude.todo : claude.todo[i] \in PtyRequests
      BY PiecesAre DEF PtyInv, Texts
    <3>2. \A i \in DOMAIN claude.todo : req'[claude.todo[i]].cut = "yes"
      BY <1>3, <1>6, <2>2, <3>1 DEF PtyInv, Awaited, Cut
    <3>3. QED BY <1>2, <3>2 DEF Awaited, Cut
  <2>3. QED BY <1>2, <2>1, <2>2
<1>9. /\ b \in Nat /\ b <= n /\ n \in Nat /\ w \in Nat /\ Pieces \in Nat /\ n <= Pieces
      /\ Rows \in Nat /\ Rows > 0
      /\ \A i \in 1 .. Pieces : Piece(i) \in PtyRequests
  <2>1. w \in Nat /\ b \in Nat BY <1>1, PtyAssumption DEF Asks
  <2>2. b <= n BY DEF PtyInv, Beyond
  <2>3. QED BY <2>1, <2>2, PiecesAre, PtyAssumption DEF PtyInv
<1>10. Apart(r) => /\ Len(text) = n - b /\ DOMAIN text = 1 .. n - b
                   /\ \A i \in DOMAIN text : text[i] = Piece(b + i)
  BY Extracted
<1>11. n > Rows /\ ~Apart(r) => /\ Len(text) = Rows /\ DOMAIN text = 1 .. Rows
                                /\ \A i \in 1 .. Rows : text[i] = Piece(n - Rows + i)
  BY Scrolled
<1>a. Apart(r) <=> b < n /\ n <= Rows BY DEF Apart
<1>b. /\ req'[r].cut = "no" => Pieces = n
      /\ req'[r].cut = "no" =>
            b + w <= Pieces /\ \A i \in b + 1 .. Pieces : Piece(i) = r <=> i > Pieces - w
  <2>1. claude.todo = <<>> => Pieces = n BY <1>9 DEF Pieces
  <2>2. QED BY <1>2, <2>1 DEF PtyInv, Whole
<1>c. \A i \in b + 1 .. Pieces : Piece(i) = r \/ Cut(Piece(i)) BY DEF PtyInv, Beyond
<1> HIDE DEF text, b, n, w
<1>12. ASSUME req'[r].apart = "yes" PROVE \A i \in DOMAIN text \ own : req'[text[i]].cut = "yes"
  <2>1. ASSUME NEW i \in DOMAIN text, text[i] # r PROVE req'[text[i]].cut = "yes"
    <3>1. text[i] = Piece(b + i) /\ b + i \in b + 1 .. Pieces /\ b + i \in 1 .. Pieces
      BY <1>2, <1>9, <1>10, <1>12
    <3>2. Piece(b + i) \in PtyRequests BY <3>1, <1>9
    <3>3. Cut(Piece(b + i)) BY <2>1, <3>1, <1>c
    <3>4. QED BY <3>1, <3>2, <3>3, <1>6 DEF Cut
  <2>2. QED BY <2>1
<1>13. ASSUME req'[r].cut = "no" PROVE (Len(text) - fits + 1) .. Len(text) \subseteq own
  <2>1. Pieces = n /\ b + w <= n /\ \A i \in b + 1 .. n : Piece(i) = r <=> i > n - w
    BY <1>b, <1>13
  <2>2. fits \in Nat /\ fits <= w /\ fits <= Rows BY <1>9
  <2> HIDE DEF fits
  <2>3. CASE Apart(r)
    <3>1. ASSUME NEW i \in (Len(text) - fits + 1) .. Len(text) PROVE i \in own
      <4>1. i \in 1 .. n - b /\ b + i \in b + 1 .. n /\ b + i > n - w
        BY <2>1, <2>2, <2>3, <1>9, <1>10
      <4>2. text[i] = Piece(b + i) /\ i \in DOMAIN text BY <4>1, <2>3, <1>10
      <4>3. QED BY <4>1, <4>2, <2>1
    <3>2. QED BY <3>1
  <2>4. CASE ~Apart(r) /\ n > Rows
    <3>1. ASSUME NEW i \in (Len(text) - fits + 1) .. Len(text) PROVE i \in own
      <4>1. i \in 1 .. Rows /\ n - Rows + i \in b + 1 .. n /\ n - Rows + i > n - w
        BY <2>1, <2>2, <2>4, <1>9, <1>11
      <4>2. text[i] = Piece(n - Rows + i) /\ i \in DOMAIN text BY <4>1, <2>4, <1>11
      <4>3. QED BY <4>1, <4>2, <2>1
    <3>2. QED BY <3>1
  <2>5. CASE ~Apart(r) /\ ~(n > Rows)
    <3>1. n = b /\ w = 0 BY <2>1, <2>5, <1>9, <1>a
    <3>2. fits = 0 BY <3>1, <2>2, <1>9
    <3>3. Len(text) \in Nat
      <4>1. text \in Texts BY Read DEF text, PtyInv
      <4>2. QED BY <4>1 DEF Texts
    <3>4. QED BY <3>2, <3>3
  <2>6. QED BY <2>3, <2>4, <2>5
<1>14. OwnAnswers'
  <2>1. ASSUME NEW q \in PtyRequests, req'[q].pc = "answered"
        PROVE  LET u == req'[q].answer
                   o == {i \in DOMAIN u : u[i] = q}
                   f == IF req'[q].wants > Rows THEN Rows ELSE req'[q].wants
               IN /\ req'[q].apart = "yes" => \A i \in DOMAIN u \ o : req'[u[i]].cut = "yes"
                  /\ req'[q].cut = "no" => (Len(u) - f + 1) .. Len(u) \subseteq o
    <3>1. CASE q = r
      BY <3>1, <1>2, <1>12, <1>13
    <3>2. CASE q # r
      <4> DEFINE u == req[q].answer
                 o == {i \in DOMAIN u : u[i] = q}
                 f == IF req[q].wants > Rows THEN Rows ELSE req[q].wants
      <4>1. req[q].pc = "answered" /\ req'[q] = req[q] BY <2>1, <3>2, <1>2
      <4>2. /\ req[q].apart = "yes" => \A i \in DOMAIN u \ o : req[u[i]].cut = "yes"
            /\ req[q].cut = "no" => (Len(u) - f + 1) .. Len(u) \subseteq o
        BY <4>1 DEF PtyInv, OwnAnswers
      <4>3. \A i \in DOMAIN u : u[i] \in PtyRequests
        <5>1. u \in Seq(PtyRequests) BY <1>1 DEF Asks, Texts
        <5>2. QED BY <5>1
      <4>4. req[q].apart = "yes" => \A i \in DOMAIN u \ o : req'[u[i]].cut = "yes"
        BY <4>2, <4>3, <1>6 DEF Cut
      <4> HIDE DEF o, f
      <4>5. QED BY <4>1, <4>2, <4>4 DEF o, f
    <3>3. QED BY <3>1, <3>2
  <2>2. QED BY <2>1 DEF OwnAnswers
<1>15. QED BY <1>5, <1>7, <1>8, <1>14

\* The agent writes: what was to be written is on the screen.
LEMMA Written ==
  ASSUME PtyInv, Write
  PROVE  CutAtReturn' /\ Awaited' /\ Beyond' /\ Whole' /\ OwnAnswers'
<1> DEFINE s == claude.screen
           t == claude.todo
<1>1. /\ claude \in Agents /\ t # <<>> /\ claude.life = "up" /\ req' = req
      /\ claude'.screen = Append(s, Head(t)) /\ claude'.todo = Tail(t) /\ claude'.life = "up"
  BY TypesAre DEF PtyInv, Write, Agents
<1>2. s \in Seq(PtyRequests) /\ t \in Seq(PtyRequests) BY PiecesAre DEF PtyInv, Texts
<1>3. Pieces = Len(s) + Len(t) /\ \A i : Piece(i) = IF i <= Len(s) THEN s[i] ELSE t[i - Len(s)]
  BY DEF Pieces, Piece
<1>4. /\ Pieces' = Len(Append(s, Head(t))) + Len(Tail(t))
      /\ \A i : Piece(i)' = IF i <= Len(Append(s, Head(t)))
                            THEN Append(s, Head(t))[i] ELSE Tail(t)[i - Len(Append(s, Head(t)))]
  BY <1>1, PiecesThen
<1> HIDE DEF s, t
<1>5. /\ Len(s) \in Nat /\ Len(t) \in Nat /\ Len(t) >= 1
      /\ Len(Append(s, Head(t))) = Len(s) + 1 /\ Len(Tail(t)) = Len(t) - 1
      /\ \A i \in 1 .. Len(s) : Append(s, Head(t))[i] = s[i]
      /\ Append(s, Head(t))[Len(s) + 1] = t[1]
      /\ \A i \in 1 .. Len(t) - 1 : Tail(t)[i] = t[i + 1]
      /\ DOMAIN Tail(t) = 1 .. Len(t) - 1 /\ DOMAIN t = 1 .. Len(t)
  <2>1. Len(t) \in Nat /\ Len(t) >= 1 BY <1>1, <1>2
  <2>2. Len(Tail(t)) = Len(t) - 1 /\ \A i \in 1 .. Len(t) - 1 : Tail(t)[i] = t[i + 1]
    BY <1>1, <1>2
  <2>3. Tail(t) \in Seq(PtyRequests) BY <1>1, <1>2
  <2>4. DOMAIN Tail(t) = 1 .. Len(t) - 1 /\ DOMAIN t = 1 .. Len(t) BY <1>2, <2>2, <2>3
  <2>5. /\ Len(s) \in Nat /\ Len(Append(s, Head(t))) = Len(s) + 1
        /\ \A i \in 1 .. Len(s) : Append(s, Head(t))[i] = s[i]
        /\ Append(s, Head(t))[Len(s) + 1] = Head(t)
    BY <1>2, AppendProperties
  <2>6. Head(t) = t[1] OBVIOUS
  <2>7. QED BY <2>1, <2>2, <2>4, <2>5, <2>6
<1>6. Pieces \in Nat /\ Pieces' = Pieces
  <2> DEFINE a == Len(Append(s, Head(t)))
             b == Len(Tail(t))
             m == Len(s)
             n == Len(t)
  <2>1. Pieces = m + n /\ Pieces' = a + b /\ m \in Nat /\ n \in Nat /\ a = m + 1 /\ b = n - 1
    BY <1>3, <1>4, <1>5
  <2> HIDE DEF a, b, m, n
  <2>2. QED BY <2>1
<1>7. ASSUME NEW i \in 1 .. Pieces PROVE Piece(i)' = Piece(i)
  <2>1. CASE i <= Len(s) BY <2>1, <1>3, <1>4, <1>5
  <2>2. CASE i = Len(s) + 1
    <3>1. Piece(i) = t[1] BY <2>2, <1>3, <1>5
    <3>2. Piece(i)' = Append(s, Head(t))[Len(s) + 1] BY <2>2, <1>4, <1>5
    <3>3. QED BY <3>1, <3>2, <1>5
  <2>3. CASE i > Len(s) + 1
    <3>1. i - (Len(s) + 1) \in 1 .. Len(t) - 1 BY <2>3, <1>3, <1>5
    <3>2. Piece(i)' = Tail(t)[i - (Len(s) + 1)] BY <2>3, <1>4, <1>5, <1>3, SMTT(30)
    <3>3. Piece(i) = t[i - Len(s)] BY <2>3, <1>3, <1>5
    <3>4. (i - (Len(s) + 1)) + 1 = i - Len(s) BY <1>3, <1>5
    <3>5. QED BY <3>1, <3>2, <3>3, <3>4, <1>5
  <2>4. QED BY <2>1, <2>2, <2>3, <1>3, <1>5
<1>8. Awaited'
  <2>1. \A i \in 1 .. Len(t) - 1 : i + 1 \in DOMAIN t /\ Tail(t)[i] = t[i + 1] BY <1>5
  <2>2. \A i \in DOMAIN t : req[t[i]].pc = "sent" \/ req[t[i]].cut = "yes"
    BY DEF PtyInv, Awaited, Cut, t
  <2>3. \A i \in DOMAIN Tail(t) : req[Tail(t)[i]].pc = "sent" \/ req[Tail(t)[i]].cut = "yes"
    BY <2>1, <2>2, <1>5
  <2>4. QED BY <2>3, <1>1 DEF Awaited, Cut
<1>9. \A q \in PtyRequests : req[q].pc \in {"send", "sent"} =>
          /\ req[q].before \in Nat
          /\ \A i \in req[q].before + 1 .. Pieces : Piece(i)' = Piece(i)
  <2>1. req \in [PtyRequests -> Asks] BY TypesAre DEF PtyInv
  <2>2. \A q \in PtyRequests : req[q].before \in Nat BY <2>1 DEF Asks
  <2>3. QED BY <2>2, <1>6, <1>7
<1>10. Beyond'
  <2>1. ASSUME NEW q \in PtyRequests, req[q].pc \in {"send", "sent"}
        PROVE  /\ req[q].before <= Len(claude'.screen)
               /\ \A i \in req[q].before + 1 .. Pieces' :
                     (Piece(i)' = q /\ req[q].pc = "sent") \/ req[Piece(i)'].cut = "yes"
    <3>1. /\ req[q].before <= Len(s)
          /\ \A i \in req[q].before + 1 .. Pieces :
                (Piece(i) = q /\ req[q].pc = "sent") \/ req[Piece(i)].cut = "yes"
      BY <2>1 DEF PtyInv, Beyond, Cut, s
    <3>2. req[q].before <= Len(claude'.screen) BY <2>1, <3>1, <1>1, <1>5, <1>9
    <3>3. QED BY <2>1, <3>1, <3>2, <1>6, <1>9
  <2>2. QED BY <2>1, <1>1 DEF Beyond, Cut
<1>11. Whole'
  <2>1. ASSUME NEW q \in PtyRequests, req[q].pc = "sent"
        PROVE  /\ req[q].before + req[q].wants <= Pieces
               /\ \A i \in req[q].before + 1 .. Pieces : Piece(i) = q <=> i > Pieces - req[q].wants
    BY <2>1, <1>1 DEF PtyInv, Whole
  <2>2. ASSUME NEW q \in PtyRequests, req[q].pc = "sent"
        PROVE  \A i \in req[q].before + 1 .. Pieces : Piece(i)' = q <=> i > Pieces - req[q].wants
    BY <2>1, <2>2, <1>9
  <2>3. QED BY <2>1, <2>2, <1>1, <1>6 DEF Whole
<1>12. OwnAnswers' /\ CutAtReturn' BY <1>1 DEF PtyInv, OwnAnswers, CutAtReturn, Cut
<1>13. QED BY <1>8, <1>10, <1>11, <1>12

\* The agent exits: nothing more is written.
LEMMA Exited ==
  ASSUME PtyInv, Exit
  PROVE  CutAtReturn' /\ Awaited' /\ Beyond' /\ Whole' /\ OwnAnswers'
<1> DEFINE s == claude.screen
<1>1. /\ claude \in Agents /\ req' = req /\ claude'.screen = s /\ claude'.todo = <<>>
      /\ claude'.life = "dead"
  BY TypesAre DEF PtyInv, Exit, Agents
<1>2. Awaited' BY <1>1, NoneAwaited
<1>3. Whole' BY <1>1 DEF Whole
<1>4. OwnAnswers' /\ CutAtReturn' BY <1>1 DEF PtyInv, OwnAnswers, CutAtReturn, Cut
<1>5. /\ Len(s) \in Nat /\ Pieces \in Nat /\ Len(s) <= Pieces
      /\ \A i \in 1 .. Len(s) : Piece(i) = s[i]
  BY PiecesAre DEF PtyInv
<1>6. Pieces' = Len(s) + Len(<<>>) /\ \A i : i <= Len(s) => Piece(i)' = s[i]
  BY <1>1, PiecesThen
<1>7. Pieces' = Len(s) BY <1>5, <1>6
<1>8. \A q \in PtyRequests : req[q].before \in Nat
  <2>1. req \in [PtyRequests -> Asks] BY TypesAre DEF PtyInv
  <2>2. QED BY <2>1 DEF Asks
<1> HIDE DEF s
<1>9. Beyond'
  <2>1. ASSUME NEW q \in PtyRequests, req[q].pc \in {"send", "sent"}
        PROVE  /\ req[q].before <= Len(s)
               /\ \A i \in req[q].before + 1 .. Pieces' :
                     (Piece(i)' = q /\ req[q].pc = "sent") \/ req[Piece(i)'].cut = "yes"
    <3>1. /\ req[q].before <= Len(s)
          /\ \A i \in req[q].before + 1 .. Pieces :
                (Piece(i) = q /\ req[q].pc = "sent") \/ req[Piece(i)].cut = "yes"
      BY <2>1 DEF PtyInv, Beyond, Cut, s
    <3>2. ASSUME NEW i \in req[q].before + 1 .. Pieces'
          PROVE  Piece(i)' = Piece(i) /\ i \in req[q].before + 1 .. Pieces
      <4>1. i \in 1 .. Len(s) BY <1>7, <1>8
      <4>2. Piece(i)' = Piece(i) BY <4>1, <1>5, <1>6
      <4>3. QED BY <4>1, <4>2, <1>5, <1>7, <1>8
    <3>3. QED BY <3>1, <3>2
  <2>2. QED BY <2>1, <1>1 DEF Beyond, Cut
<1>10. QED BY <1>2, <1>3, <1>4, <1>9

\* A request that fails before it typed its prompt, or finds the agent dead.
LEMMA Failed ==
  ASSUME PtyInv, PtyTypes', NEW r \in PtyRequests, req[r].pc \in Holding \ {"sent"},
         NEW pc \in {"starting", "failed"}, Turn(r, pc), claude'.todo = <<>>
  PROVE  CutAtReturn' /\ Awaited' /\ Beyond' /\ Whole' /\ OwnAnswers'
<1>1. req \in [PtyRequests -> Asks] BY TypesAre DEF PtyInv
<1>2. /\ req'[r].pc = pc /\ req'[r].cut = req[r].cut
      /\ \A q \in PtyRequests \ {r} : req'[q] = req[q]
  BY <1>1 DEF Turn, Asks
<1>3. \A q \in PtyRequests : req[q].pc \in {"send", "sent"} => q = r
  BY DEF PtyInv, OneAtATime, Holding
<1>4. \A q \in PtyRequests : req'[q].pc \notin {"send", "sent"} BY <1>2, <1>3
<1>5. ~Cut(r) BY DEF PtyInv, CutAtReturn, Holding
<1>6. \A q \in PtyRequests : req[q].pc \in {"answered", "failed"} => req'[q] = req[q]
  BY <1>2 DEF Holding
<1>7. \A q \in PtyRequests : req[q].pc \notin {"answered", "failed"} =>
         req'[q].pc # "answered" /\ (Cut(q)' => req'[q].pc = "failed")
  BY <1>2, <1>5 DEF Cut, CutAtReturn, PtyInv
<1>8. OwnAnswers' /\ CutAtReturn' BY <1>6, <1>7, AnswersKept DEF PtyInv
<1>9. QED BY <1>4, <1>8, Emptied

-----------------------------------------------------------------------------
\* Every step of the requests, the server and the agent keeps the invariant.
LEMMA PtyStep == ASSUME PtyInv, [PtyNext]_ptyVars PROVE PtyInv'
<1>1. PtyTypes' /\ OneAtATime' /\ Living'
  BY PtyTypesKept, MutexKept, LivingKept DEF PtyInv
<1> DEFINE Rest == CutAtReturn /\ Awaited /\ Beyond /\ Whole /\ OwnAnswers
<1> SUFFICES Rest' BY <1>1 DEF PtyInv
<1>2. ASSUME NEW r \in PtyRequests, Arrive(r) \/ Lock(r) PROVE Rest'
  <2>1. PICK pc \in {"waiting", "locked"} : Turn(r, pc) BY <1>2 DEF Arrive, Lock
  <2>2. claude' = claude /\ req[r].pc \notin {"send", "sent", "answered", "failed"}
    BY <1>2 DEF Arrive, Lock
  <2>3. QED BY <2>1, <2>2, WentOn
<1>3. ASSUME NEW r \in PtyRequests, EnsureStarted(r) PROVE Rest'
  <2>1. req[r].pc = "locked" BY <1>3 DEF EnsureStarted
  <2>2. CASE Turn(r, "snapshot") /\ UNCHANGED claude
    BY <2>1, <2>2, WentOn
  <2>3. CASE \E life, n : claude' = NoAgent(life, n) /\ (Turn(r, "starting") \/ Turn(r, "failed"))
    <3>1. claude'.todo = <<>> BY <2>3 DEF NoAgent
    <3>2. PICK pc \in {"starting", "failed"} : Turn(r, pc) BY <2>3
    <3>3. req[r].pc \in Holding \ {"sent"} BY <2>1 DEF Holding
    <3>4. QED BY <3>1, <3>2, <3>3, <1>1, Failed
  <2>4. QED BY <1>3, <2>2, <2>3 DEF EnsureStarted
<1>4. ASSUME NEW r \in PtyRequests, Ready(r) PROVE Rest'
  <2>1. /\ req[r].pc = "starting" /\ claude.life = "starting" /\ Turn(r, "snapshot")
        /\ claude' = [claude EXCEPT !.life = "up"]
    BY <1>4 DEF Ready
  <2>2. claude \in Agents BY TypesAre DEF PtyInv
  <2>3. claude'.screen = claude.screen /\ claude'.todo = claude.todo BY <2>1, <2>2 DEF Agents
  <2>4. QED BY <2>1, <2>3, WentOn
<1>5. ASSUME NEW r \in PtyRequests, NotReady(r) PROVE Rest'
  <2>1. req[r].pc \in Holding \ {"sent"} /\ Turn(r, "failed") /\ claude'.todo = <<>>
    BY <1>5 DEF NotReady, NoAgent, Holding
  <2>2. QED BY <2>1, <1>1, Failed
<1>6. ASSUME NEW r \in PtyRequests, Snapshot(r) PROVE Rest'
  BY <1>6, Remembered
<1>7. ASSUME NEW r \in PtyRequests, SendLine(r) PROVE Rest'
  <2>1. req[r].pc = "send" BY <1>7 DEF SendLine
  <2>2. CASE claude.life = "dead" /\ Turn(r, "failed") /\ UNCHANGED claude
    <3>1. claude.todo = <<>> BY <2>2 DEF PtyInv, Living
    <3>2. req[r].pc \in Holding \ {"sent"} BY <2>1 DEF Holding
    <3>3. QED BY <3>1, <3>2, <2>2, <1>1, Failed
  <2>3. ASSUME NEW n \in 1 .. MaxPieces,
               req' = [req EXCEPT ![r].pc = "sent", ![r].wants = n],
               claude' = IF claude.life = "up"
                         THEN [claude EXCEPT !.todo = @ \o [i \in 1 .. n |-> r]] ELSE claude
        PROVE Rest'
    BY <2>1, <2>3, Typed
  <2>4. QED BY <1>7, <2>2, <2>3 DEF SendLine
<1>8. ASSUME NEW r \in PtyRequests, Stable(r) \/ TooLong(r) PROVE Rest'
  <2>1. PICK pc \in {"answered", "failed"} : Return(r, pc) BY <1>8 DEF Stable, TooLong
  <2>2. req[r].pc = "sent" BY <1>8 DEF Stable, TooLong
  <2>3. QED BY <2>1, <2>2, Returned
<1>9. CASE Close
  <2>1. \A q \in PtyRequests : req[q].pc \notin {"send", "sent"}
    BY <1>9, PtyAssumption DEF Close, PtyInv, OneAtATime, Holding
  <2>2. req' = req /\ claude'.todo = <<>> BY <1>9 DEF Close, NoAgent
  <2>3. OwnAnswers' /\ CutAtReturn' BY <2>2 DEF PtyInv, OwnAnswers, CutAtReturn, Cut
  <2>4. QED BY <2>1, <2>2, <2>3, <1>1, Emptied
<1>10. CASE Write BY <1>10, Written
<1>11. CASE Exit BY <1>11, Exited
<1>12. CASE Pause \/ Wipe \/ ServerStops \/ UNCHANGED ptyVars
  <2>1. claude \in Agents BY TypesAre DEF PtyInv
  <2>2. /\ req' = req /\ claude'.screen = claude.screen /\ claude'.todo = claude.todo
        /\ claude'.life = claude.life
    BY <1>12, <2>1 DEF Pause, Wipe, ServerStops, ptyVars, Agents
  <2>3. Pieces' = Pieces /\ \A i : Piece(i)' = Piece(i) BY <2>2 DEF Pieces, Piece
  <2>4. CutAtReturn' /\ OwnAnswers' /\ Awaited'
    BY <2>2 DEF PtyInv, OwnAnswers, CutAtReturn, Awaited, Cut
  <2>5. Beyond' /\ Whole' BY <2>2, <2>3 DEF PtyInv, Beyond, Whole, Cut
  <2>6. QED BY <2>4, <2>5
<1>13. QED
  BY <1>2, <1>3, <1>4, <1>5, <1>6, <1>7, <1>8, <1>9, <1>10, <1>11, <1>12 DEF PtyNext

\* For any requests that share the agent, and whatever it pauses, exits or
\* leaves unfinished: an answer given as a success is the request's own text
\* and all of it, but for tails of requests that had been cut short.
THEOREM AnswersAreOwn == PtySpec => []OwnAnswers
<1>1. PtySpec => []PtyInv
  BY PtyStarts, PtyStep, PTL DEF PtySpec
<1>2. PtyInv => OwnAnswers BY DEF PtyInv
<1>3. QED BY <1>1, <1>2, PTL

\* One request at a time holds the agent: PTYExecutor.Run keeps the mutex from
\* the start of the session until its answer was read.
THEOREM OneRequestAtATime == PtySpec => [](PtyTypes /\ OneAtATime)
<1>1. PtySpec => []PtyInv
  BY PtyStarts, PtyStep, PTL DEF PtySpec
<1>2. PtyInv => PtyTypes /\ OneAtATime BY DEF PtyInv
<1>3. QED BY <1>1, <1>2, PTL
=============================================================================
