----------------------------- MODULE ServeRequests -----------------------------
(***************************************************************************)
(* What `cell serve` makes of a request (internal/serve: server.go,        *)
(* auth.go, handler.go, responses.go, exec.go, models.go): the key, the    *)
(* checks in their order, the agent's command line, and the answer of each *)
(* of three modes: buffered, streamed and in the background.               *)
(*                                                                         *)
(* A text is a sequence of words, a model the sequence of its parts around *)
(* the first slash.  An agent is what its subprocess does: whether it was  *)
(* found, its exit status, what it writes: the text of its result and, when *)
(* it is streamed, the text of every turn that led to it (deltas).         *)
(***************************************************************************)
EXTENDS Naturals, SequencesExt

(* Requests. *)
ResponsesRequest(Models, Inputs, Instructions, Efforts) ==
    [model : Models, input : Inputs, instructions : Instructions,
     stream : BOOLEAN, background : BOOLEAN, effort : Efforts,
     temperature : {"absent", "hot"}, parallel : {"absent", "no"}]

ChatRequest(Models, Messages, Efforts) ==
    [model : Models, messages : Messages, stream : BOOLEAN, effort : Efforts,
     includeUsage : BOOLEAN]

\* Mutant: the provider is called "default", and nothing else any more.
agentForPrefixRenamed ==
    [claude |-> "claude", default |-> "claude", opencode |-> "opencode"]

agentForPrefix ==
    [claude |-> "claude", default |-> "claude", anthropic |-> "claude",
     opencode |-> "opencode"]

parseModel(model) == [prefix |-> Head(model), submodel |-> Tail(model)]

\* The agent of a model, or "none".
route(model) ==
    LET prefix == parseModel(model).prefix
    IN IF prefix \in DOMAIN agentForPrefix THEN agentForPrefix[prefix] ELSE "none"

validEffort(effort) == effort \in {"low", "medium", "high"}

Bad(code) == [error |-> code, prompt |-> <<>>]
Good(prompt) == [error |-> "none", prompt |-> prompt]

readable(content) == content.kind \in {"string", "parts", "absent"}

\* The texts of the parts, or the string itself.
renderContent(content) ==
    CASE content.kind = "parts" -> FlattenSeq(content.parts)
      [] content.kind = "string" -> content.text
      [] OTHER -> <<>>

Speaker(role) ==
    CASE role = "" -> "user" [] role = "developer" -> "system" [] OTHER -> role

Said(role, text) == [role |-> role, text |-> text]

\* The prompt: who says what, in order; or the code of the refusal, that of the
\* first item that cannot be read.
buildPrompt(instructions, input) ==
    LET system == IF instructions = <<>> THEN <<>> ELSE <<Said("system", instructions)>>
        content(i) == renderContent(input.items[i].content)
        lines == [i \in DOMAIN input.items |->
                    Said(Speaker(input.items[i].role), content(i))]
        spoken == SelectSeq(lines, LAMBDA l : l.text # <<>>)
    IN CASE input.kind = "absent" -> Bad("input_required")
         [] input.kind = "other" -> Bad("invalid_input")
         [] input.kind = "string" ->
              IF input.text = <<>> THEN Bad("input_required")
              ELSE Good(system \o <<Said("user", input.text)>>)
         [] OTHER ->
              IF \E i \in DOMAIN input.items : ~readable(input.items[i].content)
              THEN Bad("invalid_input")
              ELSE IF spoken = <<>> THEN Bad("input_required") ELSE Good(system \o spoken)

ExecOpts(server, model, prompt, effort) ==
    [agent |-> route(model), prompt |-> prompt, model |-> parseModel(model).submodel,
     effort |-> IF validEffort(effort) THEN effort ELSE "",
     systemPromptFile |-> server.overlay, basePromptFile |-> server.base]

-----------------------------------------------------------------------------
(* The agent. *)

\* The words of claude's command line that the options add, with their values.
claudeArgs(opts, format) ==
    {<<"--dangerously-skip-permissions", "">>, <<"--output-format", format>>, <<"-p", opts.prompt>>}
    \cup (IF format = "stream-json" THEN {<<"--include-partial-messages", "">>} ELSE {})
    \cup {<<"--model", m>> : m \in {opts.model} \ {<<>>}}
    \cup {<<"--effort", e>> : e \in {opts.effort} \ {""}}
    \cup {<<"--system-prompt-file", f>> : f \in {opts.basePromptFile} \ {""}}
    \cup {<<"--append-system-prompt-file", f>> : f \in {opts.systemPromptFile} \ {""}}

NoUsage == [input |-> 0, creation |-> 0, read |-> 0, output |-> 0]

ExecResult(exit, stdout, stderr, usage) ==
    [exit |-> exit, stdout |-> stdout, stderr |-> stderr, usage |-> usage]

\* What a subprocess writes: the text alone, or in claude's envelope.
raw(agent) == IF agent.envelope THEN <<"result">> \o agent.text ELSE agent.text

\* The text and usage of claude's envelope; output that is none stays as it is.
parseClaudeJSON(agent) ==
    IF agent.envelope THEN ExecResult(0, agent.text, agent.stderr, agent.usage)
    ELSE ExecResult(0, agent.text, agent.stderr, NoUsage)

ShellRun(opts, agent) ==
    CASE ~agent.found -> ExecResult(1, <<>>, <<"not", "found">>, NoUsage)
      [] agent.found /\ agent.exit # 0 -> ExecResult(agent.exit, raw(agent), agent.stderr, NoUsage)
      [] agent.found /\ agent.exit = 0 /\ opts.agent = "claude" -> parseClaudeJSON(agent)
      [] OTHER -> ExecResult(0, raw(agent), agent.stderr, NoUsage)

-----------------------------------------------------------------------------
(* Answers. *)

\* prompt_tokens and input_tokens count the cached input.
chatUsageFromExec(u) ==
    LET prompt == u.input + u.creation + u.read
    IN [prompt |-> prompt, completion |-> u.output, total |-> prompt + u.output]

responsesUsageFromExec(u) ==
    LET input == u.input + u.creation + u.read
    IN [input |-> input, cached |-> u.read, output |-> u.output,
        total |-> input + u.output]

ResponsesObject(req, status, text, error, usage) ==
    [model |-> req.model, status |-> status, text |-> text, error |-> error,
     usage |-> responsesUsageFromExec(usage), instructions |-> req.instructions,
     temperature |-> IF req.temperature = "absent" THEN "1.0" ELSE req.temperature,
     parallel |-> req.parallel = "absent"]

\* Mutant: the status of a job does not look at the exit status.
runBackgroundJobCompleted(req, result) ==
    ResponsesObject(req, "completed", result.stdout, <<>>, result.usage)

\* The goroutine of a background job: what it stores for its clients.
runBackgroundJob(req, result) ==
    IF result.exit # 0
    THEN ResponsesObject(req, "failed", <<>>,
            IF result.stderr = <<>> THEN <<"agent", "failed">> ELSE result.stderr,
            result.usage)
    ELSE ResponsesObject(req, "completed", result.stdout, <<>>, result.usage)

\* The handler's own copy of it, for an answer that is waited for.
Buffered(req, result) ==
    LET failed == result.exit # 0
        message == IF result.stderr = <<>> THEN <<"agent", "failed">> ELSE result.stderr
    IN ResponsesObject(req, IF failed THEN "failed" ELSE "completed",
                       IF failed THEN <<>> ELSE result.stdout,
                       IF failed THEN message ELSE <<>>, result.usage)

\* What the pump ends with: the text is that of all the deltas it has passed on,
\* the usage that of the result; the fields that echo the request are not told
\* to the pump.
StreamedObject(req, status, text, error, usage) ==
    [ResponsesObject(req, status, text, error, usage) EXCEPT
        !.temperature = IF status = "completed" THEN "1.0" ELSE "0",
        !.parallel = FALSE,
        !.instructions = IF status = "completed" THEN @ ELSE <<>>]

Streamed(req, agent) ==
    CASE ~agent.found ->
           StreamedObject(req, "failed", <<>>, <<"not", "found">>, NoUsage)
      [] agent.found /\ agent.envelope ->
           StreamedObject(req, "completed", agent.deltas, <<>>, agent.usage)
      [] agent.found /\ ~agent.envelope /\ agent.exit # 0 ->
           StreamedObject(req, "failed", <<>>, <<"claude", "exited">>, NoUsage)
      [] OTHER -> StreamedObject(req, "completed", agent.deltas, <<>>, NoUsage)

writeBackgroundStub(req) == ResponsesObject(req, "in_progress", <<>>, <<>>, NoUsage)

-----------------------------------------------------------------------------
(* The handlers: the first of their checks that fails answers.  A reply says *)
(* how the answer is given, the command lines of the agents that were        *)
(* started for it, and for a job what it ends with.                          *)
Reply(status, body, starts, job) ==
    [status |-> status, body |-> body, starts |-> starts, job |-> job]
Refusal(status, code) == Reply(status, [error |-> code], <<>>, "none")

Argv(opts, format) ==
    IF opts.agent = "claude" THEN claudeArgs(opts, format)
    ELSE {<<"prompt", opts.prompt>>} \cup {<<"--model", m>> : m \in {opts.model} \ {<<>>}}

ResponsesMode(req, opts, agent) ==
    CASE req.stream /\ req.background -> Refusal(400, "unsupported_combination")
      [] req.background /\ ~req.stream ->
           Reply(202, writeBackgroundStub(req), <<Argv(opts, "json")>>,
                 runBackgroundJob(req, ShellRun(opts, agent)))
      [] req.stream /\ ~req.background /\ opts.agent = "claude" ->
           Reply(200, Streamed(req, agent),
                 IF agent.found THEN <<Argv(opts, "stream-json")>> ELSE <<>>, "none")
      [] OTHER ->
           Reply(200, Buffered(req, ShellRun(opts, agent)), <<Argv(opts, "json")>>, "none")

\* The body of a request, if it is JSON.
unread(body) == "invalid" \in DOMAIN body

NewResponsesHandler(server, method, body, agent) ==
    LET prompt == buildPrompt(body.instructions, body.input)
    IN IF method # "POST" THEN Refusal(405, "method_not_allowed")
       ELSE IF unread(body) THEN Refusal(400, "invalid_body")
       ELSE IF body.model = <<>> THEN Refusal(400, "model_required")
       ELSE IF route(body.model) = "none" THEN Refusal(400, "unknown_model")
       ELSE IF prompt.error # "none" THEN Refusal(400, prompt.error)
       ELSE ResponsesMode(body, ExecOpts(server, body.model, prompt.prompt, body.effort),
                          agent)

ChatAnswer(req, finish, content, usage) ==
    [model |-> req.model, finish |-> finish, content |-> content, usage |-> usage]

\* The client has had the deltas when a failure is written after them; without
\* include_usage a streamed answer has no usage.
ChatStreamed(req, agent) ==
    LET usage(u) == IF req.includeUsage THEN chatUsageFromExec(u) ELSE "none"
    IN CASE ~agent.found -> ChatAnswer(req, "error", <<"not", "found">>, "none")
         [] agent.found /\ agent.envelope ->
              ChatAnswer(req, "stop", agent.deltas, usage(agent.usage))
         [] agent.found /\ ~agent.envelope /\ agent.exit # 0 ->
              ChatAnswer(req, "error", agent.deltas \o <<"claude", "exited">>, "none")
         [] OTHER -> ChatAnswer(req, "stop", agent.deltas, "none")

ChatBuffered(req, result) ==
    LET failed == result.exit # 0
    IN ChatAnswer(req, IF failed THEN "error" ELSE "stop",
                  IF failed /\ result.stdout = <<>> THEN result.stderr ELSE result.stdout,
                  chatUsageFromExec(result.usage))

\* The prompt is the content of the last message, whoever says it.
NewChatHandler(server, method, body, agent) ==
    LET opts == ExecOpts(server, body.model, Last(body.messages).content, body.effort)
    IN IF method # "POST" THEN Refusal(405, "method_not_allowed")
       ELSE IF unread(body) THEN Refusal(400, "invalid_body")
       ELSE IF body.model = <<>> THEN Refusal(400, "model_required")
       ELSE IF route(body.model) = "none" THEN Refusal(400, "unknown_model")
       ELSE IF body.messages = <<>> THEN Refusal(400, "messages_required")
       ELSE IF body.stream /\ opts.agent = "claude"
       THEN Reply(200, ChatStreamed(body, agent),
                  IF agent.found THEN <<Argv(opts, "stream-json")>> ELSE <<>>, "none")
       ELSE Reply(200, ChatBuffered(body, ShellRun(opts, agent)),
                  <<Argv(opts, "json")>>, "none")
-----------------------------------------------------------------------------
(* The server. *)

\* The models of the Anthropic API, or the aliases when it gives none.
fallbackModels == <<<<"anthropic", "opus">>, <<"anthropic", "sonnet">>,
                    <<"anthropic", "haiku">>>>
FetchModels(api) == [i \in DOMAIN api |-> <<"anthropic", api[i]>>]

DiscoverModels(installed, api) ==
    (IF "claude" \in installed
     THEN IF api # <<>> THEN FetchModels(api) ELSE fallbackModels
     ELSE <<>>)
    \o (IF "opencode" \in installed THEN <<<<"opencode">>>> ELSE <<>>)

NewModelsHandler(server, method) ==
    IF method # "GET" THEN Refusal(405, "method_not_allowed")
    ELSE Reply(200, DiscoverModels(server.installed, server.api), <<>>, "none")

healthHandler(method) ==
    IF method # "GET" THEN Refusal(405, "method_not_allowed")
    ELSE Reply(200, "ok", <<>>, "none")

\* An empty key is no key.
AuthMiddleware(server, header, reply) ==
    IF server.key = "" \/ header = <<"Bearer", server.key>> THEN reply
    ELSE Refusal(401, "unauthorized")

\* The routes: all but the health and the documentation ask for the key.
Handle(server, r, agent) ==
    CASE r.path = "/v1/chat/completions" ->
           AuthMiddleware(server, r.header, NewChatHandler(server, r.method, r.body, agent))
      [] r.path = "/v1/responses" ->
           AuthMiddleware(server, r.header,
                          NewResponsesHandler(server, r.method, r.body, agent))
      [] r.path = "/v1/models" ->
           AuthMiddleware(server, r.header, NewModelsHandler(server, r.method))
      [] r.path \in {"/healthz", "/api/v1/health"} -> healthHandler(r.method)
      [] OTHER -> Refusal(404, "not_found")
=============================================================================
