------------------------------- MODULE Rules -------------------------------
(***************************************************************************)
(* The parts of devcell that are functions of their input: the reading of  *)
(* a command line, the choice of an engine, the arguments of `docker run`, *)
(* the ceilings of a build, the migration of a file, the requests of       *)
(* `cell serve` and the report of docker's disk usage.  One rule is        *)
(* applied to one input at a time.                                         *)
(***************************************************************************)
EXTENDS Migrate, CommandLine, RunArgs, BuildLimits

CONSTANTS
    Lines,         \* words after `cell`
    EngineInputs,  \* words and the engine of the configuration
    LimitInputs,   \* a daemon's capacity, the environment and the [build] section
    MigrateInputs, \* files, whether to write them and whether they can be
    IsolateInputs, \* runs, for what they may do
    MountInputs,   \* runs, for what they see
    AnswerInputs,  \* servers, agents and requests for an answer
    ChatInputs,    \* servers, agents and chats
    DiskInputs,    \* docker's listing and the flags of a report
    Kilo           \* the ratio of two units of size

Serve == INSTANCE ServeRequests
Disk == INSTANCE DiskUsage
Sets == INSTANCE FiniteSetsExt

\* What the inputs are: sequences of words; what a daemon reports and what can be
\* written in the environment; contents of files; paths, of which the name of a
\* volume is none that is linked; requests that were read.
ASSUME LinesAssumption == Lines \subseteq Seq(Words)
ASSUME LimitsAssumption ==
    LimitInputs \subseteq [capacity : Daemons, env : Environments, section : BuildSections]
ASSUME MigrateAssumption ==
    \A m \in MigrateInputs : IsText(m.raw)
ASSUME IsolateAssumption ==
    \A s \in IsolateInputs :
        /\ \A dir \in HostDirs(s.host) : IsPath(dir)
        /\ NixVolume \notin DOMAIN s.links
ASSUME MountAssumption ==
    \A s \in MountInputs :
        /\ \A dir \in HostDirs(s.host) : IsPath(dir)
        /\ \A i \in DOMAIN s.volumes : IsPath(s.volumes[i].dst)
ASSUME AnswerAssumption ==
    \A a \in AnswerInputs :
        /\ a.body \in Serve!ResponsesRequest({a.body.model}, {a.body.input},
                                             {a.body.instructions}, {a.body.effort})
        /\ a.agent.found \in BOOLEAN /\ a.agent.envelope \in BOOLEAN
ASSUME ChatAssumption ==
    \A c \in ChatInputs :
        /\ c.body \in Serve!ChatRequest({c.body.model}, {c.body.messages}, {c.body.effort})
        /\ c.server.api \in Seq(STRING) /\ c.agent.found \in BOOLEAN

VARIABLES
    topic, \* the rule that is applied, "none" between two
    input  \* what it is applied to

NoInput == [none |-> TRUE]
Inputs(t) ==
    CASE t = "words" -> Lines
      [] t = "engine" -> EngineInputs
      [] t = "limits" -> LimitInputs
      [] t = "migrate" -> MigrateInputs
      [] t = "isolate" -> IsolateInputs
      [] t = "mounts" -> MountInputs
      [] t = "answers" -> AnswerInputs
      [] t = "chat" -> ChatInputs
      [] t = "disk" -> DiskInputs
Topics == {"words", "engine", "limits", "migrate", "isolate", "mounts", "answers", "chat",
           "disk"}

RulesInit == topic = "none" /\ input = NoInput

Apply(t) ==
    /\ topic = "none"
    /\ topic' = t
    /\ input' \in Inputs(t)

PutBack == topic # "none" /\ topic' = "none" /\ input' = NoInput

RulesNext == (\E t \in Topics : Apply(t)) \/ PutBack
RulesSpec == RulesInit /\ [][RulesNext]_<<topic, input>>

-----------------------------------------------------------------------------
(* Properties. *)

\* Every word of an accepted command line is read in one way: as a flag of the
\* cell, as the value of the flag before it, or as a word for the agent; and
\* the scan for a flag returns the value that is read at its first occurrence.
EveryWordReadOnce ==
    topic = "words" /\ validateCellFlags(input) =>
        \A i \in DOMAIN input :
            LET w == input[i]
                asFlag == IsBool(w) \/ IsString(w) \/ IsAssigned(w)
                asValue == i > 1 /\ IsString(input[i - 1])
                asWord == i \in KeptWords(input)
            IN /\ asFlag => ~asValue /\ ~asWord
               /\ asWord = (~asFlag /\ ~asValue)
               /\ (asFlag /\ ~IsBool(w) /\ \A j \in 1 .. i - 1 : input[j].name # w.name) =>
                    scanStringFlag(input, w.name)
                    = IF IsString(w) THEN input[i + 1].name ELSE w.eq

\* A run that is not refused has an engine that can run its guest, the engine
\* and the operating system of the command line when it names them, and the
\* Windows guest only as the experiment it is, when that is asked for.
RunAsAsked ==
    topic = "engine" =>
        LET n == resolveEngine(input.args, input.toml)
            guest == cellGuest(input.args, input.toml)
            engine == scanStringFlag(input.args, "--engine")
            os == scanOSFlag(input.args)
        IN n # Error =>
            /\ Supports(n, guest)
            /\ engine # "" => n = parse(engine)
            /\ os # "" => os \in DOMAIN GuestForOS /\ guest = GuestForOS[os]
            /\ n = "winkit" =>
                    \/ "engine-windows" \in input.toml.experimental
                    \/ scanStringFlag(input.args, "--experimental") = "engine-windows"

\* The parallelism that nix is given fits the processors, the quota and the
\* memory of the build's container as far as it was derived from them; what the
\* environment or the [build] section asks of nix is passed on as it is written
\* ("An explicit env setting always wins over the derived value"), fitting or not,
\* and without a ceiling on memory nix is left to itself.
BuildFits ==
    topic = "limits" =>
        WellLimited(BuildArguments(input.capacity, input.env, input.section),
                    input.capacity, input.env, input.section)

\* `cell config migrate` keeps the meaning of each file.
MigrationMeansTheSame ==
    topic = "migrate" /\ Loads(input.raw) =>
        MigrationKeepsMeaning(input.raw, input.write, input.writable)

\* "Checks that no docker/cell settings conflict with proxy-mode network
\* isolation" (validate_proxy.go): an accepted cell behind the gateway has only
\* the gateway's network, its variable unless the command or a secret sets it, no
\* privilege, no denied capability unless `cap_add` says ALL and the cell is not
\* solitary, and no denied device.  What it mounts from below a denied path,
\* links followed, lies in the cell's own directories or was linked there and the
\* cell is solitary; what contains a denied path is a volume of the user, for
\* both checks look only below the paths that are denied.
SettingsRespectProxy ==
    topic = "isolate" /\ Accepted(input) /\ Proxied(input) =>
        /\ Network(input) = "internal"
        /\ "HTTP_PROXY" \notin DOMAIN input.inherit \cup DOMAIN input.extra =>
                Env(input)["HTTP_PROXY"] = "gateway"
        /\ ~Privileged(input)
        /\ Caps(input) \cap IsolationCaps = {}
        /\ "ALL" \in Caps(input) => ~input.solitary /\ "ALL" \in input.capAdd
        /\ Devices(input) \cap {"/dev/kvm", "/dev/net/tun"} = {}
        /\ \A m \in Mounts(input) :
            LET src == EvalSymlinks(input, m.src)
                inOwnDir == \E dir \in HostDirs(input.host) : Under(m.src, dir)
            IN /\ isDangerousMount(src) => inOwnDir \/ (input.solitary /\ src # m.src)
               /\ (\E d \in DeniedMountPaths : Under(d, src)) =>
                        inOwnDir \/ m \in UserMounts(input)

\* In the container the user's home is the workspace's home, and the working
\* directory is the project, wherever the project lies and whatever volumes
\* the user adds, unless that directory nests in another alias of the project
\* or is the home itself.
MountsAsPromised ==
    topic = "mounts" =>
        LET host == input.host
            dir == ProjectDir(input)
        IN /\ Sees(input, HomeTarget(host)) = host.workspaceHome
           /\ ~Nested(host, dir) /\ dir # HomeTarget(host) =>
                Sees(input, dir) = host.baseDir

\* "Identical to what a synchronous POST would return" (responses_get.go): a
\* job ends with the object that the same request gets when it waits, of the
\* same command; and a streamed answer has its status and usage, when claude's
\* last word and its exit status agree, and its text when claude said nothing
\* before the result (a stream holds the text of every turn, an answer that is
\* waited for only that of the result).
AnswersAgree ==
    topic = "answers" =>
        LET answer(stream, background) ==
                Serve!Handle(input.server,
                    [path |-> "/v1/responses", method |-> "POST", header |-> <<"Bearer", input.server.key>>,
                     body |-> [input.body EXCEPT !.stream = stream,
                                                 !.background = background]],
                    input.agent)
            waited == answer(FALSE, FALSE)
            job == answer(FALSE, TRUE)
            streamed == answer(TRUE, FALSE)
            same(key) == streamed.body[key] = waited.body[key]
        IN IF waited.status # 200
           THEN job = waited /\ streamed = waited
           ELSE /\ job.status = 202 /\ job.job = waited.body /\ job.starts = waited.starts
                /\ input.agent.envelope = (input.agent.exit = 0) =>
                    /\ same("status") /\ same("usage")
                    /\ streamed.body.status = "completed" =>
                         \/ same("text")
                         \/ input.agent.deltas # input.agent.text
                    /\ (waited.body.error = <<>>) = (streamed.body.error = <<>>)

\* "Use any returned id value as the model field": a model that the server
\* lists is answered by an agent that is installed, streamed or not, with the
\* prompt and an effort that claude knows on its command line.
ListedModelsServed ==
    topic = "chat" /\ input.body.messages # <<>> =>
        LET request(path, method, body) ==
                [path |-> path, method |-> method, header |-> <<"Bearer", input.server.key>>,
                 body |-> body]
            listed == Serve!Handle(input.server, request("/v1/models", "GET", [none |-> 0]),
                                   input.agent)
            answer(m) == Serve!Handle(input.server,
                            request("/v1/chat/completions", "POST",
                                    [input.body EXCEPT !.model = m]), input.agent)
        IN \A i \in DOMAIN listed.body :
            LET m == listed.body[i]
                argv == answer(m).starts[1]
            IN /\ answer(m).status = 200 /\ answer(m).body.model = m
               /\ Serve!route(m) \in input.server.installed
               /\ answer(m).starts # <<>> =>
                    /\ \E word \in argv : word[1] \in {"-p", "prompt"} /\ word[2] = Serve!Last(input.body.messages).content
                    /\ \A word \in argv : word[1] = "--effort" => Serve!validEffort(word[2])
                    /\ Len(m) = 2 => <<"--model", Tail(m)>> \in argv

\* The report shows the largest entries of the kinds that are asked for, as many
\* as it may; the totals, which are counted apart, are the sums of the whole
\* listing's rows, shared layers and unknown volumes included once; and no row of
\* the table tells the user to remove what is in use.
DiskCounted ==
    topic = "disk" =>
        LET Report(options) == Disk!RunDF(input.raw, options, <<>>)
        IN \A all \in {Report([input.flags EXCEPT !.all = TRUE, !.kinds = {}])},
              shown \in {Report(input.flags)},
              table \in {Report([input.flags EXCEPT !.json = FALSE])} :
            "rows" \in DOMAIN shown =>
                LET kinds == Disk!toEntryKinds(input.flags.kinds)
                    asked == {i \in DOMAIN all.rows :
                                kinds = {} \/ all.rows[i].entry.kind \in kinds}
                    reclaim(rows, i) == rows[i].entry.reclaim
                    top == IF input.flags.all THEN 0 ELSE input.flags.top
                    part(kind) == {i \in DOMAIN all.rows : all.rows[i].entry.kind = kind}
                IN /\ Len(shown.rows) = IF top = 0 THEN Cardinality(asked)
                                        ELSE Sets!Min({top, Cardinality(asked)})
                   /\ \A i \in DOMAIN shown.rows :
                        Cardinality({j \in asked :
                            reclaim(all.rows, j) > reclaim(shown.rows, i)}) < i
                   /\ \A kind \in DOMAIN all.totals :
                        all.totals[kind]
                        = Sets!MapThenSumSet(LAMBDA i : reclaim(all.rows, i), part(kind))
                   /\ shown.totals = all.totals /\ table.totals = all.totals
                   /\ \A i \in DOMAIN table.rows :
                        table.rows[i].entry.pins > 0 => table.rows[i].hint = <<>>
=============================================================================
