---------------------------- MODULE ConfigLayers ----------------------------
(***************************************************************************)
(* The configuration of a cell: three TOML files that are edited at any    *)
(* time, loaded and merged in order by a command, compared with the        *)
(* configuration the running container was created from, and put into      *)
(* effect by the container and its gateway.                                *)
(*                                                                         *)
(* A file's content is a record with one field per way of merging:         *)
(* `scalar` stands for the keys of which the last one set counts,          *)
(* `env` for the tables merged by key, `mounts` for the lists merged by    *)
(* a key of their entries, `ports`, `caps`, `mcps` and `docs` for the      *)
(* lists that accumulate, `modules`, `packages` and `stable` for those     *)
(* that an explicitly empty list clears.  Such an optional list is {} when *)
(* the key is absent and {S} when it holds S, so {{}} is the empty list.   *)
(***************************************************************************)
EXTENDS Naturals, Sequences, TLC, NetworkPolicy

CONSTANTS
    Files,       \* the files in the order of loading, a sequence
    Scalars,     \* keys with one value
    ProjectWins, \* those that Merge copies from the later layer
    Kept,        \* those that Merge only takes from the first layer
    Contents,    \* [file -> the contents its user may write]
    Overrides,   \* the scalars that variables of the environment set
    DeniedCaps,  \* capabilities that defeat the network's isolation
    MaxEdits     \* bound on the edits of files

ASSUME FilesAssumption == Files \in Seq(STRING) /\ Len(Files) > 0
ASSUME KeysAssumption ==
    ProjectWins \subseteq Scalars /\ Kept \subseteq Scalars \ ProjectWins
\* What TOML decoding and its validation leave in [network.proxy].
ASSUME ContentsAssumption ==
    \A i \in DOMAIN Files : \A raw \in Contents[Files[i]] : raw.proxy \in Proxy

VARIABLES
    files,    \* what each file holds, "missing" or "broken" included
    step,     \* where the running command is, "idle" when none runs
    read,     \* the layers the command has read, in order
    config,   \* their merge so far
    flags,    \* the command's --solitary and --force-insecure-network
    cell,     \* how the running container was created
    gateway,  \* the policy the running gateway enforces
    edits     \* edits made so far

vars == <<files, step, read, config, flags, cell, gateway, edits>>

None == [none |-> TRUE]
Missing == [state |-> "missing"]
Broken == [state |-> "broken"]
Has(raw) == [state |-> "text", raw |-> raw]

-----------------------------------------------------------------------------
(* Reading one file: legacy spellings are folded into the current keys. *)

\* The entries of a list at some of its positions, in their order.
At(list, I) ==
    [n \in 1 .. Cardinality(I) |->
        list[CHOOSE i \in I : Cardinality({j \in I : j <= i}) = n]]

\* [cell] volumes beside [[volumes]]: the table wins on a container path, then
\* the first entry of the list.
Paths(mounts) == {mounts[i].path : i \in DOMAIN mounts}
mergeCellVolumes(raw) ==
    LET list == raw.cellMounts
    IN raw.mounts \o At(list, {i \in DOMAIN list :
                                /\ list[i].path \notin Paths(raw.mounts)
                                /\ \A j \in 1 .. i - 1 : list[j].path # list[i].path})

\* The provider after use_ollama and use_openrouter were folded in.
Legacy(raw) ==
    CASE raw.useOllama -> "ollama"
      [] ~raw.useOllama /\ raw.useOpenRouter -> "openrouter"
      [] OTHER -> ""
Provider(raw) == IF Legacy(raw) # "" THEN Legacy(raw) ELSE raw.provider

\* [llm] model, or the older [llm.models] default.
NamedModel(raw) == IF raw.model.id = "" THEN raw.oldModel ELSE raw.model

\* migrateLLM refuses a file that contradicts itself; a model's "ollama/" or
\* "openrouter/" prefix is cut off without choosing the provider.
LLMValid(raw) ==
    /\ ~(raw.useOllama /\ raw.useOpenRouter)
    /\ Legacy(raw) # "" => raw.provider \in {"", Legacy(raw)}
    /\ Provider(raw) \in {"", "default", "ollama", "openrouter"}
    /\ NamedModel(raw).prefix # "" =>
            Provider(raw) \in {"", NamedModel(raw).prefix}

\* Unknown keys and values of a wrong form make a file Broken already.
Loads(raw) == LLMValid(raw)

LoadFile(raw) ==
    [scalar |-> raw.scalar, privileged |-> raw.privileged,
     gui |-> IF raw.gui = "unset" THEN raw.cellGui ELSE raw.gui,
     modules |-> raw.modules, packages |-> raw.packages,
     stable |-> raw.stable,
     caps |-> raw.caps, ports |-> raw.ports \cup raw.cellPorts,
     mcps |-> raw.mcps \cup raw.cellMcps,
     docs |-> raw.docs \cup raw.secrets, tunnels |-> raw.tunnels,
     env |-> raw.env, mounts |-> mergeCellVolumes(raw),
     provider |-> Provider(raw), model |-> NamedModel(raw).id,
     proxy |-> raw.proxy]

-----------------------------------------------------------------------------
(* Merging a later layer p over the configuration g. *)

Held(option) == UNION option

\* An explicitly empty list clears what the layers before it asked for.
mergeOptionalIgnored(g, p) == {Held(g) \cup Held(p)}
mergeOptional(g, p) == IF p = {{}} THEN {{}} ELSE {Held(g) \cup Held(p)}

\* [cell] packages is a shorthand of [packages.nix] stable in both layers;
\* the shorthand itself stays the global one.
mergeShorthand(stable, packages) ==
    IF Held(packages) = {}
    THEN IF stable = {} /\ packages # {} THEN {{}} ELSE stable
    ELSE {Held(stable) \cup Held(packages)}
mergePackages(g, p) ==
    mergeOptional({Held(g.stable) \cup Held(g.packages)},
                  mergeShorthand(p.stable, p.packages))

MergeScalars(g, p) ==
    [k \in Scalars |->
        IF k \in ProjectWins THEN IF p[k] = "" THEN g[k] ELSE p[k]
        ELSE IF k \in Kept THEN g[k] ELSE ""]

\* A later entry takes the place of an earlier one with its path.
MergeMounts(g, p) ==
    LET Last(path) == CHOOSE i \in DOMAIN p :
                        /\ p[i].path = path
                        /\ \A j \in DOMAIN p : p[j].path = path => j <= i
    IN [i \in DOMAIN g |-> IF g[i].path \in Paths(p)
                           THEN p[Last(g[i].path)] ELSE g[i]]
       \o SelectSeq(p, LAMBDA m : m.path \notin Paths(g))

ActiveProvider(c) == IF c.provider = "" THEN "default" ELSE c.provider

\* A model belongs to the provider it was named under.
MergeModelKept(g, p) == IF p.model # "" THEN p.model ELSE g.model
MergeModel(g, p) ==
    IF p.model # "" THEN p.model
    ELSE IF p.provider # "" /\ p.provider # ActiveProvider(g) THEN ""
    ELSE g.model

Merge(g, p) ==
    [scalar |-> MergeScalars(g.scalar, p.scalar),
     privileged |-> g.privileged \/ p.privileged,
     gui |-> IF p.gui = "unset" THEN g.gui ELSE p.gui,
     modules |-> mergeOptional(g.modules, p.modules),
     packages |-> g.packages,
     stable |-> mergePackages(g, p),
     caps |-> g.caps \cup p.caps, ports |-> g.ports \cup p.ports,
     mcps |-> g.mcps \cup p.mcps, docs |-> g.docs \cup p.docs,
     tunnels |-> g.tunnels \cup p.tunnels,
     env |-> p.env @@ g.env, mounts |-> MergeMounts(g.mounts, p.mounts),
     provider |-> IF p.provider = "" THEN g.provider ELSE p.provider,
     model |-> MergeModel(g, p),
     proxy |-> mergeNetwork(g.proxy, p.proxy)]

-----------------------------------------------------------------------------
(* Comparing two configurations. *)

Mounted(c) == {c.mounts[i] : i \in DOMAIN c.mounts}

\* What the label of the container digests.
ConfigHashNoEnv(c) ==
    <<c.scalar["cell.stack"], Held(c.modules), c.mounts, c.ports,
      c.privileged, c.caps, c.gui # "off", c.mcps, Held(c.packages)>>
ConfigHash(c) ==
    <<c.scalar["cell.stack"], Held(c.modules), c.mounts, c.env, c.ports,
      c.privileged, c.caps, c.gui # "off", c.mcps, Held(c.packages),
      ResolvedEnabled(c.proxy), ResolvedMode(c.proxy), c.proxy.allow,
      c.proxy.block, c.proxy.presets, ResolvedAllowHostNetwork(c.proxy)>>

\* The parts of the configuration of which the user is told that they changed.
ConfigDrift(old, new) ==
    {part \in {"stack", "modules", "volumes", "env", "ports", "docker",
               "GUI", "proxy"} :
        CASE part = "stack" -> old.scalar["cell.stack"] # new.scalar["cell.stack"]
          [] part = "modules" -> Held(old.modules) # Held(new.modules)
          [] part = "volumes" -> Mounted(old) # Mounted(new)
          [] part = "env" -> old.env # new.env
          [] part = "ports" -> old.ports # new.ports
          [] part = "docker" -> \/ old.privileged # new.privileged
                                \/ old.caps # new.caps
          [] part = "GUI" -> (old.gui = "off") # (new.gui = "off")
          [] part = "proxy" ->
                \/ ResolvedEnabled(old.proxy) # ResolvedEnabled(new.proxy)
                \/ ResolvedMode(old.proxy) # ResolvedMode(new.proxy)
                \/ old.proxy.allow # new.proxy.allow
                \/ old.proxy.block # new.proxy.block
                \/ old.proxy.presets # new.proxy.presets}

-----------------------------------------------------------------------------
(* A command loads the layers twice: a first time to stop on a file that   *)
(* does not load, and a second time for the agent's run.                   *)

ZeroConfig ==
    [scalar |-> [k \in Scalars |-> ""], privileged |-> FALSE, gui |-> "unset",
     modules |-> {}, packages |-> {}, stable |-> {}, caps |-> {},
     ports |-> {}, mcps |-> {}, docs |-> {}, tunnels |-> {}, env |-> <<>>,
     mounts |-> <<>>, provider |-> "", model |-> "", proxy |-> NoProxy]

ApplyEnv(c) == [c EXCEPT !.scalar = [k \in Scalars |->
                    IF Overrides[k] = "" THEN @[k] ELSE Overrides[k]]]

NextFile == Files[Len(read) + 1]
Fails == /\ files[NextFile].state # "missing"
         /\ files[NextFile].state = "text" => ~Loads(files[NextFile].raw)
Layer == IF files[NextFile].state = "text" THEN LoadFile(files[NextFile].raw)
                                           ELSE ZeroConfig

\* The user writes, removes or spoils a file, also while a command runs.
EditFile(f) ==
    /\ edits < MaxEdits
    /\ \E c \in {Has(raw) : raw \in Contents[f]} \cup {Missing, Broken} :
        /\ c # files[f]
        /\ files' = [files EXCEPT ![f] = c]
    /\ edits' = edits + 1
    /\ UNCHANGED <<step, read, config, flags, cell, gateway>>

unchangedWorld == UNCHANGED <<files, cell, gateway, edits>>

Invoke ==
    /\ step = "idle"
    /\ \E solitary, insecure \in BOOLEAN :
        flags' = [solitary |-> solitary, insecure |-> insecure]
    /\ step' = "check"
    /\ unchangedWorld /\ UNCHANGED <<read, config>>

\* The first file, the global one, is the base even when it is missing; a
\* project file is merged over it when it exists.
LoadGlobal ==
    /\ step \in {"check", "load"} /\ read = <<>> /\ ~Fails
    /\ config' = Layer
    /\ read' = <<Layer>>
    /\ unchangedWorld /\ UNCHANGED <<step, flags>>

MergeNext ==
    /\ step \in {"check", "load"} /\ Len(read) \in 1 .. (Len(Files) - 1)
    /\ ~Fails
    /\ config' = IF files[NextFile].state = "missing" THEN config
                 ELSE Merge(config, Layer)
    /\ read' = Append(read, Layer)
    /\ unchangedWorld /\ UNCHANGED <<step, flags>>

Fresh == read' = <<>> /\ config' = None
Exit == step' = "idle" /\ flags' = None /\ Fresh

\* The check stops on a file that does not load.
Refuse ==
    /\ step = "check" /\ Len(read) < Len(Files) /\ Fails
    /\ Exit
    /\ unchangedWorld

\* The run only warns, and goes on with no configuration at all.
FallBack ==
    /\ step = "load" /\ Len(read) < Len(Files) /\ Fails
    /\ step' = "proxy" /\ config' = ZeroConfig /\ read' = <<>>
    /\ unchangedWorld /\ UNCHANGED flags

Checked ==
    /\ step = "check" /\ Len(read) = Len(Files)
    /\ step' = "load" /\ Fresh
    /\ unchangedWorld /\ UNCHANGED flags

\* The end of loading, and the policy of a solitary cell over it.
Loaded ==
    /\ step = "load" /\ Len(read) = Len(Files)
    /\ step' = "proxy"
    /\ config' = LET c == ApplyEnv(config) IN
                 IF flags.solitary THEN [c EXCEPT !.proxy = Solitary(@)] ELSE c
    /\ unchangedWorld /\ UNCHANGED <<read, flags>>

-----------------------------------------------------------------------------
(* The gateway and the container are made to agree with the configuration. *)

ProxyEnabled == /\ ResolvedEnabled(config.proxy)
                /\ flags.solitary \/ ~flags.insecure

\* Settings next to a proxy that defeat it; a solitary cell drops them.
ValidateProxyCompatibility(c) ==
    ~c.privileged /\ c.caps \cap DeniedCaps = {} /\ c.tunnels = {}

\* The gateway is created from the policy unless one runs already.
EnsureProxySidecar ==
    /\ step = "proxy" /\ ProxyEnabled
    /\ flags.solitary \/ ValidateProxyCompatibility(config)
    /\ gateway' = IF gateway = None THEN config.proxy ELSE gateway
    /\ step' = "start"
    /\ UNCHANGED <<files, read, config, flags, cell, edits>>

Incompatible ==
    /\ step = "proxy" /\ ProxyEnabled
    /\ ~flags.solitary /\ ~ValidateProxyCompatibility(config)
    /\ Exit
    /\ unchangedWorld

WithoutProxy ==
    /\ step = "proxy" /\ ~ProxyEnabled
    /\ step' = "start"
    /\ unchangedWorld /\ UNCHANGED <<read, config, flags>>

configDrifted == cell # None /\ ConfigHash(cell.config) # ConfigHash(config)

\* Without a container, or over one that drifted, a new one is created.
StartCell ==
    /\ step = "start" /\ (cell = None \/ configDrifted)
    /\ cell' = [config |-> config, proxied |-> ProxyEnabled]
    /\ step' = "attached"
    /\ UNCHANGED <<files, read, config, flags, gateway, edits>>

AttachToRunning ==
    /\ step = "start" /\ cell # None /\ ~configDrifted
    /\ step' = "attached"
    /\ UNCHANGED <<files, read, config, flags, cell, gateway, edits>>

\* The agent exits; the container stays when it is one of `cell start` or
\* another run uses it, and goes together with its gateway otherwise.
Leave(kept) ==
    /\ step = "attached"
    /\ Exit
    /\ IF kept THEN UNCHANGED <<cell, gateway>>
       ELSE cell' = None /\ gateway' = None
    /\ UNCHANGED <<files, edits>>

Init ==
    /\ files \in {w \in [{Files[i] : i \in DOMAIN Files} ->
                        {Missing} \cup UNION {{Has(raw) : raw \in Contents[Files[i]]} :
                                               i \in DOMAIN Files}] :
                    \A f \in DOMAIN w : w[f].state = "text" =>
                                            w[f].raw \in Contents[f]}
    /\ step = "idle" /\ read = <<>> /\ config = None /\ flags = None
    /\ cell = None /\ gateway = None /\ edits = 0

Next ==
    \/ \E i \in DOMAIN Files : EditFile(Files[i])
    \/ Invoke \/ LoadGlobal \/ MergeNext \/ Refuse \/ Checked \/ FallBack
    \/ Loaded \/ EnsureProxySidecar \/ Incompatible \/ WithoutProxy
    \/ StartCell \/ AttachToRunning
    \/ \E kept \in BOOLEAN : Leave(kept)

Spec == Init /\ [][Next]_vars

-----------------------------------------------------------------------------
(* Properties. *)

Whole == step = "load" /\ Len(read) = Len(Files)

\* The policy that a stack of files adds up to is one that each of them would
\* accept: no file turns off the gateway, opens the host or unblocks a
\* destination that another one closed, and what it lets through beyond the
\* policy of one file was allowed by another one by name or preset.
NetworkOnlyTightens ==
    Whole => \A i \in DOMAIN read :
        Respects(config.proxy, read[i].proxy,
                 UNION {AllowList(read[j].proxy) : j \in DOMAIN read \ {i}})

\* The modules of a cell are those that files ask for after the last file
\* that says `modules = []`.
ModulesAsDeclared ==
    Whole => LET cleared == {i \in DOMAIN read : read[i].modules = {{}}}
             IN Held(config.modules) =
                UNION {Held(read[i].modules) :
                        i \in {k \in DOMAIN read : \A c \in cleared : k >= c}}

\* The provider that the first j files select.
ProviderUpTo(j) ==
    LET named == {k \in 1 .. j : read[k].provider # ""}
    IN IF named = {} THEN "default"
       ELSE read[CHOOSE k \in named : \A n \in named : n <= k].provider
\* The model an agent is started with was never chosen for another provider:
\* between the file that names it and the last file no other provider is
\* selected.
ModelStaysWithProvider ==
    Whole /\ config.model # "" =>
        \E i \in DOMAIN read :
            /\ read[i].model = config.model
            /\ \A j \in DOMAIN read : j > i =>
                read[j].model = "" /\ ProviderUpTo(j) = ProviderUpTo(i)

\* An agent is never attached to a container whose settings differ from the
\* ones its command loaded: every kind of drift makes the run replace it.
AttachedAsLoaded ==
    step = "attached" /\ cell # None => ConfigDrift(cell.config, config) = {}

\* The gateway of an attached agent enforces the policy its command loaded, as
\* the restart on drift intends.
GatewayCurrent ==
    step = "attached" /\ ProxyEnabled => gateway = config.proxy
=============================================================================
