------------------------------ MODULE MCRules ------------------------------
(***************************************************************************)
(* The configuration layers and the files of a project as two systems of   *)
(* steps that do not meet, and beside them the rules that are functions of *)
(* their input, over small inputs; one of the three per initial state.     *)
(***************************************************************************)
EXTENDS MCConfigLayers, ProjectFiles, Rules

CONSTANTS
    v1, v2,    \* two versions of a nixhome
    a1, a2,    \* two terminals
    usual, own \* two stacks

VARIABLE part \* the part that runs

allVars == <<vars, filesVars, topic, input, part>>

-----------------------------------------------------------------------------
(* Inputs. *)

MCCommands == {"claude", "start"}
MCFlagWords ==
    {Plain(n) : n \in {"--debug", "--engine", "-p", "tart", "fix"}}
    \cup {[name |-> "--engine", eq |-> e] : e \in {"tart", ""}}
MCLines == UNION {[1 .. n -> MCFlagWords] : n \in 0 .. 4}

OSNames == {"linux", "macos", "windows", "amiga"}
EngineNames == {"docker", "tart", "winkit", "qemu", "vagrant"}
Given(flag, values) == {<<>>} \cup {<<Plain(flag), Plain(v)>> : v \in values}
MCEngineInputs ==
    {[args |-> e \o o \o m, toml |-> [engine |-> n, os |-> g, experimental |-> x]] :
        e \in Given("--engine", EngineNames), o \in Given("--os", OSNames),
        m \in {<<>>, <<Plain("--macos")>>, <<Plain("--experimental"), Plain("engine-windows")>>},
        n \in EngineNames \cup {""}, g \in OSNames \cup {""},
        x \in {{}, {"engine-windows"}}}

Memories == {3, 4, 33, 64, 100}
Ceilings == {Unset, OptOut, Unreadable}
            \cup {[kind |-> "units", number |-> n, unit |-> u] :
                    n \in {0, 1, 15, 17, 300}, u \in {1, 4}}
Quotas == {Unset, OptOut} \cup {[kind |-> "cpus", number |-> n] : n \in {1, 2, 5, 9}}
NoSettings == [memory |-> Unset, cpus |-> Unset, jobs |-> Unset, cores |-> Unset]
NoSection == [memory |-> Unset, cpus |-> Unset, jobs |-> 0, cores |-> 0]
MCLimitInputs ==
    {[capacity |-> [known |-> k, memory |-> m, ncpu |-> n],
      env |-> [NoSettings EXCEPT !.memory = c, !.cpus = q], section |-> NoSection] :
        k \in BOOLEAN, m \in Memories, n \in {1, 3, 4}, c \in Ceilings, q \in Quotas}
    \cup {[capacity |-> [known |-> TRUE, memory |-> 100, ncpu |-> n],
           env |-> [memory |-> c, cpus |-> Unset, jobs |-> j, cores |-> w],
           section |-> [memory |-> OptOut, cpus |-> q, jobs |-> i, cores |-> v]] :
            n \in {1, 4}, c \in {Unset, OptOut, [kind |-> "units", number |-> 17, unit |-> 4]},
            q \in {Unset, [kind |-> "cpus", number |-> 5]},
            j \in {Unset, PerProcessor, Number(7)}, w \in {Unset, Unreadable},
            i \in {-1, 0, 9}, v \in {0, 2}}

ModelWords == {NoModel, Named("qwen"), [prefix |-> "ollama", id |-> "qwen"]}
OldTexts ==
    {[Text EXCEPT !.useOllama = u, !.useOpenRouter = r, !.provider = p,
                  !.model = m, !.oldModel = o] :
        u \in BOOLEAN, r \in BOOLEAN, p \in {"", "default", "ollama"},
        m \in ModelWords, o \in ModelWords}
    \cup {[Text EXCEPT !.ports = a, !.cellPorts = b, !.docs = a, !.secrets = c,
                       !.mcps = c, !.cellMcps = b] :
            a \in {{}, {"3000"}}, b \in {{}, {"8080"}}, c \in {{}, {"x"}}}
    \cup {[Text EXCEPT !.mounts = a, !.cellMounts = b, !.stable = s,
                       !.packages = k, !.gui = g, !.cellGui = h] :
            a \in {<<>>, <<Mount("/a", "/x")>>},
            b \in {<<>>, <<Mount("/b", "/y"), Mount("/c", "/y")>>,
                   <<Mount("/d", "/x")>>},
            s \in {{}, {{}}, {{"jq"}}}, k \in {{}, {{}}, {{"go"}}},
            g \in TriState, h \in TriState}
MCMigrateInputs ==
    {[raw |-> r, write |-> w, writable |-> x] :
        r \in OldTexts, w \in BOOLEAN, x \in BOOLEAN}

Host(workspace, base) ==
    [baseDir |-> base, project |-> base[Len(base)], id |-> "7",
     cellName |-> base[Len(base)] \o "-7", workspace |-> workspace,
     user |-> "u", home |-> <<"home", "u">>,
     workspaceHome |-> <<"home", "u", ".devcell", workspace>>,
     configDir |-> <<"home", "u", ".config", "devcell">>]
PlainRun ==
    [host |-> Host("devcell", <<"home", "u", "shop">>), shortProjectDir |-> FALSE,
     solitary |-> FALSE, insecure |-> FALSE, proxy |-> FALSE,
     privileged |-> FALSE, capAdd |-> {}, kvm |-> "unset", hostKVM |-> TRUE,
     wireguard |-> FALSE, dockerSocket |-> FALSE, volumes |-> <<>>, links |-> <<>>,
     thin |-> TRUE, gui |-> TRUE, noPorts |-> FALSE, forward |-> {},
     desktopPorts |-> {50, 89}, hoist |-> 0, taken |-> {},
     env |-> "HTTP_PROXY" :> "direct", mise |-> <<>>, extra |-> <<>>,
     inherit |-> <<>>, envFile |-> "HTTP_PROXY" :> "direct",
     lifecycle |-> ""]
Linked == Bind(<<"data">>, <<"tmp", "d">>)
MCIsolateInputs ==
    {[PlainRun EXCEPT !.solitary = a, !.insecure = b, !.proxy = c,
                      !.privileged = d, !.dockerSocket = e, !.wireguard = f,
                      !.kvm = k, !.capAdd = s, !.volumes = v,
                      !.links = <<"data">> :> <<"run", "user">>] :
        a \in BOOLEAN, b \in BOOLEAN, c \in BOOLEAN, d \in BOOLEAN,
        e \in BOOLEAN, f \in BOOLEAN, k \in {"on", "off", "unset"},
        s \in {{}, {"NET_ADMIN"}, {"SYS_PTRACE"}, {"ALL"}},
        v \in {<<>>, <<Bind(DockerSocket, <<"tmp", "d.sock">>)>>, <<Linked>>,
               <<Bind(<<"var">>, <<"v">>), Linked>>}}

Bases == {<<"home", "u">>, <<"home", "u", "shop">>, <<"srv">>, <<"opt", "devcell">>,
          <<"home", "u", ".devcell">>, <<"shop-7">>, <<"opt">>}
UserVolumes == {<<>>, <<Bind(<<"data">>, <<"home", "u">>)>>,
                <<Bind(<<"data">>, <<"home">>), Bind(<<"x">>, <<"devcell", "srv">>)>>}
MCMountInputs ==
    {[PlainRun EXCEPT !.host = Host(w, b), !.shortProjectDir = p, !.volumes = v,
                      !.wireguard = g] :
        w \in {"devcell", "home", "shop", "opt"}, b \in Bases, p \in BOOLEAN,
        v \in UserVolumes, g \in BOOLEAN}

ServeModels == {<<>>, <<"gpt">>, <<"claude">>, <<"anthropic", "sonnet">>, <<"opencode">>}
Item(role, content) == [role |-> role, content |-> content]
Plainly(text) == [kind |-> "string", text |-> text]
ServeInputs ==
    {[kind |-> "absent"], [kind |-> "other"], Plainly(<<>>), Plainly(<<"hi">>)}
    \cup {[kind |-> "items", items |-> i] :
            i \in {<<>>, <<Item("", [kind |-> "other"])>>, <<Item("user", [kind |-> "absent"])>>,
                   <<Item("developer", Plainly(<<"be">>)), Item("assistant", Plainly(<<>>)),
                     Item("", [kind |-> "parts", parts |-> <<<<"how">>, <<>>, <<"so">>>>])>>}}
Agents ==
    {[found |-> f, exit |-> x, envelope |-> e, text |-> <<"42">>, deltas |-> t, stderr |-> d,
      usage |-> [input |-> 1, creation |-> 2, read |-> 4, output |-> 8]] :
        f \in BOOLEAN, x \in {0, 1}, e \in BOOLEAN, d \in {<<>>, <<"oops">>},
        t \in {<<"42">>, <<"let", "me", "42">>}}
Server(key, installed, api) ==
    [key |-> key, overlay |-> "overlay.md", base |-> "", installed |-> installed, api |-> api]
MCAnswerInputs ==
    {[server |-> Server("k", {"claude", "opencode"}, <<>>), agent |-> a, body |-> b] :
        a \in Agents,
        b \in Serve!ResponsesRequest(ServeModels, ServeInputs, {<<>>, <<"be", "brief">>},
                                      {"", "high", "max"})}
Chats == {<<>>, <<Item("system", <<"be">>), Item("user", <<"hi">>)>>}
MCChatInputs ==
    {[server |-> Server(k, i, m), agent |-> a, body |-> b] :
        k \in {"", "k"}, i \in SUBSET {"claude", "opencode"}, m \in {<<>>, <<"opus-9">>},
        a \in {x \in Agents : x.stderr = <<>> /\ Len(x.deltas) = 1},
        b \in Serve!ChatRequest({<<"claude">>}, Chats, {"", "low", "max"})}

Sizes == {<<"N/A">>, <<20, "B">>, <<15, "kB">>}
DiskImages ==
    {[id |-> "i", repository |-> "devcell", tag |-> "<none>", created |-> "",
      size |-> z, unique |-> u, shared |-> <<0, "B">>, containers |-> c] :
        z \in {<<20, "MB">>, <<7, "EB">>}, u \in Sizes, c \in {<<0>>, <<1>>, <<>>}}
DiskVolumes == {[name |-> "v", size |-> z, links |-> <<1>>] : z \in Sizes}
DiskCaches ==
    {[id |-> "b", description |-> "", size |-> <<20, u>>, inUse |-> IF u = "B" THEN "true" ELSE "no"] :
        u \in {"B", "kB"}}
DiskContainers ==
    {[id |-> "c", names |-> "c", state |-> s, size |-> [writable |-> <<15, "kB">>]] :
        s \in {"running", "exited"}}
MCDiskInputs ==
    {[raw |-> [images |-> i, volumes |-> v, cache |-> b, containers |-> c],
      flags |-> [top |-> n, all |-> n = 2, json |-> TRUE, kinds |-> k]] :
        i \in {<<>>} \cup DiskImages \X {y \in DiskImages : y.containers = <<1>> /\ y.size[2] = "MB"},
        v \in {<<>>} \cup {<<x>> : x \in DiskVolumes},
        b \in {<<>>} \cup {<<x, x>> : x \in DiskCaches},
        c \in {<<>>} \cup {<<x>> : x \in DiskContainers},
        n \in 0 .. 2, k \in {{}, {"images"}, {"cache", "volume"}}}

\* A nixhome is a directory, and in one of them there is a file.
MCEntries == {"stacks", "stacks/base"}
MCTreeOf == (v1 :> <<"stacks", "stacks/base">>) @@ (v2 :> <<"stacks">>)

MCInit ==
    /\ Init /\ FilesInit /\ RulesInit
    /\ \/ part = "layers" /\ toml = Absent
       \/ part = "files" /\ \A f \in DOMAIN files : files[f] = Missing
       \/ part = "rules" /\ toml = Absent /\ \A f \in DOMAIN files : files[f] = Missing

Layers == part = "layers" /\ Next /\ UNCHANGED <<filesVars, topic, input, part>>
Project == part = "files" /\ FilesNext /\ UNCHANGED <<vars, topic, input, part>>
Rule == part = "rules" /\ RulesNext /\ UNCHANGED <<vars, filesVars, part>>

MCNext == Layers \/ Project \/ Rule

MCSpec == MCInit /\ [][MCNext]_allVars
=============================================================================
