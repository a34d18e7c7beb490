------------------------------ MODULE RunArgs ------------------------------
(***************************************************************************)
(* The arguments of `docker run`: what a cell may do, sees and is told, as *)
(* a function of its configuration, the command's flags and the host.      *)
(*                                                                         *)
(* A path is the sequence of its names, <<>> the root.  A spec is a record *)
(* that stands for RunSpec and the parts of the configuration it reads.    *)
(***************************************************************************)
EXTENDS Naturals, Sequences, TLC

SX == INSTANCE SequencesExt

CONSTANTS
    SafeCaps,      \* capabilities that a solitary cell keeps
    IsolationCaps, \* those that defeat the isolation of the network
    Top, UserPort, \* the last port, and the first that any user may bind
    Tries          \* candidates that a scan for a free port looks at

ASSUME CapsAssumption == SafeCaps \cap (IsolationCaps \cup {"ALL"}) = {}
ASSUME PortsAssumption == Top \in Nat /\ UserPort \in 1 .. Top /\ Tries \in Nat

DeniedMountPaths == {<<"var", "run">>, <<"run">>, <<"proc">>, <<"sys">>}
NixVolume == <<"volumes", "nix">>
DockerSocket == <<"var", "run", "docker.sock">>

Under(path, dir) == SX!IsPrefix(dir, path)

-----------------------------------------------------------------------------
(* The names and paths of a cell. *)

\* The id of a cell: set, deprecated, or the pane of tmux or of zellij.
resolveCellID(env) ==
    LET given == SelectSeq(<<env.cellID, env.bunk, env.tmuxPane,
                             IF env.zellij # "" THEN env.zellijPane ELSE "">>,
                           LAMBDA s : s # "")
    IN IF given = <<>> THEN "0" ELSE given[1]
ResolveWorkspaceName(env) ==
    LET given == SelectSeq(<<env.workspace, env.cellName, env.tmuxSession>>,
                           LAMBDA s : s # "")
    IN IF given = <<>> THEN "devcell" ELSE given[1]

\* XDG's directory of configurations, when the environment names one.
ResolveConfigDir(env) ==
    IF env.xdg # <<>> THEN env.xdg \o <<"devcell">>
    ELSE env.home \o <<".config", "devcell">>

\* The directories of the host that a cell is about.
HostDirs(c) == {c.baseDir, c.home, c.workspaceHome, c.configDir}
IsPath(p) == p \in Seq({p[i] : i \in DOMAIN p})

Load(cwd, env) ==
    [baseDir |-> cwd, project |-> SX!Last(cwd), id |-> resolveCellID(env),
     cellName |-> SX!Last(cwd) \o "-" \o resolveCellID(env),
     workspace |-> ResolveWorkspaceName(env), user |-> env.user,
     home |-> env.home,
     workspaceHome |-> env.home \o <<".devcell", ResolveWorkspaceName(env)>>,
     configDir |-> ResolveConfigDir(env)]

ProjectMountPath(c) == <<c.workspace>> \o c.baseDir
ShortProjectPath(c) == <<c.workspace, c.project>>
ProjectDir(spec) == IF spec.shortProjectDir THEN ShortProjectPath(spec.host)
                    ELSE ProjectMountPath(spec.host)
HomeTarget(c) == <<"home", c.user>>

-----------------------------------------------------------------------------
(* Ports on the host. *)

\* A number past the last port wraps, and is lifted to where users may bind.
ClampPort(p) ==
    LET wrapped == 1 + ((p - 1) % Top)
    IN IF p <= Top THEN p
       ELSE IF wrapped < UserPort THEN wrapped + UserPort ELSE wrapped

\* The first free port from the preferred one on, the preferred one when the
\* scan finds none.  `hoist` is what lifts a privileged port.
ResolveAvailablePort(preferred, hoist, taken) ==
    LET port == IF preferred < UserPort THEN preferred + hoist ELSE preferred
        free == {p \in port .. (port + Tries - 1) : p <= Top /\ p \notin taken}
    IN IF free = {} THEN port ELSE CHOOSE p \in free : \A q \in free : p <= q

\* "3000", "8080:3000" and "8080:", of which the last one finds a free port.
ResolveForwardEntry(entry, hoist, taken) ==
    CASE entry.container # 0 -> entry
      [] entry.container = 0 /\ entry.auto -> [entry EXCEPT !.container = entry.host,
                        !.host = ResolveAvailablePort(entry.host, hoist, taken)]
      [] OTHER -> [entry EXCEPT !.container = entry.host]

-----------------------------------------------------------------------------
(* What the container may do. *)

forceInsecure(spec) == spec.insecure /\ ~spec.solitary
Proxied(spec) == spec.solitary \/ (spec.proxy /\ ~forceInsecure(spec))

\* The path itself, as it is written: a link below it is not followed.
isDangerousMount(path) == \E d \in DeniedMountPaths : Under(path, d)
isDeniedByPolicy(volume) == isDangerousMount(volume.src)

\* Where a path of the host leads when its links are followed; the path itself
\* when there is nothing.
EvalSymlinks(spec, path) == IF path \in DOMAIN spec.links THEN spec.links[path] ELSE path

\* Settings that defeat the gateway, capabilities by their names; checked unless
\* the cell is solitary.
CompatibleWithProxy(spec) ==
    /\ ~spec.privileged /\ spec.capAdd \cap IsolationCaps = {}
    /\ ~spec.wireguard /\ spec.kvm # "on"
    /\ \A i \in DOMAIN spec.volumes :
        ~isDangerousMount(EvalSymlinks(spec, spec.volumes[i].src))
Accepted(spec) ==
    Proxied(spec) /\ ~spec.solitary => CompatibleWithProxy(spec)

\* The probe for KVM is skipped where the device would be blocked.
ProbeKVM(spec) == /\ spec.kvm = "unset" /\ ~Proxied(spec)
                  /\ spec.hostKVM

wgEnabled(spec) == spec.wireguard /\ ~spec.solitary
Privileged(spec) == spec.privileged /\ ~spec.solitary

Caps(spec) ==
    IF spec.solitary THEN SafeCaps
    ELSE spec.capAdd \cup (IF wgEnabled(spec) /\ ~spec.privileged
                           THEN {"NET_ADMIN"} ELSE {})

DevicesUnchecked(spec) ==
    {"/dev/fuse"}
    \cup (IF spec.kvm = "on" \/ (spec.kvm = "unset" /\ spec.hostKVM)
          THEN {"/dev/kvm"} ELSE {})
    \cup (IF wgEnabled(spec) THEN {"/dev/net/tun"} ELSE {})
Devices(spec) ==
    {"/dev/fuse"}
    \cup (IF (spec.kvm = "on" \/ ProbeKVM(spec)) /\ ~spec.solitary
          THEN {"/dev/kvm"} ELSE {})
    \cup (IF wgEnabled(spec) THEN {"/dev/net/tun"} ELSE {})

Network(spec) == IF Proxied(spec) THEN "internal" ELSE "devcell-network"

\* Host port and container port of every -p; two for the desktop.
Published(spec) ==
    IF spec.noPorts \/ spec.solitary THEN {}
    ELSE {ResolveForwardEntry(e, spec.hoist, spec.taken) : e \in spec.forward}
         \cup (IF spec.gui THEN {[host |-> ResolveAvailablePort(p, spec.hoist,
                                                               spec.taken),
                                  container |-> p, auto |-> TRUE] :
                                 p \in spec.desktopPorts}
               ELSE {})

-----------------------------------------------------------------------------
(* What the container sees. *)

Bind(src, dst) == [src |-> src, dst |-> dst]

\* Of the aliases of the project's directory one that would nest in another
\* is left out.
projectTargets(c) ==
    {c.baseDir, ProjectMountPath(c), <<c.cellName>>, ShortProjectPath(c)}
Nested(c, target) ==
    \E other \in projectTargets(c) : other # target /\ Under(target, other)
ProjectMounts(c) ==
    {Bind(c.baseDir, t) : t \in {t \in projectTargets(c) : ~Nested(c, t)}}

Optional(condition, mounts) == IF condition THEN mounts ELSE {}

AgentMounts(c) ==
    LET home == HomeTarget(c) IN
    {Bind(c.home \o <<".claude", "commands">>, home \o <<".claude", "commands">>),
     Bind(c.home \o <<".claude", "agents">>, home \o <<".claude", "agents">>),
     Bind(c.configDir, <<"etc", "devcell", "config">>),
     Bind(c.configDir, home \o <<".config", "devcell">>)}

HomeMount(c) == {Bind(c.workspaceHome, HomeTarget(c))}

SystemMounts(spec) ==
    LET c == spec.host IN
    Optional(spec.dockerSocket /\ ~Proxied(spec), {Bind(DockerSocket, DockerSocket)})
    \cup AgentMounts(c)
    \cup Optional(spec.thin, {Bind(NixVolume, <<"nix">>)})
    \cup {Bind(c.workspaceHome \o <<"boot">>, <<"tmp", "devcell-boot">>)}

\* The user's volumes that may be mounted; of those on one path the first.
UserMounts(spec) ==
    LET volumes == spec.volumes
        allowed == {i \in DOMAIN volumes :
                        spec.solitary => ~isDeniedByPolicy(volumes[i])}
    IN {volumes[i] : i \in {i \in allowed : \A j \in allowed :
                                j < i => volumes[j].dst # volumes[i].dst}}

WireguardMount(spec) ==
    Optional(wgEnabled(spec),
             {Bind(spec.host.workspaceHome \o <<".wg">>,
                   HomeTarget(spec.host) \o <<".devcell", spec.host.workspace, ".wg">>)})

\* A container path is mounted once, by the first that asks for it.
Over(first, later) ==
    first \cup {m \in later : \A n \in first : n.dst # m.dst}

MountsProjectFirst(spec) ==
    Over(ProjectMounts(spec.host), Over(HomeMount(spec.host),
         Over(SystemMounts(spec), Over(UserMounts(spec), WireguardMount(spec)))))
Mounts(spec) ==
    Over(HomeMount(spec.host), Over(ProjectMounts(spec.host),
         Over(SystemMounts(spec), Over(UserMounts(spec), WireguardMount(spec)))))

\* What a path in the container is on the host: the deepest mount decides.
Sees(spec, path) ==
    LET over == {m \in Mounts(spec) : Under(path, m.dst)}
        deepest == CHOOSE m \in over : \A n \in over : Len(n.dst) <= Len(m.dst)
    IN IF over = {} THEN <<"the image">>
       ELSE deepest.src \o SubSeq(path, Len(deepest.dst) + 1, Len(path))

-----------------------------------------------------------------------------
(* What the container is told. *)

\* A tier of the git identity is taken whole.
ResolveGitIdentity(hostEnv, section, gitConfig) ==
    LET Set(id) == {f \in DOMAIN id : id[f] # ""}
        Filled(id) == [f \in DOMAIN id |-> IF id[f] = "" THEN "default" ELSE id[f]]
        Committer(id) == [id EXCEPT !.committerName =
                              IF @ = "" THEN id.authorName ELSE @,
                              !.committerEmail =
                              IF @ = "" THEN id.authorEmail ELSE @]
        Both(id) == [authorName |-> id.name, authorEmail |-> id.email,
                     committerName |-> id.name, committerEmail |-> id.email]
    IN CASE Set(hostEnv) # {} -> Filled(hostEnv)
         [] Set(hostEnv) = {} /\ Set(section) # {} -> Filled(Committer(section))
         [] OTHER -> Filled(Both(gitConfig))

\* References in [env]: to the host's environment, or to a secret.  A set but
\* empty value is a miss like an absent one.
ReferenceValue(v, hostEnv, secrets) ==
    CASE v.kind = "plain" -> v.of
      [] v.kind = "var" -> IF v.of \in DOMAIN hostEnv THEN hostEnv[v.of] ELSE ""
      [] v.kind = "secret" -> IF v.of \in DOMAIN secrets THEN secrets[v.of] ELSE ""
ExpandEnv(env, hostEnv, secrets) ==
    [k \in DOMAIN env |-> ReferenceValue(env[k], hostEnv, secrets)]
MissingRefs(env, hostEnv, secrets) ==
    {k \in DOMAIN env : /\ env[k].kind # "plain"
                        /\ ReferenceValue(env[k], hostEnv, secrets) = ""}

\* A key of OpenRouter that the command left open is filled after secrets.
FillOpenRouterKey(extra, hostEnv) ==
    [k \in DOMAIN extra |->
        IF k \in {"OPENROUTER_API_KEY", "ANTHROPIC_AUTH_TOKEN"} /\ extra[k] = ""
        THEN hostEnv["OPENROUTER_API_KEY"] ELSE extra[k]]

ProxyEnv(spec) ==
    IF Proxied(spec) THEN [HTTP_PROXY |-> "gateway"] ELSE <<>>

\* The pairs that every engine hands over, then [env] and [mise] over them.
GuestEnv(spec) == spec.mise @@ spec.env @@ [IS_SANDBOX |-> "1"]

\* The variables in the order of their -e, of which docker takes the last one
\* of a name.
HandedOver(spec) ==
    <<[TERM |-> "xterm"], spec.envFile, [DEVCELL_WM |-> "xfce"], GuestEnv(spec),
      ProxyEnv(spec), spec.extra, spec.inherit>>
Env(spec) ==
    LET By(name) == {i \in DOMAIN HandedOver(spec) : name \in DOMAIN HandedOver(spec)[i]}
        last(name) == CHOOSE i \in By(name) : \A j \in By(name) : j <= i
    IN [name \in UNION {DOMAIN HandedOver(spec)[i] : i \in DOMAIN HandedOver(spec)} |->
            HandedOver(spec)[last(name)][name]]

Labels(spec) == [lifecycle |-> IF spec.lifecycle = "" THEN "oneshot"
                               ELSE spec.lifecycle,
                 cellid |-> spec.host.id, workspace |-> spec.host.workspace,
                 policy |-> IF spec.solitary THEN "solitary" ELSE "open"]

-----------------------------------------------------------------------------
(* The image. *)

UserImageTag(env, perCell, workspace, stack, modules) ==
    CASE env.image # "" -> <<env.image>>
      [] env.image = "" /\ perCell -> <<"devcell-user", workspace>>
      [] OTHER -> <<"devcell-user", IF stack = "" THEN "base" ELSE stack, modules>>
UserImageTagThin(env, perCell, workspace, stack, modules) ==
    CASE env.thinImage # "" -> <<env.thinImage>>
      [] env.thinImage = "" /\ env.image # "" -> <<env.image>>
      [] OTHER -> UserImageTag(env, perCell, workspace, stack, modules)
                  \o <<"thin">>
UserImageTagPure(env, perCell, workspace, stack, modules) ==
    IF env.pureImage # "" THEN <<env.pureImage>>
    ELSE UserImageTag(env, perCell, workspace, stack, modules) \o <<"pure">>
PickImageTag(impure, env, perCell, workspace, stack, modules) ==
    IF impure THEN UserImageTag(env, perCell, workspace, stack, modules)
    ELSE UserImageTagPure(env, perCell, workspace, stack, modules)
=============================================================================
