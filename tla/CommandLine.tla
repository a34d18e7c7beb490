---------------------------- MODULE CommandLine ----------------------------
(***************************************************************************)
(* How the words after `cell` are read.  Agent commands disable cobra's    *)
(* parsing: one function checks the cell's own flags, a second one strips  *)
(* them from what the agent gets, and others scan the same words for       *)
(* values.                                                                 *)
(*                                                                         *)
(* A word is [name, eq]: "--os=x" has name "--os" and eq "x"; a word       *)
(* without "=" has eq NoValue.  Values, prompts and commands are names, too.  *)
(***************************************************************************)
EXTENDS Naturals, Sequences, TLC

CONSTANTS
    BoolFlags,    \* flags of the cell that stand alone
    StringFlags,  \* flags of the cell that take a value
    AgentFlags,   \* other words that begin with "-"
    Commands,     \* names and aliases of subcommands
    HelpWords     \* words that ask for help, version or completion

ASSUME FlagsAssumption ==
    /\ BoolFlags \cap StringFlags = {}
    /\ (BoolFlags \cup StringFlags) \cap AgentFlags = {}

NoValue == "no value"
Dashes == BoolFlags \cup StringFlags \cup AgentFlags
Plain(name) == [name |-> name, eq |-> NoValue]
Words == [name : STRING, eq : STRING]

First(S) == CHOOSE i \in S : \A j \in S : i <= j

-----------------------------------------------------------------------------
(* The cell's flags. *)

IsBool(w) == w.name \in BoolFlags /\ w.eq = NoValue
IsString(w) == w.name \in StringFlags /\ w.eq = NoValue
IsAssigned(w) == w.name \in StringFlags /\ w.eq # NoValue

validateCellFlagsNoDash(args) ==
    \A i \in DOMAIN args : args[i].name \in StringFlags =>
        IF args[i].eq = NoValue THEN i < Len(args) ELSE args[i].eq # ""
validateCellFlags(args) ==
    \A i \in DOMAIN args : args[i].name \in StringFlags =>
        IF args[i].eq = NoValue
        THEN i < Len(args) /\ args[i + 1].name \notin Dashes
        ELSE args[i].eq # ""

\* The walk from the left skips the word after a string flag whatever it is, so
\* of a row of string flags every other one is itself a value.
IsValue(args, i) ==
    \E n \in 1 .. i - 1 :
        /\ n % 2 = 1
        /\ \A j \in i - n .. i - 1 : IsString(args[j])
        /\ n < i - 1 => ~IsString(args[i - n - 1])

\* The positions that are left to the agent.
KeptWords(args) ==
    {i \in DOMAIN args :
        /\ ~IsValue(args, i)
        /\ ~IsBool(args[i]) /\ ~IsString(args[i]) /\ ~IsAssigned(args[i])}
stripCellFlags(args) ==
    LET at[i \in 0 .. Len(args)] ==
            IF i = 0 THEN <<>>
            ELSE IF i \in KeptWords(args) THEN Append(at[i - 1], args[i])
            ELSE at[i - 1]
    IN at[Len(args)]

scanFlag(args, flag) == \E i \in DOMAIN args : args[i] = Plain(flag)
scanStringFlag(args, flag) ==
    LET hits == {i \in DOMAIN args :
                    /\ args[i].name = flag
                    /\ args[i].eq # NoValue \/ i < Len(args)}
    IN IF hits = {} THEN ""
       ELSE IF args[First(hits)].eq = NoValue THEN args[First(hits) + 1].name
       ELSE args[First(hits)].eq

wantsHelp(args) ==
    \E i \in DOMAIN args :
        /\ args[i].name \in {"-h", "--help"}
        /\ \A j \in 1 .. i - 1 : args[j].name # "--"

-----------------------------------------------------------------------------
(* The default command is put in front of words that name none. *)

\* The position of the first word that is neither a cell flag nor a value.
firstAfterCellFlags(args) ==
    IF KeptWords(args) = {} THEN "" ELSE args[First(KeptWords(args))].name

rewriteDefaultCommand(args, default) ==
    IF \/ default = ""
       \/ args # <<>> /\ \/ args[1].name \in Commands \cup HelpWords
                         \/ firstAfterCellFlags(args) \in Commands
                         \/ args[1].name \notin Dashes
    THEN args
    ELSE <<Plain(default)>> \o args

skipsConfigCheck(args) == args # <<>> /\ args[1].name \in HelpWords

\* The subcommand, and the words that cobra hands to it.
Dispatch(args) ==
    LET at == {i \in DOMAIN args : args[i].name \in Commands
                                   /\ \A j \in 1 .. i - 1 : j \notin KeptWords(args)}
    IN IF at = {} THEN [command |-> "", words |-> args]
       ELSE LET i == First(at) IN
            [command |-> args[i].name,
             words |-> SubSeq(args, 1, i - 1)
                       \o SubSeq(args, i + 1, Len(args))]

-----------------------------------------------------------------------------
(* The engine and the guest. *)

Engines == {"docker", "tart", "winkit"}
\* The guests of each engine, and the one it runs unless told otherwise.
Guests(n) ==
    CASE n = "docker" -> {"linux"}
      [] n = "tart" -> {"macos"}
      [] n = "winkit" -> {"windows-full", "winpe"}
DefaultGuest(n) ==
    CASE n = "docker" -> "linux" [] n = "tart" -> "macos"
      [] n = "winkit" -> "windows-full" [] OTHER -> ""
GuestForOS ==
    [os \in {"linux", "macos", "windows", "winpe"} |->
        IF os = "windows" THEN "windows-full" ELSE os]
DefaultFor ==
    [g \in {"linux", "macos", "windows-full", "winpe"} |->
        CASE g = "linux" -> "docker" [] g = "macos" -> "tart" [] OTHER -> "winkit"]
Supports(n, g) == n \in Engines /\ g \in Guests(n)

\* A deprecated alias is followed; a retired or unknown name is an error.
Error == "error"
parse(v) == CASE v = "qemu" -> "winkit"
              [] v \in Engines -> v
              [] OTHER -> Error

ResolveEngineFirst(flagEngine, flagOS, tomlEngine, tomlOS) ==
    CASE flagEngine # "" -> parse(flagEngine)
      [] flagEngine = "" /\ flagOS \in DOMAIN GuestForOS ->
            DefaultFor[GuestForOS[flagOS]]
      [] OTHER -> IF tomlEngine = "" THEN "docker" ELSE parse(tomlEngine)
Resolve(flagEngine, flagOS, tomlEngine, tomlOS) ==
    LET known == flagOS \in DOMAIN GuestForOS
        named == parse(flagEngine)
    IN CASE flagEngine # "" /\ named = Error -> Error
         [] flagEngine # "" /\ named # Error ->
                IF flagOS = "" \/ (known /\ Supports(named, GuestForOS[flagOS]))
                THEN named ELSE Error
         [] flagEngine = "" /\ flagOS # "" ->
                IF known THEN DefaultFor[GuestForOS[flagOS]] ELSE Error
         [] flagEngine = "" /\ flagOS = "" ->
                IF tomlEngine # "" THEN parse(tomlEngine)
                ELSE IF tomlOS \in DOMAIN GuestForOS
                THEN DefaultFor[GuestForOS[tomlOS]] ELSE "docker"

\* The first operating system that the engine can run, else its default one.
GuestFor(n, flagOS, tomlOS) ==
    LET Runs(os) == os \in DOMAIN GuestForOS /\ Supports(n, GuestForOS[os])
    IN CASE Runs(flagOS) -> GuestForOS[flagOS]
         [] ~Runs(flagOS) /\ Runs(tomlOS) -> GuestForOS[tomlOS]
         [] OTHER -> DefaultGuest(n)

scanOSFlag(args) ==
    IF scanStringFlag(args, "--os") # "" THEN scanStringFlag(args, "--os")
    ELSE IF scanFlag(args, "--macos") THEN "macos" ELSE ""

\* An experiment that is not on keeps the Windows guest away.
resolveEngine(args, toml) ==
    LET n == Resolve(scanStringFlag(args, "--engine"), scanOSFlag(args),
                     toml.engine, toml.os)
        experiments == toml.experimental
                       \cup ({scanStringFlag(args, "--experimental")} \ {""})
    IN IF \/ ~(experiments \subseteq {"ui-cage", "ui-boot-popup",
                                      "engine-windows"})
          \/ n = "winkit" /\ "engine-windows" \notin experiments
       THEN Error ELSE n

cellGuest(args, toml) ==
    GuestFor(resolveEngine(args, toml), scanOSFlag(args), toml.os)

-----------------------------------------------------------------------------
(* The provider of an agent's model. *)

\* A flag overrides [llm] provider for one run; OpenRouter wins over ollama.
UsedProvider(args, llm) ==
    CASE scanFlag(args, "--openrouter") -> "openrouter"
      [] ~scanFlag(args, "--openrouter") /\ scanFlag(args, "--ollama") -> "ollama"
      [] OTHER -> IF llm.provider = "" THEN "default" ELSE llm.provider

ModelFor(llm, provider) ==
    IF (IF llm.provider = "" THEN "default" ELSE llm.provider) = provider
    THEN llm.model ELSE ""

\* What claude and codex are started with: where to send requests, the key to
\* fill in, and the model; "best" is the one that ranking the host's models
\* selects, and only claude looks for it.
AgentEnv(agent, args, llm) ==
    LET provider == UsedProvider(args, llm)
        model == ModelFor(llm, provider)
    IN CASE provider = "openrouter" ->
                [endpoint |-> "openrouter", key |-> "OPENROUTER_API_KEY",
                 model |-> IF model = "" THEN llm.listed ELSE model]
         [] provider = "ollama" ->
                [endpoint |-> "ollama", key |-> "",
                 model |-> IF model = "" /\ agent = "claude" THEN llm.best
                           ELSE model]
         [] provider = "default" ->
                [endpoint |-> "default", key |-> "",
                 model |-> IF agent = "opencode" THEN model ELSE ""]

-----------------------------------------------------------------------------
(* `cell shell` runs in the container that is up, or in a new one. *)

ShellCommand(args, running) ==
    LET dashes == {i \in DOMAIN args : args[i].name = "--"}
        rest == IF dashes = {} THEN <<>>
                ELSE SubSeq(args, First(dashes) + 1, Len(args))
        before == IF dashes = {} THEN args ELSE SubSeq(args, 1, First(dashes) - 1)
    IN IF running
       THEN [exec |-> TRUE, binary |-> IF rest = <<>> THEN "zsh" ELSE rest[1].name,
             words |-> IF rest = <<>> THEN <<>> ELSE Tail(rest)]
       ELSE [exec |-> FALSE, binary |-> IF rest = <<>> THEN "zsh" ELSE rest[1].name,
             words |-> stripCellFlags(before \o (IF rest = <<>> THEN <<>>
                                                 ELSE Tail(rest)))]

-----------------------------------------------------------------------------
(* The prompts of an agent: one that replaces and one that is added. *)

\* The first tier that is set decides; both its forms at once are an error.
resolveTiers(tiers) ==
    LET given == SelectSeq(tiers, LAMBDA t : t.file # "" \/ t.inline # "")
    IN IF given = <<>> THEN ""
       ELSE IF given[1].file # "" /\ given[1].inline # "" THEN Error
       ELSE IF given[1].file # "" THEN given[1].file ELSE given[1].inline

\* The context of the container comes first and is never displaced.
AssembleOverlayPrompt(context, tiers) ==
    IF resolveTiers(tiers) = Error THEN <<Error>>
    ELSE <<context>> \o (IF resolveTiers(tiers) = "" THEN <<>>
                         ELSE <<resolveTiers(tiers)>>)
=============================================================================
