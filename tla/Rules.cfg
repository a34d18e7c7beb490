\* Two contents of each of three files, any of which may be missing, and one
\* edit; command lines of up to four words; every combination of engine and
\* operating system on the command line and in the files.  Two terminals in one
\* project, one of them for builds only, two stacks and two nixhomes, one local.
SPECIFICATION MCSpec
CONSTANTS
    Dests <- MCDests
    Presets <- MCPresets
    DomainsOf <- MCDomainsOf
    IncludesOf <- MCIncludesOf
    Images = {"squid"}
    SolitaryPresets = {"claude"}
    Files <- MCFiles
    Scalars <- MCScalars
    ProjectWins <- MCProjectWins
    Kept <- MCKept
    Contents <- MCContents
    Overrides <- MCOverrides
    DeniedCaps = {"NET_ADMIN"}
    MaxEdits = 1
    BoolFlags = {"--debug", "--macos"}
    StringFlags = {"--engine", "--os", "--experimental"}
    AgentFlags = {"-p"}
    Commands = {"claude", "start"}
    HelpWords = {"--help"}
    SafeCaps = {"CHOWN"}
    IsolationCaps = {"NET_ADMIN"}
    Top = 200
    UserPort = 10
    Tries = 3
    GiB = 4
    CPU = 2
    Word = 1024
    JobGiB = 4
    Lines <- MCLines
    EngineInputs <- MCEngineInputs
    LimitInputs <- MCLimitInputs
    MigrateInputs <- MCMigrateInputs
    IsolateInputs <- MCIsolateInputs
    MountInputs <- MCMountInputs
    AnswerInputs <- MCAnswerInputs
    ChatInputs <- MCChatInputs
    DiskInputs <- MCDiskInputs
    Kilo = 10
    v1 = v1  v2 = v2  a1 = a1  a2 = a2  usual = usual  own = own
    Actors = {a1, a2}
    Builders = {a2}
    Choices = {usual, own}
    Base = usual
    Sources = {v1, v2}
    Local = {v1}
    Entries <- MCEntries
    TreeOf <- MCTreeOf
    Required = {"stacks"}
    Absent = Absent
INVARIANTS
    NetworkOnlyTightens
    ModulesAsDeclared
    ModelStaysWithProvider
    AttachedAsLoaded
    EveryWordReadOnce
    RunAsAsked
    BuildFits
    MigrationMeansTheSame
    SettingsRespectProxy
    MountsAsPromised
    AnswersAgree
    ListedModelsServed
    DiskCounted
    BuiltAsAsked
    LockMatchesNixhome
