---------------------------- MODULE BuildLimits ----------------------------
(***************************************************************************)
(* The ceilings of the container that builds a thin image, and the         *)
(* parallelism that nix gets under them, unless the environment or the     *)
(* [build] section of a configuration says otherwise.                      *)
(*                                                                         *)
(* Memory is counted in units of which GiB make one GiB, and wraps around  *)
(* like an int64 at Word; CPUs are counted in units of which CPU make one. *)
(***************************************************************************)
EXTENDS Integers

CONSTANTS GiB, CPU, Word, JobGiB

ASSUME UnitsAssumption ==
    /\ GiB \in Nat \ {0} /\ CPU \in Nat \ {0} /\ JobGiB \in Nat \ {0}
    /\ Word \in Nat /\ Word > GiB

NoMemory == -1
OptOut == [kind |-> "out"]
Unset == [kind |-> "unset"]
Unreadable == [kind |-> "nonsense"]
PerProcessor == [kind |-> "auto"]
Number(n) == [kind |-> "number", number |-> n]

\* What the daemon says of itself, and what can be written in the environment:
\* a size of memory, a number of CPUs, and what is passed on to nix unread.  A
\* number that no word holds cannot be read.
Daemons == [known : BOOLEAN, memory : Nat \ {0}, ncpu : Nat \ {0}]
MemorySettings ==
    {Unset, OptOut, Unreadable}
    \cup [kind : {"units"}, number : 0 .. Word - 1, unit : Nat \ {0}]
CPUSettings == {Unset, OptOut, Unreadable} \cup [kind : {"cpus"}, number : Int]
NixSettings == {Unset, PerProcessor, Unreadable} \cup [kind : {"number"}, number : Int]
Environments ==
    [memory : MemorySettings, cpus : CPUSettings, jobs : NixSettings, cores : NixSettings]
BuildSections == [memory : MemorySettings, cpus : CPUSettings, jobs : Int, cores : Int]

\* Two's complement of the word.
Wrap(n) == ((n + Word) % (2 * Word)) - Word

\* "8g" shifts a number into bytes; whatever cannot be read is no ceiling.
parseMemoryLimit(text) ==
    CASE text.kind = "units" -> Wrap(text.number * text.unit)
      [] OTHER -> NoMemory

\* Three quarters of the daemon's memory, in whole GiB.
defaultBuildMemory(memory) ==
    LET gib == ((memory \div 4) * 3) \div GiB
    IN IF gib < 1 THEN OptOut ELSE [kind |-> "units", number |-> gib, unit |-> GiB]

\* The variable of the environment, else the default; "0" opts out.
buildResourceLimit(env, default) == IF env = Unset THEN default ELSE env

CLAMP(n, low, high) == IF n < low THEN low ELSE IF n > high THEN high ELSE n

\* jobs and cores of nix under a ceiling on memory and a quota of CPUs, 0
\* when there is no quota.
cpuBudget(quota, ncpu) ==
    IF quota > 0 /\ quota \div CPU < ncpu THEN CLAMP(quota \div CPU, 1, ncpu)
    ELSE ncpu
jobsOf(memory, budget) == CLAMP((memory \div GiB) \div JobGiB, 1, budget)
nixConcurrencyGreedy(memory, quota, ncpu) ==
    [jobs |-> cpuBudget(quota, ncpu), cores |-> 1]
nixConcurrency(memory, quota, ncpu) ==
    LET budget == cpuBudget(quota, ncpu)
        jobs == jobsOf(memory, budget)
    IN [jobs |-> jobs, cores |-> CLAMP(budget \div jobs, 1, budget)]

Nothing == [ceiling |-> FALSE, memory |-> 0, cpus |-> 0, jobs |-> 0, cores |-> 0]

\* A ceiling at or above the capacity is dropped; the CPU quota goes with the
\* memory's ceiling.  An unreadable quota is no quota.
clampBuildLimits(capacity, setMemory, setCPUs) ==
    LET limit == buildResourceLimit(setMemory, defaultBuildMemory(capacity.memory))
        bytes == parseMemoryLimit(limit)
        kept == limit.kind = "units" /\ bytes < capacity.memory
        cpus == buildResourceLimit(setCPUs, OptOut)
        quota == IF cpus.kind = "cpus" /\ cpus.number < capacity.ncpu * CPU
                 THEN cpus.number ELSE 0
        nix == nixConcurrency(bytes, quota, capacity.ncpu)
    IN IF ~capacity.known \/ ~kept THEN Nothing
       ELSE [ceiling |-> TRUE, memory |-> bytes, cpus |-> quota,
             jobs |-> nix.jobs, cores |-> nix.cores]

\* [build] fills what the environment leaves unset, with numbers above zero.
applyBuildEnv(env, value) == IF env = Unset THEN value ELSE env
Positive(n) == IF n > 0 THEN Number(n) ELSE Unset

\* An explicit setting is passed on as it is written, else what was derived.
nixConcurrencyEnv(setting, derived) ==
    IF setting # Unset THEN setting ELSE Positive(derived)

\* nix.conf of the builder: jobs without a setting are one per processor, and
\* each of them may use all of them.
NixConf(setting, default) == IF setting = Unset THEN default ELSE setting

\* The arguments of the builder's `docker run`, and what nix makes of them.
BuildArguments(capacity, env, section) ==
    LET limits == clampBuildLimits(capacity, applyBuildEnv(env.memory, section.memory),
                                   applyBuildEnv(env.cpus, section.cpus))
        jobs == applyBuildEnv(env.jobs, Positive(section.jobs))
        cores == applyBuildEnv(env.cores, Positive(section.cores))
    IN [ceiling |-> limits.ceiling, memory |-> limits.memory, cpus |-> limits.cpus,
        jobs |-> NixConf(nixConcurrencyEnv(jobs, limits.jobs), PerProcessor),
        cores |-> NixConf(nixConcurrencyEnv(cores, limits.cores), Number(0))]

-----------------------------------------------------------------------------
(* What the ceilings are for. *)

\* n processors at work are no more than the daemon has, and no more than the
\* container's quota pays for, of which one is always used.
Affordable(n, cpus, capacity) ==
    /\ n \in 1 .. capacity.ncpu
    /\ n > 1 /\ cpus > 0 => n * CPU <= cpus

\* What was asked for of nix, in the environment or else in the file.
Asked(env, number) == env # Unset \/ number > 0
AskedFor(env, number) == IF env # Unset THEN env ELSE Number(number)

\* The number of jobs that nobody asked for fits the processors of the container
\* and, above one, its memory; so does the number of processors of each job, and
\* when both were derived all of them together.
Fits(build, jobsAsked, coresAsked, capacity) ==
    /\ build.memory < capacity.memory
    /\ ~jobsAsked =>
        /\ build.jobs.kind = "number" /\ Affordable(build.jobs.number, build.cpus, capacity)
        /\ build.jobs.number > 1 => build.jobs.number * JobGiB * GiB <= build.memory
    /\ ~coresAsked =>
        build.cores.kind = "number" /\ Affordable(build.cores.number, build.cpus, capacity)
    /\ ~jobsAsked /\ ~coresAsked =>
        Affordable(build.jobs.number * build.cores.number, build.cpus, capacity)

\* Without a ceiling on memory nothing is limited and nix is left to itself.
Unlimited(build, jobsAsked, coresAsked) ==
    /\ build.cpus = 0
    /\ ~jobsAsked => build.jobs = PerProcessor
    /\ ~coresAsked => build.cores = Number(0)

\* Settings of nix are passed on; what is derived fits the ceilings.
WellLimited(build, capacity, env, section) ==
    LET jobsAsked == Asked(env.jobs, section.jobs)
        coresAsked == Asked(env.cores, section.cores)
    IN /\ jobsAsked => build.jobs = AskedFor(env.jobs, section.jobs)
       /\ coresAsked => build.cores = AskedFor(env.cores, section.cores)
       /\ IF build.ceiling THEN Fits(build, jobsAsked, coresAsked, capacity)
          ELSE Unlimited(build, jobsAsked, coresAsked)
=============================================================================
