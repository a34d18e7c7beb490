---------------------------- MODULE RulesProofs ----------------------------
(***************************************************************************)
(* Proofs about Rules, for every input of the rules and not only for the   *)
(* small sets of a run: what is assumed of an input is its typing.         *)
(*                                                                         *)
(* BuildLimits: nix's jobs and processors are those asked for or fit.      *)
(* CommandLine: every word is read once; a run is what was asked for.      *)
(* Migrate: a file that was rewritten means what it meant.                 *)
(* RunArgs: what a cell behind the proxy gets; the mounts are as promised. *)
(* ServeRequests: the ways to answer a request agree; what is listed is    *)
(* served.                                                                 *)
(***************************************************************************)
EXTENDS Rules, FiniteSetTheorems, TLAPS

\* Between two applications nothing is asked; a rule is applied to one of its
\* own inputs.
Applied == topic \in Topics \cup {"none"} /\ (topic # "none" => input \in Inputs(topic))

\* RulesSpec's inductive invariant, of which every property is a consequence.
LEMMA RulesApply == RulesSpec => []Applied
<1>1. RulesInit => Applied BY DEF RulesInit, Applied
<1>2. Applied /\ [RulesNext]_<<topic, input>> => Applied'
  <2>1. ASSUME Applied, NEW t \in Topics, Apply(t) PROVE Applied' BY <2>1 DEF Apply, Applied, Inputs
  <2>2. ASSUME Applied, PutBack PROVE Applied' BY <2>2 DEF PutBack, Applied
  <2>3. ASSUME Applied, UNCHANGED <<topic, input>> PROVE Applied' BY <2>3 DEF Applied, Inputs
  <2> QED BY <2>1, <2>2, <2>3 DEF RulesNext
<1> QED BY <1>1, <1>2, PTL DEF RulesSpec

-----------------------------------------------------------------------------
(* BuildLimits *)

\* A number within a quotient, times the divisor, is within the dividend.
LEMMA TimesQuotient ==
  ASSUME NEW a \in Int, NEW b \in Nat \ {0}, NEW n \in Nat, n <= a \div b
  PROVE  n * b <= a
<1>1. b * n <= a BY SMTT(20)
<1> QED BY <1>1

\* The quotient by something smaller is at least one.
LEMMA AtLeastOne ==
  ASSUME NEW a \in Nat, NEW b \in Nat \ {0}, b <= a
  PROVE  a \div b \in Nat /\ a \div b >= 1
BY SMTT(20)

\* What is clamped lies between one and its bound, and above one it was not
\* raised.
LEMMA WithinClamp ==
  ASSUME NEW n \in Int, NEW high \in Nat \ {0}
  PROVE  /\ CLAMP(n, 1, high) \in 1 .. high
         /\ CLAMP(n, 1, high) > 1 => CLAMP(n, 1, high) <= n
BY DEF CLAMP

\* The budget of CPUs is at least one and at most the daemon's, also under a
\* quota below one, and what it allows can be afforded.
LEMMA BudgetAffordable ==
  ASSUME NEW quota \in Int, NEW capacity \in Daemons
  PROVE  /\ cpuBudget(quota, capacity.ncpu) \in 1 .. capacity.ncpu
         /\ \A n \in 1 .. cpuBudget(quota, capacity.ncpu) : Affordable(n, quota, capacity)
<1> DEFINE ncpu == capacity.ncpu
           whole == quota \div CPU
           budget == cpuBudget(quota, ncpu)
<1>1. ncpu \in Nat \ {0} BY DEF Daemons
<1>2. whole \in Int BY UnitsAssumption
<1>3. budget = IF quota > 0 /\ whole < ncpu THEN CLAMP(whole, 1, ncpu) ELSE ncpu
  BY DEF cpuBudget
<1> HIDE DEF whole, budget, ncpu
<1>4. CLAMP(whole, 1, ncpu) \in 1 .. ncpu /\ (CLAMP(whole, 1, ncpu) > 1 => CLAMP(whole, 1, ncpu) <= whole)
  BY <1>1, <1>2, WithinClamp
<1>5. budget \in 1 .. ncpu BY <1>1, <1>3, <1>4
<1>6. ASSUME NEW n \in 1 .. budget PROVE Affordable(n, quota, capacity)
  <2>1. n \in 1 .. ncpu BY <1>1, <1>5
  <2>2. ASSUME n > 1, quota > 0 PROVE n * CPU <= quota
    <3>1. n <= whole BY <1>1, <1>2, <1>3, <1>4, <1>5, <2>2
    <3>2. n <= quota \div CPU /\ n \in Nat BY <3>1, <1>5 DEF whole
    <3> QED BY <3>2, TimesQuotient, UnitsAssumption
  <2> QED BY <2>1, <2>2 DEF Affordable, ncpu
<1> QED BY <1>5, <1>6 DEF budget, ncpu

\* Jobs and cores, and jobs times cores, are within the budget of CPUs, and the
\* jobs fit their memory, also when the ceiling is negative because the word has
\* overflown.
LEMMA ConcurrencyFits ==
  ASSUME NEW memory \in Int, NEW quota \in Int, NEW capacity \in Daemons
  PROVE  LET nix == nixConcurrency(memory, quota, capacity.ncpu)
             budget == cpuBudget(quota, capacity.ncpu)
         IN /\ nix.jobs \in 1 .. budget /\ nix.cores \in 1 .. budget
            /\ nix.jobs * nix.cores \in 1 .. budget
            /\ nix.jobs > 1 => nix.jobs * JobGiB * GiB <= memory
<1> DEFINE budget == cpuBudget(quota, capacity.ncpu)
           gib == memory \div GiB
           share == gib \div JobGiB
           jobs == jobsOf(memory, budget)
           cores == CLAMP(budget \div jobs, 1, budget)
<1>1. budget \in Nat \ {0} BY BudgetAffordable DEF Daemons
<1>2. gib \in Int BY UnitsAssumption
<1>3. share \in Int BY <1>2, UnitsAssumption
<1>4. jobs = CLAMP(share, 1, budget) BY DEF jobsOf
<1>5. nixConcurrency(memory, quota, capacity.ncpu) = [jobs |-> jobs, cores |-> cores]
  BY DEF nixConcurrency
<1> HIDE DEF budget, gib, share, jobs
<1>6. jobs \in 1 .. budget /\ (jobs > 1 => jobs <= share) BY <1>1, <1>3, <1>4, WithinClamp
<1>7. jobs \in Nat \ {0} /\ jobs <= budget BY <1>1, <1>6
<1>8. budget \div jobs \in Nat /\ budget \div jobs >= 1 BY <1>1, <1>7, AtLeastOne
<1>9. cores \in 1 .. budget /\ cores >= 1 /\ cores <= budget \div jobs
  BY <1>1, <1>8, WithinClamp DEF CLAMP
<1> HIDE DEF cores
<1>10. cores * jobs <= budget BY <1>1, <1>7, <1>9, TimesQuotient
<1>11. jobs * cores \in 1 .. budget BY <1>1, <1>7, <1>9, <1>10
<1>12. ASSUME jobs > 1 PROVE jobs * JobGiB * GiB <= memory
  <2>1. jobs * JobGiB <= gib BY <1>2, <1>6, <1>7, <1>12, TimesQuotient, UnitsAssumption DEF share
  <2>2. jobs * JobGiB \in Nat BY <1>7, UnitsAssumption
  <2> DEFINE of == jobs * JobGiB
  <2>3. of \in Nat /\ of <= memory \div GiB BY <2>1, <2>2 DEF gib
  <2> HIDE DEF of
  <2>4. of * GiB <= memory BY <2>3, TimesQuotient, UnitsAssumption
  <2> QED BY <2>4 DEF of
<1> QED BY <1>5, <1>6, <1>9, <1>11, <1>12 DEF budget

\* A wrapped number is a number.
LEMMA WrapsToWord == ASSUME NEW n \in Int PROVE Wrap(n) \in Int
<1>1. 2 * Word \in Nat \ {0} BY UnitsAssumption
<1> DEFINE m == 2 * Word
<1> HIDE DEF m
<1>2. m \in Nat \ {0} BY <1>1 DEF m
<1>3. (n + Word) % m \in Int BY <1>2, UnitsAssumption
<1> QED BY <1>3, UnitsAssumption DEF Wrap, m

\* Three quarters of a memory, in whole GiB, are at most the memory.
LEMMA DefaultBelowMemory ==
  ASSUME NEW memory \in Nat
  PROVE  LET part == (memory \div 4) * 3
         IN /\ part \in Nat /\ part <= memory /\ part \div GiB \in Nat
            /\ part \div GiB <= memory
<1> DEFINE part == (memory \div 4) * 3
           gib == part \div GiB
<1>1. part \in Nat /\ part <= memory BY SMT
<1> HIDE DEF part
<1>2. gib \in Nat BY <1>1, UnitsAssumption
<1>3. gib * GiB <= part
  <2>1. gib <= part \div GiB BY <1>2
  <2> HIDE DEF gib
  <2> QED BY <1>1, <1>2, <2>1, TimesQuotient, UnitsAssumption
<1> HIDE DEF gib
<1>4. gib <= gib * GiB BY <1>2, UnitsAssumption
<1>5. gib * GiB \in Nat BY <1>2, UnitsAssumption
<1>6. gib <= memory BY <1>1, <1>2, <1>3, <1>4, <1>5
<1> QED BY <1>1, <1>2, <1>6 DEF gib, part

\* A default is read as some number of bytes, like every setting.
LEMMA LimitIsRead ==
  ASSUME NEW memory \in Nat, NEW env \in MemorySettings
  PROVE  parseMemoryLimit(buildResourceLimit(env, defaultBuildMemory(memory))) \in Int
<1> DEFINE gib == ((memory \div 4) * 3) \div GiB
           limit == buildResourceLimit(env, defaultBuildMemory(memory))
           Units == [kind : {"units"}, number : Nat, unit : Nat]
<1>1. gib \in Nat BY DefaultBelowMemory
<1> HIDE DEF gib
<1>2. limit \in Units \cup {OptOut, Unreadable, Unset}
  <2>1. defaultBuildMemory(memory) \in Units \cup {OptOut}
    BY <1>1, UnitsAssumption DEF defaultBuildMemory, gib
  <2>2. env \in Units \cup {OptOut, Unreadable, Unset} BY UnitsAssumption DEF MemorySettings
  <2> QED BY <2>1, <2>2, Zenon DEF buildResourceLimit
<1> HIDE DEF limit
<1>3. CASE limit \in Units
  <2>1. limit.kind = "units" /\ limit.number * limit.unit \in Int BY <1>3
  <2>2. Wrap(limit.number * limit.unit) \in Int BY <2>1, WrapsToWord
  <2> QED BY <2>1, <2>2, Zenon DEF parseMemoryLimit, limit
<1>4. CASE limit \in {Unset, OptOut, Unreadable}
  <2>1. limit.kind # "units" BY <1>4 DEF Unset, OptOut, Unreadable
  <2>2. parseMemoryLimit(limit) = NoMemory BY <2>1, Zenon DEF parseMemoryLimit
  <2> QED BY <2>2 DEF NoMemory, limit
<1> QED BY <1>2, <1>3, <1>4

\* The ceilings that are emitted, for any settings of memory and CPUs: either
\* none at all, or a memory below the daemon's with jobs and cores that fit it
\* and the processors.
LEMMA CeilingsFit ==
  ASSUME NEW capacity \in Daemons, NEW setMemory \in MemorySettings,
         NEW setCPUs \in CPUSettings
  PROVE  LET limits == clampBuildLimits(capacity, setMemory, setCPUs)
         IN \/ limits = Nothing
            \/ /\ limits.ceiling /\ limits.memory < capacity.memory
               /\ limits.jobs \in Nat \ {0} /\ limits.cores \in Nat \ {0}
               /\ Affordable(limits.jobs, limits.cpus, capacity)
               /\ Affordable(limits.cores, limits.cpus, capacity)
               /\ Affordable(limits.jobs * limits.cores, limits.cpus, capacity)
               /\ limits.jobs > 1 => limits.jobs * JobGiB * GiB <= limits.memory
<1> DEFINE limit == buildResourceLimit(setMemory, defaultBuildMemory(capacity.memory))
           bytes == parseMemoryLimit(limit)
           kept == limit.kind = "units" /\ bytes < capacity.memory
           cpus == buildResourceLimit(setCPUs, OptOut)
           quota == IF cpus.kind = "cpus" /\ cpus.number < capacity.ncpu * CPU
                    THEN cpus.number ELSE 0
           nix == nixConcurrency(bytes, quota, capacity.ncpu)
           budget == cpuBudget(quota, capacity.ncpu)
           limits == clampBuildLimits(capacity, setMemory, setCPUs)
           emitted == [ceiling |-> TRUE, memory |-> bytes, cpus |-> quota,
                       jobs |-> nix.jobs, cores |-> nix.cores]
<1>1. capacity.memory \in Nat BY DEF Daemons
<1>2. bytes \in Int BY <1>1, LimitIsRead
<1>3. quota \in Int
  <2>1. cpus \in CPUSettings BY DEF buildResourceLimit, CPUSettings
  <2> HIDE DEF cpus
  <2>2. CASE cpus \in [kind : {"cpus"}, number : Int] BY <2>2
  <2>3. CASE cpus \in {Unset, OptOut, Unreadable}
    <3>1. cpus.kind # "cpus" BY <2>3 DEF Unset, OptOut, Unreadable
    <3>2. quota = 0 BY <3>1, Zenon
    <3> QED BY <3>2
  <2> QED BY <2>1, <2>2, <2>3 DEF CPUSettings
<1>4. limits = Nothing \/ (bytes < capacity.memory /\ limits = emitted)
  <2>1. limits = IF ~capacity.known \/ ~kept THEN Nothing ELSE emitted
    BY DEF clampBuildLimits
  <2> HIDE DEF limits, emitted, kept
  <2>2. CASE ~capacity.known \/ ~kept BY <2>1, <2>2, Zenon
  <2>3. CASE ~(~capacity.known \/ ~kept) BY <2>1, <2>3, Zenon DEF kept
  <2> QED BY <2>2, <2>3, Zenon
<1> HIDE DEF bytes, quota, limits
<1>5. /\ nix.jobs \in 1 .. budget /\ nix.cores \in 1 .. budget
      /\ nix.jobs * nix.cores \in 1 .. budget
      /\ nix.jobs > 1 => nix.jobs * JobGiB * GiB <= bytes
  BY <1>2, <1>3, ConcurrencyFits
<1>6. budget \in 1 .. capacity.ncpu /\ \A n \in 1 .. budget : Affordable(n, quota, capacity)
  BY <1>3, BudgetAffordable
<1> HIDE DEF nix, budget
<1>7. /\ Affordable(nix.jobs, quota, capacity) /\ Affordable(nix.cores, quota, capacity)
      /\ Affordable(nix.jobs * nix.cores, quota, capacity)
  BY <1>5, <1>6, Zenon
<1>8. nix.jobs \in Nat \ {0} /\ nix.cores \in Nat \ {0} BY <1>5, <1>6 DEF Daemons
<1>9. CASE bytes < capacity.memory /\ limits = emitted
  <2>1. /\ limits.ceiling /\ limits.memory = bytes /\ limits.cpus = quota
        /\ limits.jobs = nix.jobs /\ limits.cores = nix.cores
    BY <1>9
  <2> HIDE DEF emitted
  <2> QED BY <1>5, <1>7, <1>8, <1>9, <2>1, Zenon DEF limits
<1> QED BY <1>4, <1>9, Zenon DEF limits

\* For any daemon, any unit and word, any environment and any [build] section:
\* the jobs and cores that are derived fit the processors, the quota and the
\* memory of the container, what is asked for explicitly reaches nix as it is,
\* and no ceiling leaves nix at its own defaults.
THEOREM BuildAlwaysFits ==
  ASSUME NEW capacity \in Daemons, NEW env \in Environments, NEW section \in BuildSections
  PROVE  WellLimited(BuildArguments(capacity, env, section), capacity, env, section)
<1> DEFINE setMemory == applyBuildEnv(env.memory, section.memory)
           setCPUs == applyBuildEnv(env.cpus, section.cpus)
           limits == clampBuildLimits(capacity, setMemory, setCPUs)
           jobs == applyBuildEnv(env.jobs, Positive(section.jobs))
           cores == applyBuildEnv(env.cores, Positive(section.cores))
           build == BuildArguments(capacity, env, section)
           jobsAsked == Asked(env.jobs, section.jobs)
           coresAsked == Asked(env.cores, section.cores)
           nixJobs == NixConf(nixConcurrencyEnv(jobs, limits.jobs), PerProcessor)
           nixCores == NixConf(nixConcurrencyEnv(cores, limits.cores), Number(0))
<1>1. setMemory \in MemorySettings /\ setCPUs \in CPUSettings
  BY DEF Environments, BuildSections, applyBuildEnv
<1>2. Number(section.jobs) # Unset /\ Number(section.cores) # Unset
  BY DEF Number, Unset
<1>3. /\ jobs = IF jobsAsked THEN AskedFor(env.jobs, section.jobs) ELSE Unset
      /\ cores = IF coresAsked THEN AskedFor(env.cores, section.cores) ELSE Unset
      /\ jobsAsked => jobs # Unset
      /\ coresAsked => cores # Unset
  BY <1>2, Zenon DEF Asked, AskedFor, applyBuildEnv, Positive
<1>4. /\ build.ceiling = limits.ceiling /\ build.memory = limits.memory
      /\ build.cpus = limits.cpus /\ build.jobs = nixJobs /\ build.cores = nixCores
  <2>1. build = [ceiling |-> limits.ceiling, memory |-> limits.memory, cpus |-> limits.cpus,
                 jobs |-> nixJobs, cores |-> nixCores]
    BY DEF BuildArguments
  <2> HIDE DEF build, nixJobs, nixCores, limits
  <2> QED BY <2>1
<1> HIDE DEF build, jobs, cores, setMemory, setCPUs, jobsAsked, coresAsked
<1>5. \/ limits = Nothing
      \/ /\ limits.ceiling /\ limits.memory < capacity.memory
         /\ limits.jobs \in Nat \ {0} /\ limits.cores \in Nat \ {0}
         /\ Affordable(limits.jobs, limits.cpus, capacity)
         /\ Affordable(limits.cores, limits.cpus, capacity)
         /\ Affordable(limits.jobs * limits.cores, limits.cpus, capacity)
         /\ limits.jobs > 1 => limits.jobs * JobGiB * GiB <= limits.memory
  BY <1>1, CeilingsFit
<1> HIDE DEF limits
<1>unset. /\ ~jobsAsked => nixConcurrencyEnv(jobs, limits.jobs) = Positive(limits.jobs)
          /\ ~coresAsked => nixConcurrencyEnv(cores, limits.cores) = Positive(limits.cores)
  BY <1>3, Zenon DEF nixConcurrencyEnv
<1>6. jobsAsked => nixJobs = AskedFor(env.jobs, section.jobs)
  BY <1>3, Zenon DEF nixConcurrencyEnv, NixConf
<1>7. coresAsked => nixCores = AskedFor(env.cores, section.cores)
  BY <1>3, Zenon DEF nixConcurrencyEnv, NixConf
<1>8. CASE limits = Nothing
  <2>1. ~limits.ceiling /\ limits.cpus = 0 /\ ~(limits.jobs > 0) /\ ~(limits.cores > 0)
    BY <1>8 DEF Nothing
  <2>2. Positive(limits.jobs) = Unset /\ Positive(limits.cores) = Unset BY <2>1, Zenon DEF Positive
  <2>4. /\ ~jobsAsked => nixJobs = PerProcessor
        /\ ~coresAsked => nixCores = Number(0)
    BY <1>unset, <2>2, Zenon DEF NixConf
  <2>3. Unlimited(build, jobsAsked, coresAsked) BY <1>4, <2>1, <2>4, Zenon DEF Unlimited
  <2> QED BY <1>4, <1>6, <1>7, <2>1, <2>3, Zenon DEF WellLimited, jobsAsked, coresAsked, build
<1>9. CASE /\ limits.ceiling /\ limits.memory < capacity.memory
           /\ limits.jobs \in Nat \ {0} /\ limits.cores \in Nat \ {0}
           /\ Affordable(limits.jobs, limits.cpus, capacity)
           /\ Affordable(limits.cores, limits.cpus, capacity)
           /\ Affordable(limits.jobs * limits.cores, limits.cpus, capacity)
           /\ limits.jobs > 1 => limits.jobs * JobGiB * GiB <= limits.memory
  <2>1. limits.jobs > 0 /\ limits.cores > 0 BY <1>9
  <2>2. Number(limits.jobs) # Unset /\ Number(limits.cores) # Unset BY DEF Number, Unset
  <2>3. /\ ~jobsAsked => nixJobs = Number(limits.jobs)
        /\ ~coresAsked => nixCores = Number(limits.cores)
    BY <1>unset, <2>1, <2>2, Zenon DEF NixConf, Positive
  <2>4. \A n : Number(n).kind = "number" /\ Number(n).number = n BY DEF Number
  <2>5. /\ ~jobsAsked => build.jobs.kind = "number" /\ build.jobs.number = limits.jobs
        /\ ~coresAsked => build.cores.kind = "number" /\ build.cores.number = limits.cores
    BY <1>4, <2>3, <2>4, Zenon
  <2>6. Fits(build, jobsAsked, coresAsked, capacity)
    BY <1>4, <1>9, <2>5, Zenon DEF Fits
  <2> QED BY <1>4, <1>6, <1>7, <1>9, <2>6, Zenon DEF WellLimited, jobsAsked, coresAsked, build
<1> QED BY <1>5, <1>8, <1>9, Zenon

\* "Always below the daemon total, so it always survives clamping"
\* (thin_build.go): a default that does not opt out is read back as a positive
\* number below the daemon's memory, for any daemon whose memory a word holds.
THEOREM DefaultCeilingKept ==
  ASSUME NEW memory \in Nat, memory < Word,
         NEW default, default = defaultBuildMemory(memory), default # OptOut
  PROVE  parseMemoryLimit(default) \in 1 .. memory - 1
<1> DEFINE part == (memory \div 4) * 3
           gib == part \div GiB
           bytes == gib * GiB
<1>1. part \in Nat /\ (part > 0 => part < memory) /\ part <= memory BY SMT
<1> HIDE DEF part
<1>2. gib \in Nat BY <1>1, UnitsAssumption
<1>3. gib >= 1 /\ default = [kind |-> "units", number |-> gib, unit |-> GiB]
  <2>1. default = IF gib < 1 THEN OptOut ELSE [kind |-> "units", number |-> gib, unit |-> GiB]
    BY DEF defaultBuildMemory, part
  <2> HIDE DEF gib
  <2> QED BY <1>2, <2>1
<1>4. parseMemoryLimit(default) = Wrap(bytes)
  <2>1. default.kind = "units" /\ default.number = gib /\ default.unit = GiB BY <1>3
  <2> HIDE DEF gib
  <2> QED BY <2>1, Zenon DEF parseMemoryLimit
<1>5. bytes \in Nat /\ bytes >= 1
  <2> HIDE DEF gib
  <2> QED BY <1>2, <1>3, UnitsAssumption
<1>6. bytes <= part
  <2>1. gib <= part \div GiB BY <1>2
  <2> HIDE DEF gib
  <2> QED BY <1>1, <1>2, <2>1, TimesQuotient, UnitsAssumption
<1> HIDE DEF bytes
<1>7. bytes < memory BY <1>1, <1>5, <1>6
<1>8. Wrap(bytes) = bytes
  <2>1. bytes + Word \in 0 .. 2 * Word - 1 BY <1>5, <1>7, UnitsAssumption
  <2> DEFINE m == 2 * Word
             n == bytes + Word
  <2>2. m \in Nat \ {0} /\ n \in 0 .. m - 1 BY <2>1, UnitsAssumption
  <2> HIDE DEF m, n
  <2>3. n % m = n BY <2>2
  <2> QED BY <1>5, <2>3, UnitsAssumption DEF Wrap, m, n
<1> QED BY <1>4, <1>5, <1>7, <1>8

\* BuildFits, for any daemons, environments and [build] sections.
THEOREM BuildsFit == RulesSpec => []BuildFits
<1>1. Applied => BuildFits
  <2>1. SUFFICES ASSUME input \in LimitInputs
                 PROVE  WellLimited(BuildArguments(input.capacity, input.env, input.section),
                                    input.capacity, input.env, input.section)
    BY DEF Applied, Inputs, BuildFits
  <2>2. /\ input.capacity \in Daemons /\ input.env \in Environments
        /\ input.section \in BuildSections
    BY <2>1, LimitsAssumption
  <2> QED BY <2>2, BuildAlwaysFits
<1> QED BY <1>1, RulesApply, PTL
-----------------------------------------------------------------------------
(* CommandLine: how the words of the command line are read. *)

\* In an accepted line the word after a flag that takes a value is no flag.
LEMMA ValueIsNoFlag ==
    ASSUME NEW args, args \in Seq(Words), validateCellFlags(args),
           NEW i \in DOMAIN args, IsString(args[i])
    PROVE  i + 1 \in DOMAIN args /\ args[i + 1].name \notin Dashes
<1>1. i \in 1 .. Len(args) /\ DOMAIN args = 1 .. Len(args) /\ Len(args) \in Nat
  OBVIOUS
<1>2. i < Len(args) /\ args[i + 1].name \notin Dashes
  BY DEF validateCellFlags, IsString
<1> QED
  BY <1>1, <1>2

\* So the walk that strips the flags takes a word for a value exactly when the
\* word before it is a flag that takes one.
LEMMA ValueFollowsFlag ==
    ASSUME NEW args, args \in Seq(Words), validateCellFlags(args),
           NEW i \in DOMAIN args
    PROVE  IsValue(args, i) <=> i > 1 /\ IsString(args[i - 1])
<1>1. i \in 1 .. Len(args) /\ DOMAIN args = 1 .. Len(args) /\ Len(args) \in Nat
  OBVIOUS
<1>2. ASSUME IsValue(args, i) PROVE i > 1 /\ IsString(args[i - 1])
  <2>1. PICK n \in 1 .. i - 1 : \A j \in i - n .. i - 1 : IsString(args[j])
    BY <1>2 DEF IsValue
  <2>2. n \in Int /\ 1 <= n /\ n <= i - 1 /\ i - 1 \in i - n .. i - 1
    BY <1>1
  <2> QED
    BY <1>1, <2>1, <2>2
<1>3. ASSUME i > 1, IsString(args[i - 1]) PROVE IsValue(args, i)
  <2>1. 1 \in 1 .. i - 1 /\ 1 % 2 = 1
    BY <1>1, <1>3
  <2>2. \A j \in i - 1 .. i - 1 : IsString(args[j])
    <3>1. \A j \in i - 1 .. i - 1 : j = i - 1
      BY <1>1
    <3> QED
      BY <1>3, <3>1
  <2>3. ASSUME 1 < i - 1, IsString(args[i - 1 - 1]) PROVE FALSE
    <3>1. i - 1 - 1 \in DOMAIN args /\ i - 1 - 1 + 1 = i - 1
      BY <1>1, <2>3
    <3>2. args[i - 1].name \notin Dashes
      BY <2>3, <3>1, ValueIsNoFlag
    <3> QED
      BY <1>3, <3>2 DEF IsString, Dashes
  <2> QED
    BY <2>1, <2>2, <2>3 DEF IsValue
<1> QED
  BY <1>2, <1>3

\* The scan for a flag finds the first of its occurrences that has a value.
LEMMA ScanFindsFirst ==
    ASSUME NEW args, args \in Seq(Words), validateCellFlags(args),
           NEW i \in DOMAIN args, args[i].name \in StringFlags,
           \A j \in 1 .. i - 1 : args[j].name # args[i].name
    PROVE  scanStringFlag(args, args[i].name)
           = IF IsString(args[i]) THEN args[i + 1].name ELSE args[i].eq
<1> DEFINE flag == args[i].name
           hits == {j \in DOMAIN args :
                      args[j].name = flag /\ (args[j].eq # NoValue \/ j < Len(args))}
<1>1. i \in 1 .. Len(args) /\ DOMAIN args = 1 .. Len(args) /\ Len(args) \in Nat
  OBVIOUS
<1>2. i \in hits
  BY ValueIsNoFlag, <1>1 DEF IsString
<1>3. \A j \in hits : j \in Int /\ i <= j
  BY <1>1
<1>4. First(hits) = i
  <2> HIDE DEF hits
  <2>1. i \in Int
    BY <1>1
  <2> QED
    BY <1>2, <1>3, <2>1 DEF First
<1>5. scanStringFlag(args, flag)
      = IF hits = {} THEN ""
        ELSE IF args[First(hits)].eq = NoValue THEN args[First(hits) + 1].name
        ELSE args[First(hits)].eq
  BY Zenon DEF scanStringFlag
<1>6. IsString(args[i]) <=> args[i].eq = NoValue
  BY DEF IsString
<1> HIDE DEF hits, flag
<1>7. scanStringFlag(args, flag) = IF args[i].eq = NoValue THEN args[i + 1].name ELSE args[i].eq
  BY <1>2, <1>4, <1>5, Zenon
<1> QED
  BY <1>6, <1>7, Zenon DEF flag

\* Each word of an accepted line is read in one way.
THEOREM WordsReadOnce == RulesSpec => []EveryWordReadOnce
<1>1. ASSUME Applied PROVE EveryWordReadOnce
  <2> SUFFICES ASSUME topic = "words", validateCellFlags(input), NEW i \in DOMAIN input
               PROVE LET w == input[i]
                         asFlag == IsBool(w) \/ IsString(w) \/ IsAssigned(w)
                         asValue == i > 1 /\ IsString(input[i - 1])
                         asWord == i \in KeptWords(input)
                     IN /\ asFlag => ~asValue /\ ~asWord
                        /\ asWord = (~asFlag /\ ~asValue)
                        /\ (asFlag /\ ~IsBool(w)
                               /\ \A j \in 1 .. i - 1 : input[j].name # w.name) =>
                             scanStringFlag(input, w.name)
                             = IF IsString(w) THEN input[i + 1].name ELSE w.eq
    BY DEF EveryWordReadOnce
  <2> DEFINE flag == IsBool(input[i]) \/ IsString(input[i]) \/ IsAssigned(input[i])
             value == i > 1 /\ IsString(input[i - 1])
             word == i \in KeptWords(input)
  <2>1. input \in Seq(Words)
    BY <1>1, LinesAssumption DEF Applied, Inputs
  <2>2. i \in 1 .. Len(input) /\ DOMAIN input = 1 .. Len(input) /\ Len(input) \in Nat
    BY <2>1
  <2>3. word <=> ~value /\ ~flag
    BY <2>1, ValueFollowsFlag DEF KeptWords
  <2>4. flag => ~value
    <3>1. SUFFICES ASSUME value PROVE input[i].name \notin Dashes
      BY DEF IsBool, IsString, IsAssigned, Dashes
    <3>2. i - 1 \in DOMAIN input /\ i - 1 + 1 = i
      BY <2>2, <3>1
    <3> QED
      BY <2>1, <3>1, <3>2, ValueIsNoFlag
  <2>5. ASSUME flag, ~IsBool(input[i]), \A j \in 1 .. i - 1 : input[j].name # input[i].name
        PROVE  scanStringFlag(input, input[i].name)
               = IF IsString(input[i]) THEN input[i + 1].name ELSE input[i].eq
    <3>1. input[i].name \in StringFlags
      BY <2>5, Zenon DEF IsString, IsAssigned
    <3> QED
      BY <2>1, <2>5, <3>1, ScanFindsFirst, Zenon
  <2>6. flag => ~value /\ ~word
    BY <2>3, <2>4
  <2>7. word = (~flag /\ ~value)
    <3> HIDE DEF flag, value
    <3> QED
      BY <2>3
  <2> QED
    BY <2>5, <2>6, <2>7, Zenon
<1> QED
  BY <1>1, RulesApply, PTL

-----------------------------------------------------------------------------
(* CommandLine: the engine and the guest. *)

\* What a name stands for is an engine or an error.
LEMMA NamesParse == ASSUME NEW v PROVE parse(v) \in Engines \cup {Error}
<1>1. CASE v = "qemu"
  <2>1. v \notin Engines
    BY <1>1 DEF Engines
  <2>2. parse(v) = "winkit"
    BY <1>1, <2>1, Zenon DEF parse
  <2> QED
    BY <2>2 DEF Engines
<1>2. CASE v # "qemu" /\ v \in Engines
  BY <1>2, Zenon DEF parse
<1>3. CASE v # "qemu" /\ v \notin Engines
  BY <1>3, Zenon DEF parse
<1> QED
  BY <1>1, <1>2, <1>3

\* The engine that goes with an operating system can run its guest.
LEMMA DefaultRuns ==
    ASSUME NEW os \in DOMAIN GuestForOS
    PROVE  /\ DefaultFor[GuestForOS[os]] \in Engines
           /\ Supports(DefaultFor[GuestForOS[os]], GuestForOS[os])
<1>1. CASE os = "linux"
  BY <1>1 DEF GuestForOS, DefaultFor, Supports, Guests, Engines
<1>2. CASE os = "macos"
  BY <1>2 DEF GuestForOS, DefaultFor, Supports, Guests, Engines
<1>3. CASE os = "windows"
  BY <1>3 DEF GuestForOS, DefaultFor, Supports, Guests, Engines
<1>4. CASE os = "winpe"
  BY <1>4 DEF GuestForOS, DefaultFor, Supports, Guests, Engines
<1> QED
  BY <1>1, <1>2, <1>3, <1>4 DEF GuestForOS

\* Whatever the operating systems that are named, an engine gets a guest it can
\* run, and the one of the command line when it can run that.
LEMMA GuestSupported ==
    ASSUME NEW n \in Engines, NEW flagOS, NEW tomlOS
    PROVE  /\ Supports(n, GuestFor(n, flagOS, tomlOS))
           /\ flagOS \in DOMAIN GuestForOS /\ Supports(n, GuestForOS[flagOS]) =>
                GuestFor(n, flagOS, tomlOS) = GuestForOS[flagOS]
<1> DEFINE Runs(os) == os \in DOMAIN GuestForOS /\ Supports(n, GuestForOS[os])
<1>1. Supports(n, DefaultGuest(n))
  <2>1. CASE n = "docker"
    BY <2>1 DEF Supports, Guests, DefaultGuest, Engines
  <2>2. CASE n = "tart"
    BY <2>2 DEF Supports, Guests, DefaultGuest, Engines
  <2>3. CASE n = "winkit"
    BY <2>3 DEF Supports, Guests, DefaultGuest, Engines
  <2> QED
    BY <2>1, <2>2, <2>3 DEF Engines
<1>2. GuestFor(n, flagOS, tomlOS)
      = CASE Runs(flagOS) -> GuestForOS[flagOS]
          [] ~Runs(flagOS) /\ Runs(tomlOS) -> GuestForOS[tomlOS]
          [] OTHER -> DefaultGuest(n)
  BY Zenon DEF GuestFor
<1>3. CASE Runs(flagOS)
  <2>1. GuestFor(n, flagOS, tomlOS) = GuestForOS[flagOS]
    <3> HIDE DEF Runs
    <3> QED
      BY <1>2, <1>3, Zenon
  <2> QED
    BY <1>3, <2>1, Zenon
<1>4. CASE ~Runs(flagOS) /\ Runs(tomlOS)
  <2>1. GuestFor(n, flagOS, tomlOS) = GuestForOS[tomlOS]
    <3> HIDE DEF Runs
    <3> QED
      BY <1>2, <1>4, Zenon
  <2> QED
    BY <1>4, <2>1, Zenon
<1>5. CASE ~Runs(flagOS) /\ ~Runs(tomlOS)
  <2>1. GuestFor(n, flagOS, tomlOS) = DefaultGuest(n)
    <3> HIDE DEF Runs
    <3> QED
      BY <1>2, <1>5, Zenon
  <2> QED
    BY <1>1, <1>5, <2>1, Zenon
<1> QED
  BY <1>3, <1>4, <1>5, Zenon

\* What the resolver accepts is an engine, the one that the command line names
\* and one that runs the operating system that it names.
LEMMA ResolvedAsAsked ==
    ASSUME NEW flagEngine, NEW flagOS, NEW tomlEngine, NEW tomlOS,
           Resolve(flagEngine, flagOS, tomlEngine, tomlOS) # Error
    PROVE  LET n == Resolve(flagEngine, flagOS, tomlEngine, tomlOS)
           IN /\ n \in Engines
              /\ flagEngine # "" => n = parse(flagEngine)
              /\ flagOS # "" => flagOS \in DOMAIN GuestForOS /\ Supports(n, GuestForOS[flagOS])
<1> DEFINE n == Resolve(flagEngine, flagOS, tomlEngine, tomlOS)
           known == flagOS \in DOMAIN GuestForOS
           named == parse(flagEngine)
<1>1. n = CASE flagEngine # "" /\ named = Error -> Error
            [] flagEngine # "" /\ named # Error ->
                   IF flagOS = "" \/ (known /\ Supports(named, GuestForOS[flagOS]))
                   THEN named ELSE Error
            [] flagEngine = "" /\ flagOS # "" ->
                   IF known THEN DefaultFor[GuestForOS[flagOS]] ELSE Error
            [] flagEngine = "" /\ flagOS = "" ->
                   IF tomlEngine # "" THEN parse(tomlEngine)
                   ELSE IF tomlOS \in DOMAIN GuestForOS
                   THEN DefaultFor[GuestForOS[tomlOS]] ELSE "docker"
  BY Zenon DEF Resolve
<1>2. n # Error
  OBVIOUS
<1> HIDE DEF n
<1>3. CASE flagEngine # ""
  <2>1. named # Error
    BY <1>1, <1>2, <1>3, Zenon
  <2>2. n = IF flagOS = "" \/ (known /\ Supports(named, GuestForOS[flagOS]))
            THEN named ELSE Error
    <3> HIDE DEF named, known
    <3> QED
      BY <1>1, <1>3, <2>1, Zenon
  <2>3. n = named /\ (flagOS = "" \/ (known /\ Supports(named, GuestForOS[flagOS])))
    BY <1>2, <2>2, Zenon
  <2>4. named \in Engines
    BY <2>1, NamesParse
  <2> QED
    BY <1>3, <2>3, <2>4, Zenon DEF n
<1>4. CASE flagEngine = "" /\ flagOS # ""
  <2>1. n = IF known THEN DefaultFor[GuestForOS[flagOS]] ELSE Error
    <3> HIDE DEF known
    <3> QED
      BY <1>1, <1>4, Zenon
  <2>2. known /\ n = DefaultFor[GuestForOS[flagOS]]
    BY <1>2, <2>1, Zenon
  <2> QED
    BY <1>4, <2>2, DefaultRuns, Zenon DEF n
<1>5. CASE flagEngine = "" /\ flagOS = ""
  <2>1. n = IF tomlEngine # "" THEN parse(tomlEngine)
            ELSE IF tomlOS \in DOMAIN GuestForOS
            THEN DefaultFor[GuestForOS[tomlOS]] ELSE "docker"
    <3> HIDE DEF known
    <3> QED
      BY <1>1, <1>5, Zenon
  <2>2. "docker" \in Engines
    BY DEF Engines
  <2>3. n \in Engines
    BY <1>2, <2>1, <2>2, NamesParse, DefaultRuns, Zenon
  <2> QED
    BY <1>5, <2>3, Zenon DEF n
<1> QED
  BY <1>3, <1>4, <1>5, Zenon

\* A run that is not refused is what was asked for.
THEOREM RunsAsAsked == RulesSpec => []RunAsAsked
<1>1. RunAsAsked
  <2> DEFINE engine == scanStringFlag(input.args, "--engine")
             os == scanOSFlag(input.args)
             n == resolveEngine(input.args, input.toml)
             guest == cellGuest(input.args, input.toml)
             resolved == Resolve(engine, os, input.toml.engine, input.toml.os)
             experiment == scanStringFlag(input.args, "--experimental")
             experiments == input.toml.experimental \cup ({experiment} \ {""})
  <2> SUFFICES ASSUME n # Error
               PROVE  /\ Supports(n, guest)
                      /\ engine # "" => n = parse(engine)
                      /\ os # "" => os \in DOMAIN GuestForOS /\ guest = GuestForOS[os]
                      /\ n = "winkit" => \/ "engine-windows" \in input.toml.experimental
                                         \/ experiment = "engine-windows"
    BY Zenon DEF RunAsAsked
  <2>1. n = IF \/ ~(experiments \subseteq {"ui-cage", "ui-boot-popup", "engine-windows"})
               \/ resolved = "winkit" /\ "engine-windows" \notin experiments
            THEN Error ELSE resolved
    BY Zenon DEF resolveEngine
  <2>2. guest = GuestFor(n, os, input.toml.os)
    BY Zenon DEF cellGuest
  <2> HIDE DEF n, guest, resolved, experiments
  <2>3. n = resolved /\ ~(resolved = "winkit" /\ "engine-windows" \notin experiments)
    BY <2>1, Zenon
  <2>4. resolved # Error
    BY <2>3, Zenon
  <2>5. /\ n \in Engines
        /\ engine # "" => n = parse(engine)
        /\ os # "" => os \in DOMAIN GuestForOS /\ Supports(n, GuestForOS[os])
    BY <2>3, <2>4, ResolvedAsAsked, Zenon DEF resolved
  <2>6. /\ Supports(n, guest)
        /\ os \in DOMAIN GuestForOS /\ Supports(n, GuestForOS[os]) => guest = GuestForOS[os]
    BY <2>2, <2>5, GuestSupported, Zenon
  <2>7. n = "winkit" => \/ "engine-windows" \in input.toml.experimental
                        \/ experiment = "engine-windows"
    BY <2>3, Zenon DEF experiments
  <2> QED
    BY <2>5, <2>6, <2>7, Zenon
<1> QED
  BY <1>1, PTL

-----------------------------------------------------------------------------
(* Migrate: a file that is rewritten to the current keys. *)

\* What a list is made of, once it has been picked from or joined to another.
Entries(list) == {list[i] : i \in DOMAIN list}

\* Among the positions of a list each has a rank of its own, and there is one
\* of every rank.
LEMMA RanksOfPositions ==
    ASSUME NEW m \in Nat, NEW I \in SUBSET (1 .. m)
    PROVE  LET rank(i) == Cardinality({j \in I : j <= i})
           IN /\ Cardinality(I) \in Nat
              /\ \A i \in I : rank(i) \in 1 .. Cardinality(I)
              /\ \A i, k \in I : rank(i) = rank(k) => i = k
              /\ \A n \in 1 .. Cardinality(I) : \E i \in I : rank(i) = n
<1> DEFINE upTo(i) == {j \in I : j <= i}
           rank(i) == Cardinality(upTo(i))
           r == [i \in I |-> rank(i)]
<1>1. IsFiniteSet(I) /\ Cardinality(I) \in Nat
  <2>1. IsFiniteSet(1 .. m)
    BY FS_Interval
  <2>2. IsFiniteSet(I)
    BY <2>1, FS_Subset
  <2> QED
    BY <2>2, FS_CardinalityType
<1>2. \A i \in I : IsFiniteSet(upTo(i)) /\ rank(i) \in Nat /\ rank(i) <= Cardinality(I)
  BY <1>1, FS_Subset, FS_CardinalityType
<1>3. \A i \in I : rank(i) # 0
  <2> SUFFICES ASSUME NEW i \in I, rank(i) = 0 PROVE FALSE
    OBVIOUS
  <2>1. i \in upTo(i)
    OBVIOUS
  <2>2. IsFiniteSet(upTo(i))
    BY <1>2
  <2> HIDE DEF upTo
  <2>3. upTo(i) = {}
    BY <2>2, FS_EmptySet
  <2> QED
    BY <2>1, <2>3
<1>4. ASSUME NEW i \in I, NEW k \in I, i < k PROVE rank(i) # rank(k)
  <2>1. \A j \in I : j <= i => j <= k
    BY <1>4
  <2>2. k \in upTo(k) /\ k \notin upTo(i)
    BY <1>4
  <2>3. upTo(i) \in SUBSET upTo(k)
    BY <2>1
  <2> HIDE DEF upTo
  <2> QED
    BY <1>2, <2>2, <2>3, FS_Subset
<1> HIDE DEF rank
<1>5. \A i, k \in I : rank(i) = rank(k) => i = k
  <2> SUFFICES ASSUME NEW i \in I, NEW k \in I, i # k PROVE rank(i) # rank(k)
    OBVIOUS
  <2>1. i < k \/ k < i
    OBVIOUS
  <2> QED
    BY <1>4, <2>1
<1>6. \A i \in I : rank(i) \in 1 .. Cardinality(I)
  <2> TAKE i \in I
  <2>1. rank(i) \in Nat /\ rank(i) <= Cardinality(I) /\ rank(i) # 0
    BY <1>2, <1>3
  <2> QED
    BY <1>1, <2>1
<1>7. r \in Injection(I, 1 .. Cardinality(I))
  BY <1>5, <1>6 DEF Injection, IsInjective
<1>8. IsFiniteSet(1 .. Cardinality(I)) /\ Cardinality(1 .. Cardinality(I)) = Cardinality(I)
  BY <1>1, FS_Interval
<1>9. r \in Surjection(I, 1 .. Cardinality(I))
  BY <1>7, <1>8, FS_Injection
<1>10. \A n \in 1 .. Cardinality(I) : \E i \in I : rank(i) = n
  BY <1>9 DEF Surjection
<1> QED
  BY <1>1, <1>5, <1>6, <1>10 DEF rank, upTo

\* What is picked from a list is the entries at the positions, no more and no
\* less.
LEMMA PickedEntries ==
    ASSUME NEW S, NEW list \in Seq(S), NEW I \in SUBSET DOMAIN list
    PROVE  At(list, I) \in Seq(S) /\ Entries(At(list, I)) = {list[i] : i \in I}
<1> DEFINE rank(i) == Cardinality({j \in I : j <= i})
           c == Cardinality(I)
           pick(n) == CHOOSE i \in I : rank(i) = n
<1>1. DOMAIN list = 1 .. Len(list) /\ Len(list) \in Nat
  OBVIOUS
<1>2. /\ c \in Nat
      /\ \A i \in I : rank(i) \in 1 .. c
      /\ \A i, k \in I : rank(i) = rank(k) => i = k
      /\ \A n \in 1 .. c : \E i \in I : rank(i) = n
  BY <1>1, RanksOfPositions
<1>3. At(list, I) = [n \in 1 .. c |-> list[pick(n)]]
  BY DEF At
<1> HIDE DEF rank, c
<1>4. \A n \in 1 .. c : pick(n) \in I /\ rank(pick(n)) = n
  BY <1>2, Zenon
<1>5. \A i \in I : rank(i) \in 1 .. c /\ pick(rank(i)) = i
  BY <1>2, <1>4
<1> HIDE DEF pick
<1>6. \A i \in I : list[i] \in S
  BY <1>1
<1>7. At(list, I) \in Seq(S)
  BY <1>2, <1>3, <1>4, <1>6
<1>8. DOMAIN At(list, I) = 1 .. c /\ \A n \in 1 .. c : At(list, I)[n] = list[pick(n)]
  BY <1>3
<1>9. Entries(At(list, I)) = {list[i] : i \in I}
  <2>1. \A n \in DOMAIN At(list, I) : At(list, I)[n] \in {list[i] : i \in I}
    BY <1>4, <1>8
  <2>2. \A i \in I : \E n \in DOMAIN At(list, I) : At(list, I)[n] = list[i]
    BY <1>5, <1>8
  <2> QED
    BY <2>1, <2>2, Zenon DEF Entries
<1> QED
  BY <1>7, <1>9

\* Where the entries of two lists are once they are joined.
LEMMA JoinedAt ==
    ASSUME NEW S, NEW s \in Seq(S), NEW t \in Seq(S)
    PROVE  /\ DOMAIN s = 1 .. Len(s) /\ Len(s) \in Nat
           /\ DOMAIN t = 1 .. Len(t) /\ Len(t) \in Nat
           /\ DOMAIN (s \o t) = 1 .. Len(s) + Len(t)
           /\ \A i \in DOMAIN s : (s \o t)[i] = s[i]
           /\ \A i \in DOMAIN t : (s \o t)[Len(s) + i] = t[i]
OBVIOUS

\* What is joined is the entries of both.
LEMMA JoinedEntries ==
    ASSUME NEW S, NEW s \in Seq(S), NEW t \in Seq(S)
    PROVE  Entries(s \o t) = Entries(s) \cup Entries(t)
<1>1. /\ DOMAIN s = 1 .. Len(s) /\ Len(s) \in Nat
      /\ DOMAIN t = 1 .. Len(t) /\ Len(t) \in Nat
      /\ DOMAIN (s \o t) = 1 .. Len(s) + Len(t)
  OBVIOUS
<1>2. \A i \in DOMAIN s : i \in DOMAIN (s \o t) /\ (s \o t)[i] = s[i]
  BY JoinedAt
<1>3. \A i \in DOMAIN t : Len(s) + i \in DOMAIN (s \o t) /\ (s \o t)[Len(s) + i] = t[i]
  BY JoinedAt
<1>4. \A i \in DOMAIN (s \o t) : (s \o t)[i] \in Entries(s) \cup Entries(t)
  <2> SUFFICES ASSUME NEW i \in DOMAIN (s \o t) PROVE (s \o t)[i] \in Entries(s) \cup Entries(t)
    OBVIOUS
  <2>1. CASE i \in DOMAIN s
    BY <1>2, <2>1 DEF Entries
  <2>2. CASE i \notin DOMAIN s
    <3>1. i - Len(s) \in DOMAIN t /\ i = Len(s) + (i - Len(s))
      BY <1>1, <2>2
    <3> QED
      BY <1>3, <3>1 DEF Entries
  <2> QED
    BY <2>1, <2>2
<1>5. Entries(s) \cup Entries(t) \subseteq Entries(s \o t)
  BY <1>2, <1>3 DEF Entries
<1>6. Entries(s \o t) \subseteq Entries(s) \cup Entries(t)
  BY <1>4, Zenon DEF Entries
<1> QED
  BY <1>5, <1>6

\* The volumes of a file: those of the table, and of the [cell] list the first
\* ones on a path that the table has not.
LEMMA MergedEntries ==
    ASSUME NEW S, NEW raw, raw.mounts \in Seq(S), raw.cellMounts \in Seq(S)
    PROVE  Entries(mergeCellVolumes(raw))
           = Entries(raw.mounts)
             \cup {raw.cellMounts[i] : i \in
                    {i \in DOMAIN raw.cellMounts :
                        /\ raw.cellMounts[i].path \notin Paths(raw.mounts)
                        /\ \A j \in 1 .. i - 1 :
                                raw.cellMounts[j].path # raw.cellMounts[i].path}}
<1> DEFINE list == raw.cellMounts
           I == {i \in DOMAIN list :
                    /\ list[i].path \notin Paths(raw.mounts)
                    /\ \A j \in 1 .. i - 1 : list[j].path # list[i].path}
<1>1. mergeCellVolumes(raw) = raw.mounts \o At(list, I)
  BY DEF mergeCellVolumes
<1>2. I \in SUBSET DOMAIN list
  OBVIOUS
<1> HIDE DEF I
<1>3. At(list, I) \in Seq(S) /\ Entries(At(list, I)) = {list[i] : i \in I}
  BY <1>2, PickedEntries
<1>4. Entries(mergeCellVolumes(raw)) = Entries(raw.mounts) \cup {list[i] : i \in I}
  BY <1>1, <1>3, JoinedEntries
<1> QED
  BY <1>4 DEF I

\* The content that a migration writes.
Rewritten(raw) ==
    [raw EXCEPT
        !.docs = {}, !.secrets = raw.docs \cup @,
        !.mounts = <<>>, !.cellMounts = @ \o raw.mounts,
        !.ports = {}, !.cellPorts = @ \cup raw.ports,
        !.mcps = {}, !.cellMcps = @ \cup raw.mcps,
        !.cellGui = "unset", !.gui = moveValue(raw.cellGui, @, "unset"),
        !.stable = {}, !.packages = moveList(raw.stable, @),
        !.useOllama = FALSE, !.useOpenRouter = FALSE,
        !.provider = MigrateProvider(raw),
        !.model = [prefix |-> "", id |-> NamedModel(raw).id],
        !.oldModel = NoModel]

\* A key of a rewritten file is the old key's value, or both keys' together, and
\* no key of the old names is left.
LEMMA RewrittenKeys ==
    ASSUME NEW raw, IsText(raw)
    PROVE  LET new == Rewritten(raw)
           IN /\ new.docs = {} /\ new.secrets = raw.docs \cup raw.secrets
              /\ new.mounts = <<>> /\ new.cellMounts = raw.cellMounts \o raw.mounts
              /\ new.ports = {} /\ new.cellPorts = raw.cellPorts \cup raw.ports
              /\ new.mcps = {} /\ new.cellMcps = raw.cellMcps \cup raw.mcps
              /\ new.cellGui = "unset" /\ new.gui = moveValue(raw.cellGui, raw.gui, "unset")
              /\ new.stable = {} /\ new.packages = moveList(raw.stable, raw.packages)
              /\ new.useOllama = FALSE /\ new.useOpenRouter = FALSE
              /\ new.provider = MigrateProvider(raw)
              /\ new.model = [prefix |-> "", id |-> NamedModel(raw).id]
              /\ new.oldModel = NoModel
              /\ \A k \in {"scalar", "privileged", "modules", "caps", "tunnels", "env", "proxy"} :
                    new[k] = raw[k]
<1>1. raw = [k \in Keys |-> raw[k]]
  BY DEF IsText
<1>2. DOMAIN raw = Keys
  BY <1>1, Zenon
<1> QED
  BY <1>2 DEF Rewritten, Keys

\* Nothing deprecated is left in it.
LEMMA RewrittenIsCurrent == ASSUME NEW raw, IsText(raw) PROVE ~Deprecated(Rewritten(raw))
<1> DEFINE new == Rewritten(raw)
<1>1. /\ new.docs = {} /\ new.mounts = <<>> /\ new.ports = {} /\ new.mcps = {}
      /\ new.cellGui = "unset" /\ new.stable = {} /\ ~new.useOllama /\ ~new.useOpenRouter
      /\ new.model = [prefix |-> "", id |-> NamedModel(raw).id] /\ new.oldModel = NoModel
  BY RewrittenKeys
<1> HIDE DEF new
<1>2. new.model.prefix = "" /\ NoModel.prefix = ""
  <2>1. \A id : [prefix |-> "", id |-> id].prefix = ""
    OBVIOUS
  <2> QED
    BY <1>1, <2>1, Zenon DEF NoModel
<1>3. NamedModel(new).prefix = ""
  BY <1>1, <1>2, Zenon DEF NamedModel
<1> QED
  BY <1>1, <1>3, Zenon DEF Deprecated, new

\* It names the provider and the model that the old spellings named.
LEMMA RewrittenModel ==
    ASSUME NEW raw, IsText(raw)
    PROVE  LET new == Rewritten(raw)
           IN /\ NamedModel(new).id = NamedModel(raw).id
              /\ ActiveProvider(LoadFile(raw)) = ActiveProvider(LoadFile(new))
<1> DEFINE new == Rewritten(raw)
<1>1. /\ ~new.useOllama /\ ~new.useOpenRouter /\ new.provider = MigrateProvider(raw)
      /\ new.model = [prefix |-> "", id |-> NamedModel(raw).id] /\ new.oldModel = NoModel
  BY RewrittenKeys
<1> HIDE DEF new
<1>2. NamedModel(new).id = NamedModel(raw).id
  <2>1. new.model.id = NamedModel(raw).id /\ NoModel.id = ""
    <3>1. \A id : [prefix |-> "", id |-> id].id = id
      OBVIOUS
    <3> QED
      BY <1>1, <3>1, Zenon DEF NoModel
  <2>2. NamedModel(new) = IF new.model.id = "" THEN NoModel ELSE new.model
    BY <1>1, Zenon DEF NamedModel
  <2> QED
    BY <2>1, <2>2, Zenon
<1>3. Legacy(new) = ""
  BY <1>1, Zenon DEF Legacy
<1>4. Provider(new) = MigrateProvider(raw)
  BY <1>1, <1>3, Zenon DEF Provider
<1>5. \A r : LoadFile(r).provider = Provider(r)
  BY DEF LoadFile
<1>6. Provider(raw) # "" => MigrateProvider(raw) = Provider(raw)
  BY Zenon DEF MigrateProvider
<1>7. Provider(raw) = "" => MigrateProvider(raw) \in {"default", ""}
  BY Zenon DEF MigrateProvider
<1>8. ActiveProvider(LoadFile(raw)) = ActiveProvider(LoadFile(new))
  <2>1. \A r : ActiveProvider(LoadFile(r)) = IF Provider(r) = "" THEN "default" ELSE Provider(r)
    BY <1>5, Zenon DEF ActiveProvider
  <2>2. CASE Provider(raw) # ""
    BY <1>4, <1>6, <2>1, <2>2, Zenon
  <2>3. CASE Provider(raw) = ""
    BY <1>4, <1>7, <2>1, <2>3
  <2> QED
    BY <2>2, <2>3
<1> QED
  BY <1>2, <1>8, Zenon DEF new

\* Its packages are those of the two keys that a merge joins.
LEMMA RewrittenPackages ==
    ASSUME NEW old, NEW now
    PROVE  Held(old) \cup Held(now) = Held(moveList(old, now)) \cup Held({})
BY DEF moveList, Held

\* When no path is mounted twice by the table, or by it and the list, its
\* volumes are those of before.
LEMMA RewrittenVolumes ==
    ASSUME NEW raw, IsText(raw),
           Paths(raw.mounts) \cap Paths(raw.cellMounts) = {},
           \A i, j \in DOMAIN raw.mounts : raw.mounts[i].path = raw.mounts[j].path => i = j
    PROVE  Entries(mergeCellVolumes(raw)) = Entries(mergeCellVolumes(Rewritten(raw)))
<1> DEFINE S == [source : STRING, path : STRING]
           new == Rewritten(raw)
           table == raw.mounts
           list == raw.cellMounts
           both == list \o table
           Firsts(l, paths) == {i \in DOMAIN l : /\ l[i].path \notin paths
                                                /\ \A j \in 1 .. i - 1 : l[j].path # l[i].path}
<1>1. table \in Seq(S) /\ list \in Seq(S)
  BY DEF IsText
<1> HIDE DEF S
<1>2. new.mounts = <<>> /\ new.cellMounts = both
  BY RewrittenKeys
<1>3. new.mounts \in Seq(S) /\ new.cellMounts \in Seq(S)
  BY <1>1, <1>2
<1>4. Entries(<<>>) = {} /\ Paths(<<>>) = {}
  BY DEF Entries, Paths
<1>5. Entries(mergeCellVolumes(raw)) = Entries(table) \cup {list[i] : i \in Firsts(list, Paths(table))}
  BY <1>1, MergedEntries
<1>6. Entries(mergeCellVolumes(new)) = {both[i] : i \in Firsts(both, {})}
  <2>1. Entries(mergeCellVolumes(new))
        = Entries(new.mounts) \cup {new.cellMounts[i] : i \in Firsts(new.cellMounts, Paths(new.mounts))}
    <3> HIDE DEF new
    <3> QED
      BY <1>3, MergedEntries
  <2> HIDE DEF Firsts, new, both
  <2> QED
    BY <1>2, <1>4, <2>1
<1>7. /\ DOMAIN table = 1 .. Len(table) /\ Len(table) \in Nat
      /\ DOMAIN list = 1 .. Len(list) /\ Len(list) \in Nat
      /\ DOMAIN both = 1 .. Len(list) + Len(table)
      /\ \A i \in DOMAIN list : both[i] = list[i]
      /\ \A i \in DOMAIN table : both[Len(list) + i] = table[i]
  <2> HIDE DEF table, list
  <2> QED
    BY <1>1, JoinedAt
<1>8. \A i \in DOMAIN list, j \in DOMAIN table : list[i].path # table[j].path
  BY DEF Paths
<1> HIDE DEF both, table, list
<1>9. \A i \in DOMAIN list : i \in Firsts(both, {}) <=> i \in Firsts(list, Paths(table))
  <2> TAKE i \in DOMAIN list
  <2>1. i \in DOMAIN both /\ both[i] = list[i] /\ \A j \in 1 .. i - 1 : both[j] = list[j]
    BY <1>7
  <2>2. list[i].path \notin Paths(table)
    BY <1>8 DEF Paths
  <2> QED
    BY <2>1, <2>2
<1>10. \A i \in DOMAIN table : Len(list) + i \in Firsts(both, {})
  <2> TAKE i \in DOMAIN table
  <2>1. Len(list) + i \in DOMAIN both /\ both[Len(list) + i] = table[i]
    BY <1>7
  <2>2. ASSUME NEW j \in 1 .. (Len(list) + i) - 1 PROVE both[j].path # table[i].path
    <3>1. CASE j \in DOMAIN list
      BY <1>7, <1>8, <3>1
    <3>2. CASE j \notin DOMAIN list
      <4>1. j - Len(list) \in DOMAIN table /\ j - Len(list) # i /\ j = Len(list) + (j - Len(list))
        BY <1>7, <3>2
      <4>2. both[j] = table[j - Len(list)]
        BY <1>7, <4>1
      <4>3. \A p, q \in DOMAIN table : table[p].path = table[q].path => p = q
        BY Zenon DEF table
      <4> QED
        BY <4>1, <4>2, <4>3
    <3> QED
      BY <3>1, <3>2
  <2>3. \A j \in 1 .. (Len(list) + i) - 1 : both[j].path # both[Len(list) + i].path
    BY <2>1, <2>2, Zenon
  <2>4. both[Len(list) + i].path \notin {}
    OBVIOUS
  <2> QED
    BY <2>1, <2>3, <2>4, Zenon
<1>11. \A i \in DOMAIN both : i \in DOMAIN list \/ \E j \in DOMAIN table : i = Len(list) + j
  <2> TAKE i \in DOMAIN both
  <2>1. i \notin DOMAIN list => i - Len(list) \in DOMAIN table /\ i = Len(list) + (i - Len(list))
    BY <1>7
  <2> QED
    BY <2>1
<1>12. Firsts(both, {}) \subseteq DOMAIN both /\ Firsts(list, Paths(table)) \subseteq DOMAIN list
  OBVIOUS
<1> HIDE DEF Firsts
<1>13. ASSUME NEW m, m \in {both[i] : i \in Firsts(both, {})}
       PROVE  m \in Entries(table) \cup {list[i] : i \in Firsts(list, Paths(table))}
  <2>1. PICK i \in Firsts(both, {}) : m = both[i]
    BY <1>13
  <2>2. CASE i \in DOMAIN list
    BY <1>7, <1>9, <2>1, <2>2
  <2>3. CASE \E j \in DOMAIN table : i = Len(list) + j
    BY <1>7, <2>1, <2>3 DEF Entries
  <2> QED
    BY <1>11, <1>12, <2>2, <2>3
<1>14. ASSUME NEW m, m \in Entries(table) \cup {list[i] : i \in Firsts(list, Paths(table))}
       PROVE  m \in {both[i] : i \in Firsts(both, {})}
  <2>1. CASE m \in Entries(table)
    <3>1. PICK j \in DOMAIN table : m = table[j]
      BY <2>1 DEF Entries
    <3> QED
      BY <1>7, <1>10, <3>1
  <2>2. CASE m \in {list[i] : i \in Firsts(list, Paths(table))}
    <3>1. PICK i \in Firsts(list, Paths(table)) : m = list[i]
      BY <2>2
    <3> QED
      BY <1>7, <1>9, <1>12, <3>1
  <2> QED
    BY <1>14, <2>1, <2>2
<1>15. {both[i] : i \in Firsts(both, {})} = Entries(table) \cup {list[i] : i \in Firsts(list, Paths(table))}
  BY <1>13, <1>14
<1> QED
  BY <1>5, <1>6, <1>15, Zenon DEF new

\* What is loaded of a file, key by key.
LEMMA LoadedKeys ==
    ASSUME NEW raw
    PROVE  LET c == LoadFile(raw)
           IN /\ DOMAIN c = {"scalar", "privileged", "gui", "modules", "packages", "stable",
                             "caps", "ports", "mcps", "docs", "tunnels", "env", "mounts",
                             "provider", "model", "proxy"}
              /\ c.scalar = raw.scalar /\ c.privileged = raw.privileged
              /\ c.gui = (IF raw.gui = "unset" THEN raw.cellGui ELSE raw.gui)
              /\ c.modules = raw.modules /\ c.packages = raw.packages /\ c.stable = raw.stable
              /\ c.caps = raw.caps /\ c.ports = raw.ports \cup raw.cellPorts
              /\ c.mcps = raw.mcps \cup raw.cellMcps /\ c.docs = raw.docs \cup raw.secrets
              /\ c.tunnels = raw.tunnels /\ c.env = raw.env
              /\ c.mounts = mergeCellVolumes(raw) /\ c.model = NamedModel(raw).id
              /\ c.proxy = raw.proxy
BY DEF LoadFile

\* A file says the same in its new spelling.
LEMMA RewrittenMeansTheSame == ASSUME NEW raw, IsText(raw) PROVE SameFile(raw, Rewritten(raw))
<1> DEFINE new == Rewritten(raw)
           old == LoadFile(raw)
           now == LoadFile(new)
<1>1. /\ new.docs = {} /\ new.secrets = raw.docs \cup raw.secrets
      /\ new.ports = {} /\ new.cellPorts = raw.cellPorts \cup raw.ports
      /\ new.mcps = {} /\ new.cellMcps = raw.cellMcps \cup raw.mcps
      /\ new.cellGui = "unset" /\ new.gui = moveValue(raw.cellGui, raw.gui, "unset")
      /\ new.stable = {} /\ new.packages = moveList(raw.stable, raw.packages)
      /\ new.scalar = raw.scalar /\ new.privileged = raw.privileged
      /\ new.modules = raw.modules /\ new.caps = raw.caps /\ new.tunnels = raw.tunnels
      /\ new.env = raw.env /\ new.proxy = raw.proxy
  BY RewrittenKeys, ZenonT(60)
<1>2. /\ NamedModel(new).id = NamedModel(raw).id
      /\ ActiveProvider(old) = ActiveProvider(now)
  BY RewrittenModel
<1> HIDE DEF new
<1>3. /\ old.scalar = now.scalar /\ old.privileged = now.privileged /\ old.modules = now.modules
      /\ old.caps = now.caps /\ old.tunnels = now.tunnels /\ old.env = now.env
      /\ old.proxy = now.proxy /\ old.model = now.model
  <2>1. /\ old.scalar = raw.scalar /\ old.privileged = raw.privileged
        /\ old.modules = raw.modules /\ old.caps = raw.caps /\ old.tunnels = raw.tunnels
        /\ old.env = raw.env /\ old.proxy = raw.proxy /\ old.model = NamedModel(raw).id
    BY LoadedKeys, Zenon
  <2>2. /\ now.scalar = new.scalar /\ now.privileged = new.privileged
        /\ now.modules = new.modules /\ now.caps = new.caps /\ now.tunnels = new.tunnels
        /\ now.env = new.env /\ now.proxy = new.proxy /\ now.model = NamedModel(new).id
    BY LoadedKeys, Zenon
  <2> HIDE DEF old, now
  <2> QED
    BY <1>1, <1>2, <2>1, <2>2, Zenon
<1>4. old.ports = now.ports /\ old.mcps = now.mcps /\ old.docs = now.docs
  <2>1. now.ports = {} \cup (raw.cellPorts \cup raw.ports) /\ old.ports = raw.ports \cup raw.cellPorts
    BY <1>1, LoadedKeys, Zenon
  <2>2. now.mcps = {} \cup (raw.cellMcps \cup raw.mcps) /\ old.mcps = raw.mcps \cup raw.cellMcps
    BY <1>1, LoadedKeys, Zenon
  <2>3. now.docs = {} \cup (raw.docs \cup raw.secrets) /\ old.docs = raw.docs \cup raw.secrets
    BY <1>1, LoadedKeys, Zenon
  <2> HIDE DEF old, now
  <2> QED
    BY <2>1, <2>2, <2>3
<1>5. old.gui = now.gui
  <2>1. old.gui = (IF raw.gui = "unset" THEN raw.cellGui ELSE raw.gui)
    BY LoadedKeys, Zenon
  <2>2. now.gui = (IF new.gui = "unset" THEN new.cellGui ELSE new.gui)
    BY LoadedKeys, Zenon
  <2>3. new.gui = IF raw.gui = "unset" THEN raw.cellGui ELSE raw.gui
    BY <1>1, Zenon DEF moveValue
  <2> QED
    BY <1>1, <2>1, <2>2, <2>3, Zenon
<1>6. {k \in DOMAIN old : old[k] # now[k]} \subseteq {"packages", "stable", "mounts", "provider"}
  <2>1. DOMAIN old = {"scalar", "privileged", "gui", "modules", "packages", "stable",
                      "caps", "ports", "mcps", "docs", "tunnels", "env", "mounts",
                      "provider", "model", "proxy"}
    BY LoadedKeys, Zenon
  <2> HIDE DEF old, now
  <2> QED
    BY <1>3, <1>4, <1>5, <2>1, Zenon
<1>7. Held(old.packages) \cup Held(old.stable) = Held(now.packages) \cup Held(now.stable)
  <2>1. old.packages = raw.packages /\ old.stable = raw.stable
    BY LoadedKeys, Zenon
  <2>2. now.packages = moveList(raw.stable, raw.packages) /\ now.stable = {}
    BY <1>1, LoadedKeys, Zenon
  <2> HIDE DEF old, now
  <2> QED
    BY <2>1, <2>2, RewrittenPackages
<1>8. ASSUME Paths(raw.mounts) \cap Paths(raw.cellMounts) = {},
             \A i, j \in DOMAIN raw.mounts : raw.mounts[i].path = raw.mounts[j].path => i = j
      PROVE  Mounted(old) = Mounted(now)
  <2>1. Entries(mergeCellVolumes(raw)) = Entries(mergeCellVolumes(new))
    BY <1>8, RewrittenVolumes, Zenon DEF new
  <2>2. old.mounts = mergeCellVolumes(raw) /\ now.mounts = mergeCellVolumes(new)
    BY LoadedKeys, Zenon
  <2> HIDE DEF old, now
  <2> QED
    BY <2>1, <2>2, Zenon DEF Mounted, Entries
<1> QED
  BY <1>2, <1>6, <1>7, <1>8, Zenon DEF SameFile, new

\* A migration keeps what a file means, leaves nothing deprecated in it, and
\* keeps a copy of what it has rewritten.
THEOREM MigrationsMeanTheSame == RulesSpec => []MigrationMeansTheSame
<1>1. ASSUME Applied PROVE MigrationMeansTheSame
  <2> DEFINE raw == input.raw
             done == MigrateFile(Has(raw), input.write, input.writable)
  <2> SUFFICES ASSUME topic = "migrate", Loads(raw)
               PROVE  IF done.file = Has(raw) THEN done.backup = {}
                      ELSE /\ SameFile(raw, done.file.raw)
                           /\ ~Deprecated(done.file.raw)
                           /\ done.backup = {Has(raw)}
    BY Zenon DEF MigrationMeansTheSame, MigrationKeepsMeaning
  <2>1. IsText(raw)
    BY <1>1, MigrateAssumption DEF Applied, Inputs
  <2>2. MigrateTOML(raw) # Refused => MigrateTOML(raw) = Rewritten(raw)
    BY Zenon DEF MigrateTOML, Rewritten
  <2>3. \A r : Has(r).state = "text" /\ Has(r).raw = r
    BY DEF Has
  <2>4. done = IF /\ Deprecated(raw) /\ MigrateTOML(raw) # Refused
                  /\ input.write /\ input.writable
               THEN [file |-> Has(MigrateTOML(raw)), backup |-> {Has(raw)}, failed |-> FALSE]
               ELSE [file |-> Has(raw), backup |-> {},
                     failed |-> Has(raw).state # "missing" /\ MigrateTOML(raw) = Refused]
    BY <2>3, Zenon DEF MigrateFile
  <2> HIDE DEF done, raw
  <2>5. CASE Deprecated(raw) /\ MigrateTOML(raw) # Refused /\ input.write /\ input.writable
    <3>1. done = [file |-> Has(Rewritten(raw)), backup |-> {Has(raw)}, failed |-> FALSE]
      BY <2>2, <2>4, <2>5, Zenon
    <3>2. done.file = Has(Rewritten(raw)) /\ done.backup = {Has(raw)}
      BY <3>1
    <3>3. done.file.raw = Rewritten(raw)
      BY <2>3, <3>2, Zenon
    <3>4. SameFile(raw, done.file.raw) /\ ~Deprecated(done.file.raw)
      BY <2>1, <3>3, RewrittenMeansTheSame, RewrittenIsCurrent, Zenon
    <3>5. done.file # Has(raw)
      BY <2>3, <2>5, <3>4, Zenon
    <3> QED
      BY <3>2, <3>4, <3>5, Zenon
  <2>6. CASE ~(Deprecated(raw) /\ MigrateTOML(raw) # Refused /\ input.write /\ input.writable)
    <3>1. done = [file |-> Has(raw), backup |-> {},
                  failed |-> Has(raw).state # "missing" /\ MigrateTOML(raw) = Refused]
      BY <2>4, <2>6, Zenon
    <3>2. done.file = Has(raw) /\ done.backup = {}
      BY <3>1
    <3> QED
      BY <3>2, Zenon
  <2> QED
    BY <2>5, <2>6, Zenon
<1> QED
  BY <1>1, RulesApply, PTL


-----------------------------------------------------------------------------
(* RunArgs: what the container may do. *)

\* The gateway's variable is the last of its name that docker is given, unless
\* the command or a secret sets it.
LEMMA GatewayVariable ==
  ASSUME NEW spec, Proxied(spec), "HTTP_PROXY" \notin DOMAIN spec.inherit \cup DOMAIN spec.extra
  PROVE  Env(spec)["HTTP_PROXY"] = "gateway"
<1> DEFINE given == HandedOver(spec)
           By == {i \in DOMAIN given : "HTTP_PROXY" \in DOMAIN given[i]}
           last == CHOOSE i \in By : \A j \in By : j <= i
<1>1. ProxyEnv(spec) = [HTTP_PROXY |-> "gateway"] BY Zenon DEF ProxyEnv
<1>2. /\ DOMAIN given = 1 .. 7
      /\ given[5] = ProxyEnv(spec) /\ given[6] = spec.extra /\ given[7] = spec.inherit
  BY DEF HandedOver
<1> HIDE DEF given
<1>3. "HTTP_PROXY" \in DOMAIN given[5] /\ given[5]["HTTP_PROXY"] = "gateway" BY <1>1, <1>2
<1>4. 5 \in By /\ \A j \in By : j <= 5 BY <1>2, <1>3
<1> HIDE DEF By
<1>5. By \subseteq Int BY <1>2 DEF By
<1>6. last \in By /\ \A j \in By : j <= last BY <1>4, Zenon
<1> HIDE DEF last
<1>7. last = 5 BY <1>4, <1>5, <1>6
<1>8. Env(spec) = [name \in UNION {DOMAIN given[i] : i \in DOMAIN given} |->
            given[CHOOSE i \in {i \in DOMAIN given : name \in DOMAIN given[i]} :
                    \A j \in {k \in DOMAIN given : name \in DOMAIN given[k]} : j <= i][name]]
  BY DEF Env, given
<1>9. "HTTP_PROXY" \in UNION {DOMAIN given[i] : i \in DOMAIN given} BY <1>2, <1>3
<1>10. Env(spec)["HTTP_PROXY"] = given[last]["HTTP_PROXY"] BY <1>8, <1>9 DEF By, last
<1> QED BY <1>3, <1>7, <1>10

\* What is mounted is the home, the project, what devcell adds, the user's
\* volumes and the tunnel's directory.
LEMMA MountSources ==
  ASSUME NEW spec, NEW m \in Mounts(spec)
  PROVE  m \in HomeMount(spec.host) \cup ProjectMounts(spec.host) \cup SystemMounts(spec)
               \cup UserMounts(spec) \cup WireguardMount(spec)
BY DEF Mounts, Over

\* Two paths have their names in one set.
LEMMA PathsOfNames ==
  ASSUME NEW p, IsPath(p), NEW q, IsPath(q)
  PROVE  \E S : p \in Seq(S) /\ q \in Seq(S)
<1> DEFINE S == {p[i] : i \in DOMAIN p}
           T == {q[i] : i \in DOMAIN q}
           U == S \cup T
<1>1. p \in Seq(S) /\ q \in Seq(T) BY DEF IsPath
<1>2. S \subseteq U /\ T \subseteq U OBVIOUS
<1> HIDE DEF S, T, U
<1>3. p \in Seq(U) /\ q \in Seq(U) BY <1>1, <1>2
<1> QED BY <1>3

\* Few names in a row are a path.
LEMMA TuplesArePaths ==
  ASSUME NEW a, NEW b, NEW c
  PROVE  IsPath(<<a>>) /\ IsPath(<<a, b>>) /\ IsPath(<<a, b, c>>)
<1>1. ASSUME NEW S, a \in S PROVE <<a>> \in Seq(S) BY <1>1
<1>2. ASSUME NEW S, a \in S, b \in S PROVE <<a, b>> \in Seq(S) BY <1>2
<1>3. ASSUME NEW S, a \in S, b \in S, c \in S PROVE <<a, b, c>> \in Seq(S) BY <1>3
<1> DEFINE Names(p) == {p[i] : i \in DOMAIN p}
<1>4. a \in Names(<<a>>) /\ {a, b} \subseteq Names(<<a, b>>) /\ {a, b, c} \subseteq Names(<<a, b, c>>)
  OBVIOUS
<1> HIDE DEF Names
<1>5. <<a>> \in Seq(Names(<<a>>)) /\ <<a, b>> \in Seq(Names(<<a, b>>))
      /\ <<a, b, c>> \in Seq(Names(<<a, b, c>>))
  BY <1>1, <1>2, <1>3, <1>4
<1> QED BY <1>5 DEF IsPath, Names

\* A directory lies in itself, and what it contains lies in it.
LEMMA SelfIsUnder == ASSUME NEW dir, IsPath(dir) PROVE Under(dir, dir)
BY DEF Under, SX!IsPrefix, IsPath

\* Whatever is below a directory lies in it.
LEMMA InsideIsUnder ==
  ASSUME NEW dir, IsPath(dir), NEW rest, IsPath(rest)
  PROVE  Under(dir \o rest, dir)
<1>1. PICK S : dir \in Seq(S) /\ rest \in Seq(S) BY PathsOfNames
<1>2. Len(dir) <= Len(dir \o rest) /\ SubSeq(dir \o rest, 1, Len(dir)) = dir
      /\ SubSeq(dir, 1, Len(dir)) = dir
  BY <1>1
<1> QED BY <1>2 DEF Under, SX!IsPrefix

\* The mounts that devcell itself adds come from the cell's own directories, or
\* from the volume of the nix store.
LEMMA OwnMounts ==
  ASSUME NEW spec, \A dir \in HostDirs(spec.host) : IsPath(dir), Proxied(spec),
         NEW m \in HomeMount(spec.host) \cup ProjectMounts(spec.host) \cup SystemMounts(spec)
                   \cup WireguardMount(spec)
  PROVE  \/ \E dir \in HostDirs(spec.host) : Under(m.src, dir)
         \/ m.src = NixVolume
<1> DEFINE c == spec.host
<1>1. /\ IsPath(c.baseDir) /\ IsPath(c.home) /\ IsPath(c.workspaceHome) /\ IsPath(c.configDir)
      /\ {c.baseDir, c.home, c.workspaceHome, c.configDir} = HostDirs(c)
  BY DEF HostDirs
<1>2. /\ IsPath(<<".claude", "commands">>) /\ IsPath(<<".claude", "agents">>)
      /\ IsPath(<<"boot">>) /\ IsPath(<<".wg">>)
  BY TuplesArePaths
<1>3. CASE m \in HomeMount(c)
  <2>1. m.src = c.workspaceHome BY <1>3 DEF HomeMount, Bind
  <2> QED BY <1>1, <2>1, SelfIsUnder
<1>4. CASE m \in ProjectMounts(c)
  <2>1. m.src = c.baseDir BY <1>4 DEF ProjectMounts, Bind
  <2> QED BY <1>1, <2>1, SelfIsUnder
<1>5. CASE m \in AgentMounts(c)
  <2>1. \/ m.src = c.home \o <<".claude", "commands">> \/ m.src = c.home \o <<".claude", "agents">>
        \/ m.src = c.configDir
    BY <1>5, SMTT(30) DEF AgentMounts, Bind
  <2> QED BY <1>1, <1>2, <2>1, SelfIsUnder, InsideIsUnder
<1>6. CASE m.src = c.workspaceHome \o <<"boot">> \/ m.src = c.workspaceHome \o <<".wg">>
  BY <1>1, <1>2, <1>6, InsideIsUnder
<1>7. CASE m \in SystemMounts(spec)
  <2>1. \/ m \in AgentMounts(c) \/ m.src = NixVolume
        \/ m.src = c.workspaceHome \o <<"boot">>
    BY <1>7 DEF SystemMounts, Optional, Bind
  <2> QED BY <1>5, <1>6, <2>1
<1>8. CASE m \in WireguardMount(spec)
  <2>1. m.src = c.workspaceHome \o <<".wg">> BY <1>8 DEF WireguardMount, Optional, Bind
  <2> QED BY <1>6, <2>1
<1> QED BY <1>3, <1>4, <1>7, <1>8

\* A path with names in front of and behind one name does not lie in a path that
\* starts with another.
LEMMA OtherRoot ==
  ASSUME NEW a, NEW b, NEW c, NEW e, a # c
  PROVE  /\ ~Under(<<c, e>>, <<a>>) /\ ~Under(<<c, e>>, <<a, b>>)
         /\ ~Under(<<a>>, <<c, e>>) /\ ~Under(<<a, b>>, <<c, e>>)
<1> DEFINE S == {a, b, c, e}
<1>1. ASSUME NEW p \in Seq(S), NEW q \in Seq(S), Len(p) >= 1, Len(q) >= 1, p[1] # q[1]
      PROVE  ~Under(p, q)
  <2>1. SUFFICES ASSUME Len(q) <= Len(p) /\ SubSeq(q, 1, Len(q)) = SubSeq(p, 1, Len(q))
                 PROVE  FALSE
    BY DEF Under, SX!IsPrefix
  <2>2. SubSeq(q, 1, Len(q))[1] = q[1] /\ SubSeq(p, 1, Len(q))[1] = p[1] BY <1>1, <2>1
  <2> QED BY <1>1, <2>1, <2>2
<1>2. a \in S /\ b \in S /\ c \in S /\ e \in S OBVIOUS
<1> HIDE DEF S
<1>3. /\ <<a>> \in Seq(S) /\ <<a, b>> \in Seq(S) /\ <<c, e>> \in Seq(S) BY <1>2
<1>4. /\ Len(<<a>>) = 1 /\ Len(<<a, b>>) = 2 /\ Len(<<c, e>>) = 2
      /\ <<a>>[1] = a /\ <<a, b>>[1] = a /\ <<c, e>>[1] = c
  OBVIOUS
<1> DEFINE one == <<a>>
           two == <<a, b>>
           other == <<c, e>>
<1>5. /\ one \in Seq(S) /\ two \in Seq(S) /\ other \in Seq(S)
      /\ Len(one) >= 1 /\ Len(two) >= 1 /\ Len(other) >= 1
      /\ one[1] # other[1] /\ two[1] # other[1]
  BY <1>3, <1>4
<1> HIDE DEF one, two, other
<1>6. /\ ~Under(other, one) /\ ~Under(other, two) /\ ~Under(one, other) /\ ~Under(two, other)
  BY <1>1, <1>5
<1> QED BY <1>6 DEF one, two, other

\* The volume of the nix store has a name, no path: it lies in no denied one
\* and contains none.
LEMMA StoreNotDenied ==
  /\ ~isDangerousMount(NixVolume)
  /\ \A d \in DeniedMountPaths : ~Under(d, NixVolume)
<1>1. ASSUME NEW d \in DeniedMountPaths PROVE ~Under(NixVolume, d) /\ ~Under(d, NixVolume)
  <2>1. CASE d = <<"var", "run">>
    <3>1. "var" # "volumes" OBVIOUS
    <3> QED BY <2>1, <3>1, OtherRoot DEF NixVolume
  <2>2. ASSUME NEW a \in {"run", "proc", "sys"}, d = <<a>>
        PROVE  ~Under(NixVolume, d) /\ ~Under(d, NixVolume)
    <3>1. a # "volumes" OBVIOUS
    <3> QED BY <2>2, <3>1, OtherRoot DEF NixVolume
  <2> QED BY <2>1, <2>2 DEF DeniedMountPaths
<1> QED BY <1>1 DEF isDangerousMount

\* A user's volume that is mounted behind the gateway leads to no denied path
\* when the cell is not solitary, or it is refused; a solitary cell leaves it out
\* when it names one.
LEMMA UserMountsAllowed ==
  ASSUME NEW spec, Accepted(spec), Proxied(spec), NEW m \in UserMounts(spec)
  PROVE  /\ spec.solitary => ~isDangerousMount(m.src)
         /\ ~spec.solitary => ~isDangerousMount(EvalSymlinks(spec, m.src))
<1>1. PICK i \in DOMAIN spec.volumes :
        m = spec.volumes[i] /\ (spec.solitary => ~isDeniedByPolicy(spec.volumes[i]))
  BY DEF UserMounts
<1>2. CASE spec.solitary BY <1>1, <1>2, Zenon DEF isDeniedByPolicy
<1>3. CASE ~spec.solitary BY <1>1, <1>3, Zenon DEF Accepted, CompatibleWithProxy
<1> QED BY <1>2, <1>3

\* SettingsRespectProxy, for any run: settings, volumes, links, files of
\* variables.
THEOREM ProxyIsRespected == RulesSpec => []SettingsRespectProxy
<1>1. Applied => SettingsRespectProxy
  <2> DEFINE Own(m) == \E dir \in HostDirs(input.host) : Under(m.src, dir)
             Follow(m) == EvalSymlinks(input, m.src)
             MountAllowed(m) ==
                /\ isDangerousMount(Follow(m)) => Own(m) \/ (input.solitary /\ Follow(m) # m.src)
                /\ (\E d \in DeniedMountPaths : Under(d, Follow(m))) =>
                        Own(m) \/ m \in UserMounts(input)
  <2> SUFFICES ASSUME input \in IsolateInputs, Accepted(input), Proxied(input)
               PROVE  /\ Network(input) = "internal"
                      /\ "HTTP_PROXY" \notin DOMAIN input.inherit \cup DOMAIN input.extra =>
                              Env(input)["HTTP_PROXY"] = "gateway"
                      /\ ~Privileged(input) /\ Caps(input) \cap IsolationCaps = {}
                      /\ "ALL" \in Caps(input) => ~input.solitary /\ "ALL" \in input.capAdd
                      /\ Devices(input) \cap {"/dev/kvm", "/dev/net/tun"} = {}
                      /\ \A m \in Mounts(input) : MountAllowed(m)
    BY Zenon DEF Applied, Inputs, SettingsRespectProxy
  <2>1. Network(input) = "internal" BY Zenon DEF Network
  <2>2. ~input.solitary => /\ ~input.privileged /\ input.capAdd \cap IsolationCaps = {}
                           /\ ~input.wireguard /\ input.kvm # "on"
    BY Zenon DEF Accepted, CompatibleWithProxy
  <2>3. ~Privileged(input) BY <2>2, Zenon DEF Privileged
  <2>4. ~wgEnabled(input) BY <2>2, Zenon DEF wgEnabled
  <2>5. /\ Caps(input) \cap IsolationCaps = {}
        /\ "ALL" \in Caps(input) => ~input.solitary /\ "ALL" \in input.capAdd
    <3>1. CASE input.solitary BY <3>1, CapsAssumption DEF Caps
    <3>2. CASE ~input.solitary
      <4>1. Caps(input) = input.capAdd BY <2>4, <3>2 DEF Caps
      <4> QED BY <2>2, <3>2, <4>1
    <3> QED BY <3>1, <3>2
  <2>6. Devices(input) \cap {"/dev/kvm", "/dev/net/tun"} = {}
    <3>1. ~((input.kvm = "on" \/ ProbeKVM(input)) /\ ~input.solitary) BY <2>2, Zenon DEF ProbeKVM
    <3>2. Devices(input) = {"/dev/fuse"} BY <2>4, <3>1 DEF Devices
    <3> QED BY <3>2
  <2>7. ASSUME NEW m \in Mounts(input) PROVE MountAllowed(m)
    <3>1. CASE m \in UserMounts(input)
      <4>1. /\ input.solitary => ~isDangerousMount(m.src)
            /\ ~input.solitary => ~isDangerousMount(Follow(m))
        BY <3>1, UserMountsAllowed
      <4>2. isDangerousMount(Follow(m)) => input.solitary /\ Follow(m) # m.src BY <4>1, Zenon
      <4> QED BY <3>1, <4>2, Zenon
    <3>2. CASE m \notin UserMounts(input)
      <4>1. m \in HomeMount(input.host) \cup ProjectMounts(input.host) \cup SystemMounts(input)
                  \cup WireguardMount(input)
        BY <3>2, MountSources
      <4>2. /\ \A dir \in HostDirs(input.host) : IsPath(dir)
            /\ NixVolume \notin DOMAIN input.links
        BY IsolateAssumption
      <4>3. Own(m) \/ m.src = NixVolume BY <4>1, <4>2, OwnMounts
      <4>4. CASE m.src = NixVolume
        <5>1. Follow(m) = NixVolume BY <4>2, <4>4, Zenon DEF EvalSymlinks
        <5> QED BY <5>1, StoreNotDenied, Zenon
      <4>5. CASE Own(m) BY <4>5, Zenon
      <4> QED BY <4>3, <4>4, <4>5
    <3> QED BY <3>1, <3>2
  <2> QED BY <2>1, <2>3, <2>5, <2>6, <2>7, GatewayVariable
<1> QED BY <1>1, RulesApply, PTL


-----------------------------------------------------------------------------
(* RunArgs: what the container sees. *)

\* A sequence over any set is a path, and so is one path behind another.
LEMMA SequencesArePaths == ASSUME NEW S, NEW p \in Seq(S) PROVE IsPath(p)
BY DEF IsPath

\* A path behind another is a path.
LEMMA JoinedPaths ==
  ASSUME NEW p, IsPath(p), NEW q, IsPath(q)
  PROVE  IsPath(p \o q)
<1>1. PICK S : p \in Seq(S) /\ q \in Seq(S) BY PathsOfNames
<1>2. p \o q \in Seq(S) BY <1>1
<1> QED BY <1>2, SequencesArePaths

\* A path has at most the length of what lies in it, and is the same when it
\* has that length.
LEMMA UnderIsLonger ==
  ASSUME NEW p, IsPath(p), NEW q, IsPath(q), Under(p, q)
  PROVE  /\ Len(p) \in Nat /\ Len(q) \in Nat /\ Len(q) <= Len(p)
         /\ Len(p) <= Len(q) => p = q
<1>1. PICK S : p \in Seq(S) /\ q \in Seq(S) BY PathsOfNames
<1>2. Len(q) <= Len(p) /\ SubSeq(q, 1, Len(q)) = SubSeq(p, 1, Len(q))
  BY DEF Under, SX!IsPrefix
<1>3. SubSeq(q, 1, Len(q)) = q /\ SubSeq(p, 1, Len(p)) = p BY <1>1
<1>4. Len(p) \in Nat /\ Len(q) \in Nat BY <1>1
<1>5. ASSUME Len(p) <= Len(q) PROVE p = q
  <2>1. Len(p) = Len(q) BY <1>2, <1>4, <1>5
  <2> QED BY <1>2, <1>3, <2>1
<1> QED BY <1>2, <1>4, <1>5

\* What is mounted on a path decides what is seen there, as long as everything
\* that is mounted on it has one source.
LEMMA MountedIsSeen ==
  ASSUME NEW spec, NEW path, IsPath(path), NEW src, IsPath(src),
         \A m \in Mounts(spec) : IsPath(m.dst),
         \E m \in Mounts(spec) : m.dst = path,
         \A m \in Mounts(spec) : m.dst = path => m.src = src
  PROVE  Sees(spec, path) = src
<1> DEFINE over == {m \in Mounts(spec) : Under(path, m.dst)}
           deepest == CHOOSE m \in over : \A n \in over : Len(n.dst) <= Len(m.dst)
<1>1. PICK own \in Mounts(spec) : own.dst = path OBVIOUS
<1>2. own \in over BY <1>1, SelfIsUnder
<1>3. \A n \in over : Len(n.dst) <= Len(own.dst)
  <2> TAKE n \in over
  <2>1. Under(path, n.dst) /\ IsPath(n.dst) OBVIOUS
  <2> QED BY <1>1, <2>1, UnderIsLonger
<1>4. deepest \in over /\ \A n \in over : Len(n.dst) <= Len(deepest.dst) BY <1>2, <1>3, Zenon
<1>5. Sees(spec, path) = IF over = {} THEN <<"the image">>
                         ELSE deepest.src \o SubSeq(path, Len(deepest.dst) + 1, Len(path))
  BY DEF Sees
<1> HIDE DEF deepest
<1>6. deepest \in Mounts(spec) /\ Under(path, deepest.dst) /\ Len(path) <= Len(deepest.dst)
  BY <1>1, <1>2, <1>4
<1> HIDE DEF over
<1>7. IsPath(deepest.dst) BY <1>6
<1>8. deepest.dst = path BY <1>6, <1>7, UnderIsLonger
<1>9. deepest.src = src BY <1>6, <1>8
<1>10. Sees(spec, path) = src \o SubSeq(path, Len(path) + 1, Len(path)) BY <1>2, <1>5, <1>8, <1>9
<1>11. PICK S : path \in Seq(S) /\ src \in Seq(S) BY PathsOfNames
<1>12. SubSeq(path, Len(path) + 1, Len(path)) = <<>> BY <1>11
<1>13. src \o <<>> = src BY <1>11
<1> QED BY <1>10, <1>12, <1>13

\* Every mount is at a path.
LEMMA MountTargets ==
  ASSUME NEW spec, \A dir \in HostDirs(spec.host) : IsPath(dir),
         \A i \in DOMAIN spec.volumes : IsPath(spec.volumes[i].dst),
         NEW m \in Mounts(spec)
  PROVE  IsPath(m.dst)
<1> DEFINE c == spec.host
           home == HomeTarget(c)
<1>1. IsPath(home) BY TuplesArePaths DEF HomeTarget
<1>2. CASE m \in HomeMount(c) BY <1>1, <1>2 DEF HomeMount, Bind
<1>3. CASE m \in ProjectMounts(c)
  <2>1. m.dst \in projectTargets(c) BY <1>3 DEF ProjectMounts, Bind
  <2>2. IsPath(c.baseDir) BY DEF HostDirs
  <2>3. IsPath(ProjectMountPath(c)) BY <2>2, TuplesArePaths, JoinedPaths DEF ProjectMountPath
  <2>4. IsPath(<<c.cellName>>) /\ IsPath(ShortProjectPath(c))
    BY TuplesArePaths DEF ShortProjectPath
  <2> QED BY <2>1, <2>2, <2>3, <2>4 DEF projectTargets
<1>4. CASE m \in SystemMounts(spec)
  <2>1. CASE m \in AgentMounts(c)
    <3>1. \/ m.dst = home \o <<".claude", "commands">> \/ m.dst = home \o <<".claude", "agents">>
          \/ m.dst = <<"etc", "devcell", "config">> \/ m.dst = home \o <<".config", "devcell">>
      BY <2>1, SMTT(30) DEF AgentMounts, Bind
    <3>2. /\ IsPath(<<".claude", "commands">>) /\ IsPath(<<".claude", "agents">>)
          /\ IsPath(<<"etc", "devcell", "config">>) /\ IsPath(<<".config", "devcell">>)
      BY TuplesArePaths
    <3> HIDE DEF home
    <3> QED BY <1>1, <3>1, <3>2, JoinedPaths
  <2>2. CASE m \notin AgentMounts(c)
    <3>1. \/ m.dst = DockerSocket \/ m.dst = <<"nix">> \/ m.dst = <<"tmp", "devcell-boot">>
      BY <1>4, <2>2 DEF SystemMounts, Optional, Bind
    <3>2. IsPath(DockerSocket) /\ IsPath(<<"nix">>) /\ IsPath(<<"tmp", "devcell-boot">>)
      BY TuplesArePaths DEF DockerSocket
    <3> QED BY <3>1, <3>2
  <2> QED BY <2>1, <2>2
<1>5. CASE m \in UserMounts(spec) BY <1>5 DEF UserMounts
<1>6. CASE m \in WireguardMount(spec)
  <2>1. m.dst = home \o <<".devcell", c.workspace, ".wg">>
    <3>1. m = Bind(c.workspaceHome \o <<".wg">>, home \o <<".devcell", c.workspace, ".wg">>)
      BY <1>6, Zenon DEF WireguardMount, Optional
    <3> QED BY <3>1, Zenon DEF Bind
  <2>2. IsPath(<<".devcell", c.workspace, ".wg">>) BY TuplesArePaths
  <2> HIDE DEF home
  <2> QED BY <1>1, <2>1, <2>2, JoinedPaths
<1> QED BY <1>2, <1>3, <1>4, <1>5, <1>6, MountSources

\* The home is mounted first, and then the project.
LEMMA FirstMounts ==
  ASSUME NEW spec, NEW m \in Mounts(spec)
  PROVE  /\ m \in HomeMount(spec.host) \/ \A n \in HomeMount(spec.host) : n.dst # m.dst
         /\ \/ m \in HomeMount(spec.host) \cup ProjectMounts(spec.host)
            \/ \A n \in ProjectMounts(spec.host) : n.dst # m.dst
BY DEF Mounts, Over

\* MountsAsPromised, for any workspace, project and volumes.
THEOREM MountsArePromised == RulesSpec => []MountsAsPromised
<1>1. Applied => MountsAsPromised
  <2> DEFINE host == input.host
             home == HomeTarget(host)
             dir == ProjectDir(input)
  <2> SUFFICES ASSUME input \in MountInputs
               PROVE  /\ Sees(input, home) = host.workspaceHome
                      /\ ~Nested(host, dir) /\ dir # home => Sees(input, dir) = host.baseDir
    BY Zenon DEF Applied, Inputs, MountsAsPromised
  <2>1. /\ \A d \in HostDirs(host) : IsPath(d)
        /\ \A i \in DOMAIN input.volumes : IsPath(input.volumes[i].dst)
    BY MountAssumption
  <2>2. \A m \in Mounts(input) : IsPath(m.dst) BY <2>1, MountTargets
  <2>3. IsPath(host.baseDir) /\ IsPath(host.workspaceHome) BY <2>1 DEF HostDirs
  <2>4. Sees(input, home) = host.workspaceHome
    <3>1. IsPath(home) BY TuplesArePaths DEF HomeTarget
    <3>2. HomeMount(host) = {Bind(host.workspaceHome, home)} BY DEF HomeMount
    <3>3. Bind(host.workspaceHome, home) \in Mounts(input) BY <3>2 DEF Mounts, Over
    <3> HIDE DEF home
    <3>4. Bind(host.workspaceHome, home).dst = home /\ Bind(host.workspaceHome, home).src = host.workspaceHome
      BY DEF Bind
    <3>5. \A m \in Mounts(input) : m.dst = home => m.src = host.workspaceHome
      BY <3>2, <3>4, FirstMounts
    <3> QED BY <2>2, <2>3, <3>1, <3>3, <3>4, <3>5, MountedIsSeen
  <2>5. ASSUME ~Nested(host, dir), dir # home PROVE Sees(input, dir) = host.baseDir
    <3>1. dir = ProjectMountPath(host) \/ dir = ShortProjectPath(host) BY DEF ProjectDir
    <3>2. IsPath(dir) BY <2>3, <3>1, TuplesArePaths, JoinedPaths DEF ProjectMountPath, ShortProjectPath
    <3>3. dir \in projectTargets(host) BY <3>1 DEF projectTargets
    <3> DEFINE own == Bind(host.baseDir, dir)
    <3>4. own \in ProjectMounts(host) BY <2>5, <3>3 DEF ProjectMounts
    <3>5. own.dst = dir BY DEF Bind
    <3> HIDE DEF own, dir
    <3>6. \A n \in HomeMount(host) : n.dst = home BY DEF HomeMount, Bind
    <3>7. own \in Mounts(input) BY <2>5, <3>4, <3>5, <3>6 DEF Mounts, Over
    <3>8. \A m \in ProjectMounts(host) : m.src = host.baseDir BY DEF ProjectMounts, Bind
    <3>9. \A m \in Mounts(input) : m.dst = dir => m.src = host.baseDir
      BY <2>5, <3>4, <3>5, <3>6, <3>8, FirstMounts
    <3> QED BY <2>2, <2>3, <3>2, <3>5, <3>7, <3>9, MountedIsSeen
  <2> QED BY <2>4, <2>5
<1> QED BY <1>1, RulesApply, PTL

-----------------------------------------------------------------------------
(* ServeRequests: the three ways to answer one request. *)

\* What a request is for, whatever way its answer is given.
Asks(req, other) ==
    /\ req.model = other.model /\ req.input = other.input
    /\ req.instructions = other.instructions /\ req.effort = other.effort
    /\ req.temperature = other.temperature /\ req.parallel = other.parallel

\* The request in another way of answering.
InMode(body, stream, background) ==
    [body EXCEPT !.stream = stream, !.background = background]

\* A request in one of the modes asks for the same, can be read, and has its mode.
LEMMA ModesOfRequest ==
    ASSUME NEW body, NEW stream \in BOOLEAN, NEW background \in BOOLEAN,
           body \in Serve!ResponsesRequest({body.model}, {body.input}, {body.instructions},
                                           {body.effort})
    PROVE  LET req == InMode(body, stream, background)
           IN /\ Asks(req, body) /\ ~Serve!unread(req)
              /\ req.stream = stream /\ req.background = background
BY DEF Serve!ResponsesRequest, InMode, Asks, Serve!unread

\* The object of an answer depends on what is asked and on what came out.
LEMMA SameObject ==
    ASSUME NEW req, NEW other, Asks(req, other),
           NEW status, NEW text, NEW error, NEW usage
    PROVE  Serve!ResponsesObject(req, status, text, error, usage)
           = Serve!ResponsesObject(other, status, text, error, usage)
BY Zenon DEF Asks, Serve!ResponsesObject

\* The keys of a response object are what it was made from, ...
LEMMA ObjectKeys ==
    ASSUME NEW req, NEW status, NEW text, NEW error, NEW usage
    PROVE  LET object == Serve!ResponsesObject(req, status, text, error, usage)
           IN /\ object.status = status /\ object.text = text /\ object.error = error
              /\ object.usage = Serve!responsesUsageFromExec(usage)
<1> DEFINE m == req.model
           u == Serve!responsesUsageFromExec(usage)
           i == req.instructions
           t == IF req.temperature = "absent" THEN "1.0" ELSE req.temperature
           p == req.parallel = "absent"
<1>1. Serve!ResponsesObject(req, status, text, error, usage)
      = [model |-> m, status |-> status, text |-> text, error |-> error, usage |-> u,
         instructions |-> i, temperature |-> t, parallel |-> p]
  BY Zenon DEF Serve!ResponsesObject
<1> HIDE DEF m, u, i, t, p
<1> QED
  BY <1>1 DEF u

\* ... also when it is streamed, ...
LEMMA StreamedKeys ==
    ASSUME NEW req, NEW status, NEW text, NEW error, NEW usage
    PROVE  LET object == Serve!StreamedObject(req, status, text, error, usage)
           IN /\ object.status = status /\ object.text = text /\ object.error = error
              /\ object.usage = Serve!responsesUsageFromExec(usage)
<1> DEFINE o == Serve!ResponsesObject(req, status, text, error, usage)
<1>1. PICK t, i : Serve!StreamedObject(req, status, text, error, usage)
                  = [o EXCEPT !.temperature = t, !.parallel = FALSE, !.instructions = i]
  BY Zenon DEF Serve!StreamedObject
<1>2. /\ o.status = status /\ o.text = text /\ o.error = error
      /\ o.usage = Serve!responsesUsageFromExec(usage)
  BY ObjectKeys
<1>3. DOMAIN o = {"model", "status", "text", "error", "usage", "instructions", "temperature",
                  "parallel"}
  BY Zenon DEF Serve!ResponsesObject
<1> HIDE DEF o
<1> QED
  BY <1>1, <1>2, <1>3

\* A job stores what a request that waits is answered with.
LEMMA JobIsAnswer ==
    ASSUME NEW req, NEW other, Asks(req, other), NEW result
    PROVE  /\ Serve!runBackgroundJob(req, result) = Serve!Buffered(other, result)
           /\ Serve!Buffered(req, result) = Serve!Buffered(other, result)
<1>1. CASE result.exit # 0
  BY <1>1, SameObject DEF Serve!runBackgroundJob, Serve!Buffered
<1>2. CASE result.exit = 0
  BY <1>2, SameObject DEF Serve!runBackgroundJob, Serve!Buffered
<1> QED
  BY <1>1, <1>2

\* ... and when it is made from the result of an agent that was waited for.
LEMMA BufferedKeys ==
    ASSUME NEW req, NEW result
    PROVE  LET object == Serve!Buffered(req, result)
           IN /\ object.usage = Serve!responsesUsageFromExec(result.usage)
              /\ result.exit # 0 =>
                    /\ object.status = "failed" /\ object.text = <<>>
                    /\ object.error # <<>>
              /\ result.exit = 0 =>
                    /\ object.status = "completed" /\ object.text = result.stdout
                    /\ object.error = <<>>
<1> DEFINE message == IF result.stderr = <<>> THEN <<"agent", "failed">> ELSE result.stderr
<1>1. message # <<>>
  <2>1. <<"agent", "failed">> # <<>>
    OBVIOUS
  <2> QED
    BY <2>1, Zenon
<1>2. CASE result.exit # 0
  <2>1. Serve!Buffered(req, result)
        = Serve!ResponsesObject(req, "failed", <<>>, message, result.usage)
    BY <1>2, Zenon DEF Serve!Buffered
  <2> HIDE DEF message
  <2> QED
    BY <1>1, <1>2, <2>1, ObjectKeys
<1>3. CASE result.exit = 0
  <2>1. Serve!Buffered(req, result)
        = Serve!ResponsesObject(req, "completed", result.stdout, <<>>, result.usage)
    BY <1>3, Zenon DEF Serve!Buffered
  <2> QED
    BY <1>3, <2>1, ObjectKeys
<1> QED
  BY <1>2, <1>3, Zenon

\* The keys of an agent's result.
LEMMA ResultKeys ==
    ASSUME NEW exit, NEW stdout, NEW stderr, NEW usage
    PROVE  LET result == Serve!ExecResult(exit, stdout, stderr, usage)
           IN /\ result.exit = exit /\ result.stdout = stdout
              /\ result.stderr = stderr /\ result.usage = usage
BY DEF Serve!ExecResult

\* When claude's last word and its exit status agree, what is streamed of a run
\* has the status, the usage, the text and the failure of what is waited for.
LEMMA StreamAgrees ==
    ASSUME NEW req, NEW other, NEW opts, NEW agent, opts.agent = "claude",
           agent.found \in BOOLEAN, agent.envelope \in BOOLEAN,
           agent.envelope <=> agent.exit = 0
    PROVE  LET streamed == Serve!Streamed(req, agent)
               waited == Serve!Buffered(other, Serve!ShellRun(opts, agent))
           IN /\ streamed.status = waited.status /\ streamed.usage = waited.usage
              /\ agent.deltas = agent.text /\ streamed.status = "completed" =>
                    streamed.text = waited.text
              /\ waited.error = <<>> <=> streamed.error = <<>>
<1> DEFINE streamed == Serve!Streamed(req, agent)
           result == Serve!ShellRun(opts, agent)
           waited == Serve!Buffered(other, result)
<1>1. "failed" # "completed" /\ 1 # 0
  OBVIOUS
<1>2. CASE ~agent.found
  <2>1. result = Serve!ExecResult(1, <<>>, <<"not", "found">>, Serve!NoUsage)
    BY <1>2, Zenon DEF Serve!ShellRun
  <2>2. result.exit # 0 /\ result.usage = Serve!NoUsage
    <3>1. result.exit = 1 /\ result.usage = Serve!NoUsage
      BY <2>1, ResultKeys
    <3> QED
      BY <1>1, <3>1
  <2>3. streamed = Serve!StreamedObject(req, "failed", <<>>, <<"not", "found">>, Serve!NoUsage)
    BY <1>2, Zenon DEF Serve!Streamed
  <2>4. <<"not", "found">> # <<>>
    OBVIOUS
  <2> HIDE DEF streamed, result
  <2>5. /\ streamed.status = "failed" /\ streamed.error # <<>>
        /\ streamed.usage = Serve!responsesUsageFromExec(Serve!NoUsage)
    BY <2>3, <2>4, StreamedKeys, SMTT(60)
  <2>6. /\ waited.status = "failed" /\ waited.error # <<>>
        /\ waited.usage = Serve!responsesUsageFromExec(Serve!NoUsage)
    BY <2>2, BufferedKeys
  <2> QED
    BY <1>1, <2>5, <2>6, Zenon DEF streamed, result
<1>3. CASE agent.found /\ agent.exit # 0
  <2>1. result = Serve!ExecResult(agent.exit, Serve!raw(agent), agent.stderr, Serve!NoUsage)
    BY <1>3, Zenon DEF Serve!ShellRun
  <2>2. result.exit # 0 /\ result.usage = Serve!NoUsage
    BY <1>3, <2>1, ResultKeys
  <2>3. streamed = Serve!StreamedObject(req, "failed", <<>>, <<"claude", "exited">>, Serve!NoUsage)
    BY <1>3, Zenon DEF Serve!Streamed
  <2>4. <<"claude", "exited">> # <<>>
    OBVIOUS
  <2> HIDE DEF streamed, result
  <2>5. /\ streamed.status = "failed" /\ streamed.error # <<>>
        /\ streamed.usage = Serve!responsesUsageFromExec(Serve!NoUsage)
    BY <2>3, <2>4, StreamedKeys
  <2>6. /\ waited.status = "failed" /\ waited.error # <<>>
        /\ waited.usage = Serve!responsesUsageFromExec(Serve!NoUsage)
    BY <2>2, BufferedKeys
  <2> QED
    BY <1>1, <2>5, <2>6, Zenon DEF streamed, result
<1>4. CASE agent.found /\ agent.exit = 0
  <2>1. result = Serve!ExecResult(0, agent.text, agent.stderr, agent.usage)
    <3>1. result = Serve!parseClaudeJSON(agent)
      BY <1>4, Zenon DEF Serve!ShellRun
    <3> QED
      BY <1>4, <3>1, Zenon DEF Serve!parseClaudeJSON
  <2>2. result.exit = 0 /\ result.usage = agent.usage /\ result.stdout = agent.text
    BY <2>1, ResultKeys
  <2>3. streamed = Serve!StreamedObject(req, "completed", agent.deltas, <<>>, agent.usage)
    BY <1>4, Zenon DEF Serve!Streamed
  <2> HIDE DEF streamed, result
  <2>4. /\ streamed.status = "completed" /\ streamed.error = <<>> /\ streamed.text = agent.deltas
        /\ streamed.usage = Serve!responsesUsageFromExec(agent.usage)
    BY <2>3, StreamedKeys
  <2>5. /\ waited.status = "completed" /\ waited.error = <<>> /\ waited.text = agent.text
        /\ waited.usage = Serve!responsesUsageFromExec(agent.usage)
    BY <2>2, BufferedKeys
  <2> QED
    BY <2>4, <2>5, Zenon DEF streamed, result
<1> QED
  BY <1>2, <1>3, <1>4, Zenon

\* The keys of a reply.
LEMMA ReplyKeys ==
    ASSUME NEW status, NEW body, NEW starts, NEW job, NEW reply,
           reply = Serve!Reply(status, body, starts, job)
    PROVE  /\ reply.status = status /\ reply.body = body
           /\ reply.starts = starts /\ reply.job = job
BY DEF Serve!Reply

\* The handler looks at the way of answering only once the request is accepted.
PromptOf(body) == Serve!buildPrompt(body.instructions, body.input)
IsAccepted(body) ==
    /\ body.model # <<>> /\ Serve!route(body.model) # "none" /\ PromptOf(body).error = "none"
OptsOf(server, body) ==
    Serve!ExecOpts(server, body.model, PromptOf(body).prompt, body.effort)

\* A request that is not acceptable is refused alike in every mode; one that is
\* acceptable reaches the handler of its mode.
LEMMA HandledInMode ==
    ASSUME NEW server, NEW agent, NEW body, NEW req, Asks(req, body), ~Serve!unread(req),
           ~Serve!unread(body)
    PROVE  /\ ~IsAccepted(body) =>
                /\ Serve!NewResponsesHandler(server, "POST", req, agent)
                   = Serve!NewResponsesHandler(server, "POST", body, agent)
                /\ Serve!NewResponsesHandler(server, "POST", body, agent).status = 400
           /\ IsAccepted(body) =>
                Serve!NewResponsesHandler(server, "POST", req, agent)
                = Serve!ResponsesMode(req, OptsOf(server, body), agent)
<1> DEFINE prompt == PromptOf(body)
           handled(r) == Serve!NewResponsesHandler(server, "POST", r, agent)
<1>1. \A code : Serve!Refusal(400, code).status = 400
  BY ReplyKeys DEF Serve!Refusal
<1>2. prompt = PromptOf(req) /\ req.model = body.model /\ req.effort = body.effort
  BY Zenon DEF Asks, PromptOf
<1>3. \A r : ~Serve!unread(r) =>
        handled(r) = IF r.model = <<>> THEN Serve!Refusal(400, "model_required")
                     ELSE IF Serve!route(r.model) = "none"
                     THEN Serve!Refusal(400, "unknown_model")
                     ELSE IF PromptOf(r).error # "none"
                     THEN Serve!Refusal(400, PromptOf(r).error)
                     ELSE Serve!ResponsesMode(r, OptsOf(server, r), agent)
  BY Zenon DEF Serve!NewResponsesHandler, PromptOf, OptsOf
<1> HIDE DEF handled
<1>4. CASE ~IsAccepted(body)
  <2> SUFFICES handled(req) = handled(body) /\ handled(body).status = 400
    BY <1>4, Zenon DEF handled
  <2>1. CASE body.model = <<>>
    <3>1. /\ handled(req) = Serve!Refusal(400, "model_required")
          /\ handled(body) = Serve!Refusal(400, "model_required")
      BY <1>2, <1>3, <2>1, Zenon
    <3> QED
      BY <1>1, <3>1
  <2>2. CASE body.model # <<>> /\ Serve!route(body.model) = "none"
    <3>1. /\ handled(req) = Serve!Refusal(400, "unknown_model")
          /\ handled(body) = Serve!Refusal(400, "unknown_model")
      BY <1>2, <1>3, <2>2, Zenon
    <3> QED
      BY <1>1, <3>1
  <2>3. CASE body.model # <<>> /\ Serve!route(body.model) # "none" /\ prompt.error # "none"
    <3>1. handled(body) = Serve!Refusal(400, PromptOf(body).error)
      BY <1>3, <2>3, Zenon
    <3>2. req.model # <<>> /\ Serve!route(req.model) # "none" /\ PromptOf(req).error # "none"
      BY <1>2, <2>3, Zenon
    <3>3. handled(req) = Serve!Refusal(400, PromptOf(req).error)
      BY <1>3, <3>2, Zenon
    <3>4. handled(req) = handled(body)
      BY <1>2, <3>1, <3>3, Zenon
    <3> QED
      BY <1>1, <3>1, <3>4
  <2> QED
    BY <1>4, <2>1, <2>2, <2>3, Zenon DEF IsAccepted
<1>5. CASE IsAccepted(body)
  BY <1>2, <1>3, <1>5, Zenon DEF handled, IsAccepted, OptsOf
<1> QED
  BY <1>4, <1>5, Zenon

\* What the server makes of a request for an answer that has the key.
LEMMA ResponsesHandled ==
    ASSUME NEW server, NEW agent, NEW req
    PROVE  Serve!Handle(server, [path |-> "/v1/responses", method |-> "POST",
                                 header |-> <<"Bearer", server.key>>, body |-> req], agent)
           = Serve!NewResponsesHandler(server, "POST", req, agent)
<1> DEFINE r == [path |-> "/v1/responses", method |-> "POST",
                 header |-> <<"Bearer", server.key>>, body |-> req]
<1>1. r.path = "/v1/responses" /\ r.method = "POST" /\ r.header = <<"Bearer", server.key>>
      /\ r.body = req
  OBVIOUS
<1>2. "/v1/responses" # "/v1/chat/completions"
  OBVIOUS
<1> HIDE DEF r
<1>3. Serve!Handle(server, r, agent)
      = Serve!AuthMiddleware(server, r.header,
                             Serve!NewResponsesHandler(server, r.method, r.body, agent))
  BY <1>1, <1>2, Zenon DEF Serve!Handle
<1> QED
  BY <1>1, <1>3, Zenon DEF Serve!AuthMiddleware, r

\* The three answers to an accepted request: waited for, by a job, streamed.
Answered(agent, opts, wreq, jreq, sreq, waited, job, streamed) ==
    LET result == Serve!ShellRun(opts, agent)
        argv == <<Serve!Argv(opts, "json")>>
    IN /\ agent.found \in BOOLEAN /\ agent.envelope \in BOOLEAN
       /\ Asks(jreq, wreq) /\ Asks(sreq, wreq)
       /\ waited = Serve!Reply(200, Serve!Buffered(wreq, result), argv, "none")
       /\ job = Serve!Reply(202, Serve!writeBackgroundStub(jreq), argv,
                            Serve!runBackgroundJob(jreq, result))
       /\ opts.agent = "claude" => \E starts :
            streamed = Serve!Reply(200, Serve!Streamed(sreq, agent), starts, "none")
       /\ opts.agent # "claude" =>
            streamed = Serve!Reply(200, Serve!Buffered(sreq, result), argv, "none")

\* What they have in common.
LEMMA AnsweredAlike ==
    ASSUME NEW agent, NEW opts, NEW wreq, NEW jreq, NEW sreq,
           NEW waited, NEW job, NEW streamed,
           Answered(agent, opts, wreq, jreq, sreq, waited, job, streamed)
    PROVE  /\ waited.status = 200 /\ job.status = 202 /\ job.job = waited.body
           /\ job.starts = waited.starts
           /\ (agent.envelope <=> agent.exit = 0) =>
                /\ streamed.body.status = waited.body.status
                /\ streamed.body.usage = waited.body.usage
                /\ agent.deltas = agent.text /\ streamed.body.status = "completed" =>
                     streamed.body.text = waited.body.text
                /\ waited.body.error = <<>> <=> streamed.body.error = <<>>
<1> DEFINE result == Serve!ShellRun(opts, agent)
           argv == <<Serve!Argv(opts, "json")>>
           alike == /\ streamed.body.status = waited.body.status
                    /\ streamed.body.usage = waited.body.usage
                    /\ agent.deltas = agent.text /\ streamed.body.status = "completed" =>
                     streamed.body.text = waited.body.text
                    /\ waited.body.error = <<>> <=> streamed.body.error = <<>>
<1>a. /\ agent.found \in BOOLEAN /\ agent.envelope \in BOOLEAN
      /\ Asks(jreq, wreq) /\ Asks(sreq, wreq)
      /\ waited = Serve!Reply(200, Serve!Buffered(wreq, result), argv, "none")
      /\ job = Serve!Reply(202, Serve!writeBackgroundStub(jreq), argv,
                           Serve!runBackgroundJob(jreq, result))
      /\ opts.agent = "claude" => \E starts :
            streamed = Serve!Reply(200, Serve!Streamed(sreq, agent), starts, "none")
      /\ opts.agent # "claude" =>
            streamed = Serve!Reply(200, Serve!Buffered(sreq, result), argv, "none")
  BY Zenon DEF Answered
<1> HIDE DEF result, argv
<1>1. waited.status = 200 /\ waited.body = Serve!Buffered(wreq, result) /\ waited.starts = argv
  BY <1>a, Zenon DEF Serve!Reply
<1>2. job.status = 202 /\ job.job = Serve!runBackgroundJob(jreq, result) /\ job.starts = argv
  BY <1>a, Zenon DEF Serve!Reply
<1>3. job.job = waited.body
  <2>1. Serve!runBackgroundJob(jreq, result) = Serve!Buffered(wreq, result)
    BY <1>a, JobIsAnswer
  <2> QED
    BY <1>1, <1>2, <2>1
<1>4. ASSUME opts.agent = "claude", agent.envelope <=> agent.exit = 0 PROVE alike
  <2>1. streamed.body = Serve!Streamed(sreq, agent)
    <3>1. PICK starts : streamed = Serve!Reply(200, Serve!Streamed(sreq, agent), starts, "none")
      BY <1>a, <1>4, Zenon
    <3> QED
      BY <3>1, Zenon DEF Serve!Reply
  <2>2. LET s == Serve!Streamed(sreq, agent)
            w == Serve!Buffered(wreq, result)
        IN /\ s.status = w.status /\ s.usage = w.usage
           /\ agent.deltas = agent.text /\ s.status = "completed" => s.text = w.text
           /\ w.error = <<>> <=> s.error = <<>>
    BY <1>a, <1>4, StreamAgrees DEF result
  <2> QED
    BY <1>1, <2>1, <2>2
<1>5. ASSUME opts.agent # "claude" PROVE alike
  <2>1. streamed.body = Serve!Buffered(sreq, result)
    <3>1. streamed = Serve!Reply(200, Serve!Buffered(sreq, result), argv, "none")
      BY <1>a, <1>5, Zenon
    <3> QED
      BY <3>1, Zenon DEF Serve!Reply
  <2>2. Serve!Buffered(sreq, result) = Serve!Buffered(wreq, result)
    BY <1>a, JobIsAnswer
  <2>3. streamed.body = waited.body
    BY <1>1, <2>1, <2>2
  <2> QED
    BY <2>3, Zenon
<1>6. (agent.envelope <=> agent.exit = 0) => alike
  BY <1>4, <1>5, Zenon
<1> QED
  BY <1>1, <1>2, <1>3, <1>6

\* An answer is the same whichever way the client takes it: it waits for it,
\* it polls the job or it reads the stream.
THEOREM AnswersAreTheSame == RulesSpec => []AnswersAgree
<1>1. ASSUME Applied PROVE AnswersAgree
  <2> DEFINE body == input.body
             agent == input.agent
             answer(stream, background) ==
                Serve!Handle(input.server,
                    [path |-> "/v1/responses", method |-> "POST",
                     header |-> <<"Bearer", input.server.key>>,
                     body |-> [body EXCEPT !.stream = stream, !.background = background]],
                    agent)
             waited == answer(FALSE, FALSE)
             job == answer(FALSE, TRUE)
             streamed == answer(TRUE, FALSE)
             accepted == IsAccepted(body)
             opts == OptsOf(input.server, body)
             same(key) == streamed.body[key] = waited.body[key]
  <2> SUFFICES ASSUME topic = "answers"
               PROVE  IF waited.status # 200
                      THEN job = waited /\ streamed = waited
                      ELSE /\ job.status = 202 /\ job.job = waited.body
                           /\ job.starts = waited.starts
                           /\ agent.envelope = (agent.exit = 0) =>
                                /\ same("status") /\ same("usage")
                                /\ streamed.body.status = "completed" =>
                                     same("text") \/ agent.deltas # agent.text
                                /\ (waited.body.error = <<>>) = (streamed.body.error = <<>>)
    BY Zenon DEF AnswersAgree
  <2>1. /\ body \in Serve!ResponsesRequest({body.model}, {body.input}, {body.instructions},
                                           {body.effort})
        /\ agent.found \in BOOLEAN /\ agent.envelope \in BOOLEAN
    BY <1>1, AnswerAssumption DEF Applied, Inputs
  <2>2. \A s, b \in BOOLEAN :
            LET req == InMode(body, s, b)
            IN /\ Asks(req, body) /\ ~Serve!unread(req) /\ req.stream = s /\ req.background = b
               /\ answer(s, b) = Serve!NewResponsesHandler(input.server, "POST", req, agent)
    <3>1. \A s, b \in BOOLEAN : answer(s, b) = Serve!NewResponsesHandler(input.server, "POST", InMode(body, s, b), agent)
      BY ResponsesHandled, Zenon DEF InMode
    <3> QED
      BY <2>1, <3>1, ModesOfRequest
  <2>3. ~Serve!unread(body)
    BY <2>1 DEF Serve!unread, Serve!ResponsesRequest
  <2> HIDE DEF body, agent, answer
  <2>4. \A s, b \in BOOLEAN :
            /\ ~accepted => /\ answer(s, b) = Serve!NewResponsesHandler(input.server, "POST", body, agent)
                            /\ answer(s, b).status = 400
            /\ accepted => answer(s, b) = Serve!ResponsesMode(InMode(body, s, b), opts, agent)
    <3> TAKE s, b \in BOOLEAN
    <3> DEFINE req == InMode(body, s, b)
    <3>1. Asks(req, body) /\ ~Serve!unread(req)
      BY <2>2, Zenon
    <3>2. answer(s, b) = Serve!NewResponsesHandler(input.server, "POST", req, agent)
      BY <2>2, Zenon
    <3> HIDE DEF req
    <3>3. /\ ~IsAccepted(body) =>
            /\ Serve!NewResponsesHandler(input.server, "POST", req, agent)
               = Serve!NewResponsesHandler(input.server, "POST", body, agent)
            /\ Serve!NewResponsesHandler(input.server, "POST", body, agent).status = 400
          /\ IsAccepted(body) =>
            Serve!NewResponsesHandler(input.server, "POST", req, agent)
            = Serve!ResponsesMode(req, OptsOf(input.server, body), agent)
      BY <2>3, <3>1, HandledInMode
    <3> HIDE DEF opts
    <3> QED
      BY <3>2, <3>3 DEF req, opts
  <2>5. CASE ~accepted
    <3>1. waited = job /\ waited = streamed /\ waited.status = 400
      BY <2>4, <2>5, ZenonT(60)
    <3>2. 400 # 200
      OBVIOUS
    <3> HIDE DEF waited, job, streamed, same
    <3> QED
      BY <3>1, <3>2
  <2>6. CASE accepted
    <3> DEFINE wreq == InMode(body, FALSE, FALSE)
               jreq == InMode(body, FALSE, TRUE)
               sreq == InMode(body, TRUE, FALSE)
    <3>1. /\ waited = Serve!ResponsesMode(wreq, opts, agent) /\ ~wreq.stream /\ ~wreq.background
          /\ job = Serve!ResponsesMode(jreq, opts, agent) /\ ~jreq.stream /\ jreq.background
          /\ streamed = Serve!ResponsesMode(sreq, opts, agent) /\ sreq.stream /\ ~sreq.background
      <4>1. /\ waited = Serve!ResponsesMode(wreq, opts, agent)
            /\ job = Serve!ResponsesMode(jreq, opts, agent)
            /\ streamed = Serve!ResponsesMode(sreq, opts, agent)
        BY <2>4, <2>6
      <4>2. /\ wreq.stream = FALSE /\ wreq.background = FALSE
            /\ jreq.stream = FALSE /\ jreq.background = TRUE
            /\ sreq.stream = TRUE /\ sreq.background = FALSE
        BY <2>2
      <4> QED
        BY <4>1, <4>2
    <3>2. Asks(wreq, body) /\ Asks(jreq, body) /\ Asks(sreq, body)
      BY <2>2, Zenon
    <3> HIDE DEF wreq, jreq, sreq, waited, job, streamed, opts
    <3>3. Asks(jreq, wreq) /\ Asks(sreq, wreq)
      BY <3>2, Zenon DEF Asks
    <3>4. waited = Serve!Reply(200, Serve!Buffered(wreq, Serve!ShellRun(opts, agent)),
                               <<Serve!Argv(opts, "json")>>, "none")
      BY <3>1, Zenon DEF Serve!ResponsesMode
    <3>5. job = Serve!Reply(202, Serve!writeBackgroundStub(jreq), <<Serve!Argv(opts, "json")>>,
                            Serve!runBackgroundJob(jreq, Serve!ShellRun(opts, agent)))
      BY <3>1, Zenon DEF Serve!ResponsesMode
    <3>6. opts.agent = "claude" => \E starts :
            streamed = Serve!Reply(200, Serve!Streamed(sreq, agent), starts, "none")
      BY <3>1, Zenon DEF Serve!ResponsesMode
    <3>7. opts.agent # "claude" =>
            streamed = Serve!Reply(200, Serve!Buffered(sreq, Serve!ShellRun(opts, agent)),
                                   <<Serve!Argv(opts, "json")>>, "none")
      BY <3>1, Zenon DEF Serve!ResponsesMode
    <3>8. Answered(agent, opts, wreq, jreq, sreq, waited, job, streamed)
      <4>1. agent.found \in BOOLEAN /\ agent.envelope \in BOOLEAN
        BY <2>1, Zenon
      <4> QED
        BY <3>3, <3>4, <3>5, <3>6, <3>7, <4>1, Zenon DEF Answered
    <3>9. /\ waited.status = 200 /\ job.status = 202 /\ job.job = waited.body
          /\ job.starts = waited.starts
          /\ (agent.envelope <=> agent.exit = 0) =>
                /\ streamed.body.status = waited.body.status
                /\ streamed.body.usage = waited.body.usage
                /\ agent.deltas = agent.text /\ streamed.body.status = "completed" =>
                     streamed.body.text = waited.body.text
                /\ waited.body.error = <<>> <=> streamed.body.error = <<>>
      BY <3>8, AnsweredAlike
    <3> QED
      BY <3>9
  <2> QED
    BY <2>5, <2>6, Zenon
<1> QED
  BY <1>1, RulesApply, PTL

-----------------------------------------------------------------------------
(* ServeRequests: the models that are listed. *)

\* What the server makes of a request for its models, and of a chat.
LEMMA ModelsHandled ==
    ASSUME NEW server, NEW agent, NEW body
    PROVE  Serve!Handle(server, [path |-> "/v1/models", method |-> "GET",
                                 header |-> <<"Bearer", server.key>>, body |-> body], agent).body
           = Serve!DiscoverModels(server.installed, server.api)
<1> DEFINE r == [path |-> "/v1/models", method |-> "GET",
                 header |-> <<"Bearer", server.key>>, body |-> body]
<1>1. r.path = "/v1/models" /\ r.method = "GET" /\ r.header = <<"Bearer", server.key>>
  OBVIOUS
<1>2. "/v1/models" # "/v1/chat/completions" /\ "/v1/models" # "/v1/responses"
  OBVIOUS
<1> HIDE DEF r
<1>3. Serve!Handle(server, r, agent)
      = Serve!AuthMiddleware(server, r.header, Serve!NewModelsHandler(server, r.method))
  BY <1>1, <1>2, Zenon DEF Serve!Handle
<1>4. Serve!Handle(server, r, agent)
      = Serve!Reply(200, Serve!DiscoverModels(server.installed, server.api), <<>>, "none")
  BY <1>1, <1>3, Zenon DEF Serve!AuthMiddleware, Serve!NewModelsHandler
<1>5. \A reply, list : reply = Serve!Reply(200, list, <<>>, "none") => reply.body = list
  BY DEF Serve!Reply
<1>6. Serve!Handle(server, r, agent).body = Serve!DiscoverModels(server.installed, server.api)
  BY <1>4, <1>5
<1> QED
  BY <1>6 DEF r

\* A chat request with the server's key reaches the chat handler.
LEMMA ChatHandled ==
    ASSUME NEW server, NEW agent, NEW req
    PROVE  Serve!Handle(server, [path |-> "/v1/chat/completions", method |-> "POST",
                                 header |-> <<"Bearer", server.key>>, body |-> req], agent)
           = Serve!NewChatHandler(server, "POST", req, agent)
<1> DEFINE r == [path |-> "/v1/chat/completions", method |-> "POST",
                 header |-> <<"Bearer", server.key>>, body |-> req]
<1>1. r.path = "/v1/chat/completions" /\ r.method = "POST"
      /\ r.header = <<"Bearer", server.key>> /\ r.body = req
  OBVIOUS
<1> HIDE DEF r
<1>3. Serve!Handle(server, r, agent)
      = Serve!AuthMiddleware(server, r.header,
                             Serve!NewChatHandler(server, r.method, r.body, agent))
  BY <1>1, Zenon DEF Serve!Handle
<1> QED
  BY <1>1, <1>3, Zenon DEF Serve!AuthMiddleware, r

\* A listed model is one of claude's, whose API or aliases name it, or opencode
\* itself; its agent is installed.
LEMMA ListedModels ==
    ASSUME NEW installed, NEW api \in Seq(STRING),
           NEW i \in DOMAIN Serve!DiscoverModels(installed, api)
    PROVE  LET m == Serve!DiscoverModels(installed, api)[i]
           IN \/ "claude" \in installed /\ \E x : m = <<"anthropic", x>>
              \/ "opencode" \in installed /\ m = <<"opencode">>
<1> DEFINE claude == IF "claude" \in installed
                     THEN IF api # <<>> THEN Serve!FetchModels(api) ELSE Serve!fallbackModels
                     ELSE <<>>
           open == IF "opencode" \in installed THEN <<<<"opencode">>>> ELSE <<>>
           C == {m \in {<<"anthropic", api[k]>> : k \in DOMAIN api}
                       \cup {<<"anthropic", "opus">>, <<"anthropic", "sonnet">>,
                             <<"anthropic", "haiku">>} : "claude" \in installed}
           O == {m \in {<<"opencode">>} : "opencode" \in installed}
           S == C \cup O
<1>1. claude \in Seq(S) /\ \A k \in DOMAIN claude : claude[k] \in C
  <2>1. CASE "claude" \in installed /\ api # <<>>
    <3>1. claude = [k \in DOMAIN api |-> <<"anthropic", api[k]>>]
      BY <2>1, Zenon DEF Serve!FetchModels
    <3>2. \A k \in DOMAIN api : <<"anthropic", api[k]>> \in C
      BY <2>1
    <3> HIDE DEF C, claude
    <3>3. DOMAIN api = 1 .. Len(api) /\ Len(api) \in Nat
      OBVIOUS
    <3> QED
      BY <3>1, <3>2, <3>3
  <2>2. CASE "claude" \in installed /\ api = <<>>
    <3> DEFINE a == <<"anthropic", "opus">>
               b == <<"anthropic", "sonnet">>
               c == <<"anthropic", "haiku">>
    <3>1. claude = <<a, b, c>>
      BY <2>2, Zenon DEF Serve!fallbackModels
    <3>2. a \in C /\ b \in C /\ c \in C
      BY <2>2
    <3> HIDE DEF C, claude, a, b, c
    <3> QED
      BY <3>1, <3>2
  <2>3. CASE "claude" \notin installed
    <3>1. claude = <<>>
      BY <2>3, Zenon
    <3> HIDE DEF C, claude
    <3> QED
      BY <3>1
  <2> QED
    BY <2>1, <2>2, <2>3
<1>2. open \in Seq(S) /\ \A k \in DOMAIN open : open[k] \in O
  <2> DEFINE a == <<"opencode">>
  <2>1. CASE "opencode" \in installed
    <3>1. open = <<a>> /\ a \in O
      BY <2>1
    <3> HIDE DEF O, open, a
    <3> QED
      BY <3>1
  <2>2. CASE "opencode" \notin installed
    <3>1. open = <<>>
      BY <2>2, Zenon
    <3> HIDE DEF O, open
    <3> QED
      BY <3>1
  <2> QED
    BY <2>1, <2>2
<1>3. Serve!DiscoverModels(installed, api) = claude \o open
  BY Zenon DEF Serve!DiscoverModels
<1> HIDE DEF claude, open, C, O
<1>4. (claude \o open)[i] \in Entries(claude) \cup Entries(open)
  <2>1. (claude \o open)[i] \in Entries(claude \o open)
    BY <1>3, Zenon DEF Entries
  <2>2. Entries(claude \o open) = Entries(claude) \cup Entries(open)
    BY <1>1, <1>2, JoinedEntries
  <2> QED
    BY <2>1, <2>2
<1>5. Entries(claude) \subseteq C /\ Entries(open) \subseteq O
  BY <1>1, <1>2 DEF Entries
<1>6. (claude \o open)[i] \in C \cup O
  BY <1>4, <1>5
<1>7. \A m \in C : "claude" \in installed /\ \E x : m = <<"anthropic", x>>
  BY DEF C
<1>8. \A m \in O : "opencode" \in installed /\ m = <<"opencode">>
  BY DEF O
<1> QED
  BY <1>3, <1>6, <1>7, <1>8

\* The agent of such a model.
LEMMA ListedRoutes ==
    /\ \A x : LET m == <<"anthropic", x>>
              IN /\ Serve!route(m) = "claude" /\ m # <<>>
                 /\ Serve!parseModel(m).submodel = <<x>> /\ Tail(m) = <<x>>
    /\ LET m == <<"opencode">>
       IN Serve!route(m) = "opencode" /\ m # <<>> /\ Len(m) = 1
<1>1. /\ DOMAIN Serve!agentForPrefix = {"claude", "default", "anthropic", "opencode"}
      /\ Serve!agentForPrefix["anthropic"] = "claude"
      /\ Serve!agentForPrefix["opencode"] = "opencode"
  BY DEF Serve!agentForPrefix
<1>2. \A x : LET m == <<"anthropic", x>>
             IN /\ Head(m) = "anthropic" /\ Tail(m) = <<x>> /\ m # <<>>
  OBVIOUS
<1>3. LET m == <<"opencode">> IN Head(m) = "opencode" /\ m # <<>> /\ Len(m) = 1
  OBVIOUS
<1>4. \A m : Serve!parseModel(m).prefix = Head(m) /\ Serve!parseModel(m).submodel = Tail(m)
  BY DEF Serve!parseModel
<1>5. \A x : Serve!route(<<"anthropic", x>>) = "claude"
  BY <1>1, <1>2, <1>4, Zenon DEF Serve!route
<1>6. Serve!route(<<"opencode">>) = "opencode"
  BY <1>1, <1>3, <1>4, Zenon DEF Serve!route
<1> QED
  BY <1>2, <1>3, <1>4, <1>5, <1>6, Zenon

\* The words of a command line have the prompt, and no effort that claude does
\* not know.
SaysRight(argv, prompt) ==
    /\ \E word \in argv : word[1] \in {"-p", "prompt"} /\ word[2] = prompt
    /\ \A word \in argv : word[1] = "--effort" => Serve!validEffort(word[2])

\* Those of an agent that is started do, and they have the model's own name when
\* it has one.
LEMMA ArgvFits ==
    ASSUME NEW server, NEW model, NEW prompt, NEW effort, NEW format
    PROVE  LET opts == Serve!ExecOpts(server, model, prompt, effort)
               argv == Serve!Argv(opts, format)
           IN /\ SaysRight(argv, prompt)
              /\ opts.model # <<>> => <<"--model", opts.model>> \in argv
              /\ opts.agent = Serve!route(model)
              /\ opts.model = Serve!parseModel(model).submodel
<1> DEFINE opts == Serve!ExecOpts(server, model, prompt, effort)
           argv == Serve!Argv(opts, format)
           flag(word, name) == \E v : word = <<name, v>>
<1>1. /\ opts.agent = Serve!route(model) /\ opts.prompt = prompt
      /\ opts.model = Serve!parseModel(model).submodel
      /\ opts.effort = IF Serve!validEffort(effort) THEN effort ELSE ""
  <2> DEFINE a == Serve!route(model)
             m == Serve!parseModel(model).submodel
             e == IF Serve!validEffort(effort) THEN effort ELSE ""
  <2>1. opts = [agent |-> a, prompt |-> prompt, model |-> m, effort |-> e,
                systemPromptFile |-> server.overlay, basePromptFile |-> server.base]
    BY Zenon DEF Serve!ExecOpts
  <2> HIDE DEF a, m, e, opts
  <2> QED
    BY <2>1 DEF a, m, e
<1> HIDE DEF opts
<1>2. \A a, b : LET w == <<a, b>> IN w[1] = a /\ w[2] = b
  OBVIOUS
<1>3. CASE opts.agent = "claude"
  <2>1. argv = Serve!claudeArgs(opts, format)
    BY <1>3, Zenon DEF Serve!Argv
  <2>2. <<"-p", opts.prompt>> \in argv
    BY <2>1 DEF Serve!claudeArgs
  <2>3. opts.model # <<>> => <<"--model", opts.model>> \in argv
    BY <2>1 DEF Serve!claudeArgs
  <2>4. ASSUME NEW word \in argv
        PROVE  \/ \E v : word = <<"--effort", v>> /\ v = opts.effort /\ v # ""
               \/ \E name \in {"--dangerously-skip-permissions", "--output-format", "-p",
                               "--include-partial-messages", "--model",
                               "--system-prompt-file", "--append-system-prompt-file"} :
                        flag(word, name)
    BY <2>1, <2>4 DEF Serve!claudeArgs
  <2>5. ASSUME NEW word \in argv, word[1] = "--effort" PROVE Serve!validEffort(word[2])
    <3>1. ASSUME NEW name \in {"--dangerously-skip-permissions", "--output-format", "-p",
                               "--include-partial-messages", "--model",
                               "--system-prompt-file", "--append-system-prompt-file"},
                 flag(word, name)
          PROVE  FALSE
      <4>1. word[1] = name
        BY <1>2, <3>1
      <4> QED
        BY <2>5, <4>1
    <3>2. PICK v : word = <<"--effort", v>> /\ v = opts.effort /\ v # ""
      BY <2>4, <3>1, Zenon
    <3>3. word[2] = opts.effort /\ opts.effort # ""
      BY <1>2, <3>2
    <3> QED
      BY <1>1, <3>3, Zenon
  <2>6. <<"-p", opts.prompt>>[1] \in {"-p", "prompt"} /\ <<"-p", opts.prompt>>[2] = prompt
    BY <1>1
  <2>7. \E word \in argv : word[1] \in {"-p", "prompt"} /\ word[2] = prompt
    <3> HIDE DEF argv
    <3> QED
      BY <2>2, <2>6, Zenon
  <2>8. SaysRight(argv, prompt)
    BY <2>5, <2>7, Zenon DEF SaysRight
  <2> HIDE DEF argv
  <2> QED
    BY <1>1, <2>3, <2>8 DEF argv, opts
<1>4. CASE opts.agent # "claude"
  <2>1. argv = {<<"prompt", opts.prompt>>}
               \cup {<<"--model", m>> : m \in {opts.model} \ {<<>>}}
    BY <1>4, Zenon DEF Serve!Argv
  <2>2. <<"prompt", opts.prompt>> \in argv
    BY <2>1
  <2>3. opts.model # <<>> => <<"--model", opts.model>> \in argv
    BY <2>1
  <2>4. ASSUME NEW word \in argv PROVE word[1] # "--effort"
    BY <2>1, <2>4
  <2>5. <<"prompt", opts.prompt>>[1] \in {"-p", "prompt"} /\ <<"prompt", opts.prompt>>[2] = prompt
    BY <1>1
  <2>6. \E word \in argv : word[1] \in {"-p", "prompt"} /\ word[2] = prompt
    <3> HIDE DEF argv
    <3> QED
      BY <2>2, <2>5, Zenon
  <2>7. SaysRight(argv, prompt)
    BY <2>4, <2>6, Zenon DEF SaysRight
  <2> HIDE DEF argv
  <2> QED
    BY <1>1, <2>3, <2>7 DEF argv, opts
<1> QED
  BY <1>3, <1>4

\* The answer to a chat for such a model.
LEMMA ChatAnswered ==
    ASSUME NEW server, NEW agent, agent.found \in BOOLEAN, NEW req, NEW m,
           ~Serve!unread(req), req.model = m, m # <<>>, req.messages # <<>>,
           Serve!route(m) # "none"
    PROVE  LET reply == Serve!NewChatHandler(server, "POST", req, agent)
               prompt == Serve!Last(req.messages).content
               opts == Serve!ExecOpts(server, m, prompt, req.effort)
           IN /\ reply.status = 200 /\ reply.body.model = m
              /\ reply.starts # <<>> =>
                    \E format : reply.starts[1] = Serve!Argv(opts, format)
<1> DEFINE reply == Serve!NewChatHandler(server, "POST", req, agent)
           opts == Serve!ExecOpts(server, m, Serve!Last(req.messages).content, req.effort)
<1>1. \A finish, content, usage : Serve!ChatAnswer(req, finish, content, usage).model = m
  BY DEF Serve!ChatAnswer
<1>2. Serve!ChatStreamed(req, agent).model = m
  BY <1>1, Zenon DEF Serve!ChatStreamed
<1>3. \A result : Serve!ChatBuffered(req, result).model = m
  BY <1>1, Zenon DEF Serve!ChatBuffered
<1>4. \/ reply = Serve!Reply(200, Serve!ChatStreamed(req, agent),
                             IF agent.found THEN <<Serve!Argv(opts, "stream-json")>> ELSE <<>>,
                             "none")
      \/ reply = Serve!Reply(200, Serve!ChatBuffered(req, Serve!ShellRun(opts, agent)),
                             <<Serve!Argv(opts, "json")>>, "none")
  BY ZenonT(60) DEF Serve!NewChatHandler
<1>5. \E answer, starts :
        /\ reply = Serve!Reply(200, answer, starts, "none") /\ answer.model = m
        /\ starts # <<>> => \E format : starts = <<Serve!Argv(opts, format)>>
  BY <1>2, <1>3, <1>4, ZenonT(60)
<1> HIDE DEF reply, opts
<1>6. PICK answer, starts :
        /\ reply = Serve!Reply(200, answer, starts, "none") /\ answer.model = m
        /\ starts # <<>> => \E format : starts = <<Serve!Argv(opts, format)>>
  BY <1>5
<1>7. reply.status = 200 /\ reply.body = answer /\ reply.starts = starts
  BY <1>6, Zenon DEF Serve!Reply
<1>8. \A x : <<x>>[1] = x
  OBVIOUS
<1>9. reply.starts # <<>> => \E format : reply.starts[1] = Serve!Argv(opts, format)
  <2> SUFFICES ASSUME reply.starts # <<>> PROVE \E format : reply.starts[1] = Serve!Argv(opts, format)
    OBVIOUS
  <2>1. PICK format : starts = <<Serve!Argv(opts, format)>>
    BY <1>6, <1>7, Zenon
  <2>2. starts[1] = Serve!Argv(opts, format)
    BY <1>8, <2>1, Zenon
  <2> QED
    BY <1>7, <2>2, Zenon
<1> QED
  BY <1>6, <1>7, <1>9 DEF reply, opts

\* A model that is listed is served.
THEOREM ListedAreServed == RulesSpec => []ListedModelsServed
<1>1. ASSUME Applied PROVE ListedModelsServed
  <2> DEFINE server == input.server
             agent == input.agent
             body == input.body
             models == Serve!DiscoverModels(server.installed, server.api)
             chat(m) == [body EXCEPT !.model = m]
             answer(m) == Serve!NewChatHandler(server, "POST", chat(m), agent)
             prompt == Serve!Last(body.messages).content
             served(m) ==
                /\ answer(m).status = 200 /\ answer(m).body.model = m
                /\ Serve!route(m) \in server.installed
                /\ answer(m).starts # <<>> =>
                    /\ SaysRight(answer(m).starts[1], prompt)
                    /\ Len(m) = 2 => <<"--model", Tail(m)>> \in answer(m).starts[1]
             listed == Serve!Handle(server,
                [path |-> "/v1/models", method |-> "GET", header |-> <<"Bearer", server.key>>,
                 body |-> [none |-> 0]], agent)
             asked(m) == Serve!Handle(server,
                [path |-> "/v1/chat/completions", method |-> "POST",
                 header |-> <<"Bearer", server.key>>, body |-> chat(m)], agent)
  <2> SUFFICES ASSUME topic = "chat", body.messages # <<>>
               PROVE  \A i \in DOMAIN models : served(models[i])
    <3>1. listed.body = models
      BY ModelsHandled
    <3>2. \A m : asked(m) = answer(m)
      BY ChatHandled
    <3>3. ASSUME topic = "chat" /\ body.messages # <<>> =>
                    \A i \in DOMAIN models : served(models[i])
          PROVE  topic = "chat" /\ body.messages # <<>> =>
                    \A i \in DOMAIN listed.body :
                        LET m == listed.body[i]
                            argv == asked(m).starts[1]
                        IN /\ asked(m).status = 200 /\ asked(m).body.model = m
                           /\ Serve!route(m) \in server.installed
                           /\ asked(m).starts # <<>> =>
                                /\ \E word \in argv : /\ word[1] \in {"-p", "prompt"}
                                                      /\ word[2] = prompt
                                /\ \A word \in argv : word[1] = "--effort" =>
                                                        Serve!validEffort(word[2])
                                /\ Len(m) = 2 => <<"--model", Tail(m)>> \in argv
      <4> HIDE DEF listed, asked, answer, models, prompt
      <4> QED
        BY <3>1, <3>2, <3>3, SMTT(60) DEF SaysRight
    <3> QED
      BY <3>3, Zenon DEF ListedModelsServed
  <2> TAKE i \in DOMAIN models
  <2>1. /\ body \in Serve!ChatRequest({body.model}, {body.messages}, {body.effort})
        /\ server.api \in Seq(STRING) /\ agent.found \in BOOLEAN
    BY <1>1, ChatAssumption DEF Applied, Inputs
  <2> DEFINE m == models[i]
  <2>2. /\ ~Serve!unread(chat(m)) /\ chat(m).model = m /\ chat(m).messages = body.messages
        /\ chat(m).effort = body.effort
    <3> HIDE DEF m, body
    <3> QED
      BY <2>1 DEF Serve!ChatRequest, Serve!unread
  <2>3. \/ "claude" \in server.installed /\ \E x : m = <<"anthropic", x>>
        \/ "opencode" \in server.installed /\ m = <<"opencode">>
    BY <2>1, ListedModels
  <2> HIDE DEF m, models
  <2>4. /\ m # <<>> /\ Serve!route(m) # "none" /\ Serve!route(m) \in server.installed
        /\ Len(m) = 2 => Serve!parseModel(m).submodel = Tail(m) /\ Tail(m) # <<>>
    <3>1. CASE "claude" \in server.installed /\ \E x : m = <<"anthropic", x>>
      <4>1. PICK x : m = <<"anthropic", x>>
        BY <3>1
      <4>2. \A y : <<y>> # <<>>
        OBVIOUS
      <4>3. "claude" # "none"
        OBVIOUS
      <4> QED
        BY <3>1, <4>1, <4>2, <4>3, ListedRoutes, Zenon
    <3>2. CASE "opencode" \in server.installed /\ m = <<"opencode">>
      <4>1. "opencode" # "none" /\ 1 # 2
        OBVIOUS
      <4> QED
        BY <3>2, <4>1, ListedRoutes, Zenon
    <3> QED
      BY <2>3, <3>1, <3>2
  <2> DEFINE opts == Serve!ExecOpts(server, m, prompt, body.effort)
  <2>5. /\ answer(m).status = 200 /\ answer(m).body.model = m
        /\ answer(m).starts # <<>> => \E format : answer(m).starts[1] = Serve!Argv(opts, format)
    <3> DEFINE req == chat(m)
    <3>1. agent.found \in BOOLEAN /\ ~Serve!unread(req) /\ req.model = m /\ req.messages # <<>>
          /\ req.messages = body.messages /\ req.effort = body.effort
      BY <2>1, <2>2, Zenon
    <3> HIDE DEF req
    <3>2. opts = Serve!ExecOpts(server, m, Serve!Last(req.messages).content, req.effort)
      BY <3>1, Zenon
    <3>3. answer(m) = Serve!NewChatHandler(server, "POST", req, agent)
      BY Zenon DEF req
    <3> HIDE DEF answer, opts, prompt
    <3> QED
      BY <2>4, <3>1, <3>2, <3>3, ChatAnswered
  <2>6. \A format : /\ SaysRight(Serve!Argv(opts, format), prompt)
                    /\ opts.model # <<>> => <<"--model", opts.model>> \in Serve!Argv(opts, format)
                    /\ opts.model = Serve!parseModel(m).submodel
    BY ArgvFits
  <2> HIDE DEF answer, opts, prompt
  <2>7. ASSUME answer(m).starts # <<>>
        PROVE  /\ SaysRight(answer(m).starts[1], prompt)
               /\ Len(m) = 2 => <<"--model", Tail(m)>> \in answer(m).starts[1]
    <3>1. PICK format : answer(m).starts[1] = Serve!Argv(opts, format)
      BY <2>5, <2>7, Zenon
    <3>2. SaysRight(Serve!Argv(opts, format), prompt)
      BY <2>6, Zenon
    <3>3. Len(m) = 2 => <<"--model", Tail(m)>> \in Serve!Argv(opts, format)
      <4> SUFFICES ASSUME Len(m) = 2 PROVE <<"--model", Tail(m)>> \in Serve!Argv(opts, format)
        OBVIOUS
      <4>1. opts.model = Tail(m) /\ opts.model # <<>>
        BY <2>4, <2>6, Zenon
      <4> QED
        BY <2>6, <4>1, Zenon
    <3> QED
      BY <3>1, <3>2, <3>3, Zenon
  <2> QED
    BY <2>4, <2>5, <2>7, Zenon DEF m
<1> QED
  BY <1>1, RulesApply, PTL
=============================================================================
