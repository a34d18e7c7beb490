--------------------------- MODULE NixStoreProofs ---------------------------
(***************************************************************************)
(* Proofs about NixStore, for any cells, commands, closures and number of  *)
(* launches: a prune takes nothing of a running closure that it collected. *)
(*                                                                         *)
(* Between the stamp and the collector of one prune, builds, runs, sweeps  *)
(* and other commands rewrite the roots.  The argument follows the stamped *)
(* roots: no build overwrites one, because a link is named by the hash of  *)
(* what it stamps; and no sweep drops one of a path that is on the volume, *)
(* because a link that shares its hash is not dangling then.               *)
(***************************************************************************)
EXTENDS NixStore, SequenceTheorems, TLAPS

\* What a stamp writes for a path; a path is safe as long as that is there, or
\* the path has an excuse.
StampedRoot(x) ==
    [hash |-> x, kind |-> IF x \in Profiles THEN "profile" ELSE "generation", target |-> x]
Safe(x) == x \in unrooted \/ StampedRoot(x) \in roots

\* A link of another shape than a stamp's is not dangling.
RootsSound ==
    /\ roots \subseteq Root
    /\ \A r \in roots :
        /\ r.kind = "profile" => r.target = r.hash
        /\ r.hash \in Generations => r.kind = "generation" /\ r.target = r.hash
        /\ r.kind = "generation" /\ r.hash \in Profiles => r.target \in store

\* A step on the volume leaves the roots sound and what is safe, safe.
VolumeKept ==
    /\ RootsSound' /\ links' \subseteq Profiles
    /\ \A x \in Paths : Safe(x) => Safe(x)'

\* In a plan the stamp comes right before the sweep, when there is something to
\* stamp, and the sweep right before the collector.
Does == {"stop daemon", "wipe data", "start daemon", "prune images", "prune rest", "stamp",
         "sweep", "gc", "registry", "builder vm", "host gc"}
StepRec == [do : Does, ignore : BOOLEAN, dry : BOOLEAN]
Follows(next, step, seen) ==
    /\ next.do = "stamp" => step.do = "prune rest"
    /\ next.do = "sweep" => seen = {} \/ step.do = "stamp"
    /\ next.do = "gc" => step.do = "sweep"
Marked(step) ==
    /\ step.ignore => step.do = "registry"
    /\ step.dry => step.do = "builder vm"
Ordered(plan, seen) ==
    /\ plan \in Seq(StepRec)
    /\ \A k \in 1 .. Len(plan) : Marked(plan[k])
    /\ \A k \in 1 .. Len(plan) - 1 : Follows(plan[k + 1], plan[k], seen)
NearGc(plan) == plan # <<>> /\ plan[1].do \in {"sweep", "gc"}

\* The commands: a plan exists while it is executed and is ordered, and before
\* the sweep and the collector everything the command saw is safe.
PlanSound(c) ==
    /\ c.at = "exec" <=> c.plan # <<>>
    /\ Ordered(c.plan, c.seen)
Command == [kind : Kinds \cup {"none"}, at : CommandAt, listed : SUBSET Cells,
            seen : SUBSET Closure, failed : SUBSET Cells, plan : Seq(StepRec)]
CommandsSound ==
    /\ cmd \in [Commands -> Command]
    /\ \A m \in Commands : PlanSound(cmd[m])
SeenSafe ==
    \A m \in Commands : NearGc(cmd[m].plan) => \A x \in LiveHashes(cmd[m].seen) : Safe(x)

\* Whatever a cell runs, its image names, or its build makes, is a closure.
RunRec == [at : RunAt, next : {"idle", "phase", "start"}, image : Image]
CellsSound ==
    /\ tag \in [Tags -> Image] /\ container \in [Cells -> Image]
    /\ run \in [Cells -> RunRec]

NixInv ==
    /\ links \subseteq Profiles /\ RootsSound
    /\ CellsSound /\ CommandsSound /\ SeenSafe

-----------------------------------------------------------------------------
(* The roots under each way the volume is changed.                          *)

LEMMA SafeUnchanged ==
  ASSUME RootsSound, links \subseteq Profiles, store \subseteq store',
         UNCHANGED <<roots, links, unrooted>>
  PROVE  VolumeKept
BY DEF VolumeKept, RootsSound, Safe, Root

LEMMA SafeWhenRemoved ==
  ASSUME roots' = {}, links' = {}, unrooted' = Paths
  PROVE  VolumeKept
BY DEF VolumeKept, RootsSound, Safe

LEMMA SafeWhenReset ==
  ASSUME RootsSound, links \subseteq Profiles, RemoveVolume
  PROVE  VolumeKept
<1>1. CASE VolumeUsed BY <1>1, SafeUnchanged DEF RemoveVolume, volume
<1>2. CASE ~VolumeUsed BY <1>2, SafeWhenRemoved DEF RemoveVolume
<1>3. QED BY <1>1, <1>2

\* A build's links are named by its profile, and replace only its own.
LEMMA SafeWhenPinned ==
  ASSUME RootsSound, links \subseteq Profiles, NEW p \in Profiles, NEW g \in Generations,
         UNCHANGED <<store, links, unrooted>>,
         NEW new,
         new = {[hash |-> p, kind |-> "profile", target |-> p],
                [hash |-> p, kind |-> "meta", target |-> p]}
               \cup (IF g \in store
                     THEN {[hash |-> p, kind |-> "generation", target |-> g]} ELSE {}),
         roots' = Links(new)
  PROVE  VolumeKept
<1>1. \A n \in new : /\ n \in Root /\ n.hash = p
                     /\ n.kind = "profile" => n.target = p
                     /\ n.kind = "generation" => n.target \in store
  BY DEF Root, Paths
<1>2. p \notin Generations BY ClosureAssumption
<1>3. \A r \in roots' : r \in roots \/ r \in new BY DEF Links
<1>4. RootsSound'
  <2>1. roots' \subseteq Root BY <1>1, <1>3 DEF RootsSound
  <2>2. ASSUME NEW r \in roots'
        PROVE  /\ r.kind = "profile" => r.target = r.hash
               /\ r.hash \in Generations => r.kind = "generation" /\ r.target = r.hash
               /\ r.kind = "generation" /\ r.hash \in Profiles => r.target \in store'
    <3>1. CASE r \in roots BY <3>1 DEF RootsSound
    <3>2. CASE r \in new BY <3>2, <1>1, <1>2
    <3>3. QED BY <3>1, <3>2, <1>3
  <2>3. QED BY <2>1, <2>2 DEF RootsSound
<1>5. ASSUME NEW x \in Paths, Safe(x) PROVE Safe(x)'
  <2>1. CASE x \in unrooted BY <2>1 DEF Safe
  <2>2. CASE StampedRoot(x) \in roots
    <3>1. CASE x = p
      <4>1. StampedRoot(x) = [hash |-> p, kind |-> "profile", target |-> p]
        BY <3>1 DEF StampedRoot
      <4>2. StampedRoot(x) \in new BY <4>1
      <4>3. StampedRoot(x) \in roots' BY <4>2 DEF Links
      <4>4. QED BY <4>3 DEF Safe, StampedRoot
    <3>2. CASE x # p
      <4>1. StampedRoot(x).hash = x BY DEF StampedRoot
      <4>2. StampedRoot(x) \in roots' BY <2>2, <3>2, <4>1, <1>1 DEF Links
      <4>3. QED BY <4>2 DEF Safe, StampedRoot
    <3>3. QED BY <3>1, <3>2
  <2>3. QED BY <1>5, <2>1, <2>2 DEF Safe
<1>6. QED BY <1>4, <1>5 DEF VolumeKept

\* A sweep drops a stamped root only when its path is gone.
LEMMA SafeWhenSwept ==
  ASSUME RootsSound, links' \subseteq Profiles,
         roots' = WithoutStale, unrooted' = unrooted \cup (Paths \ store), store' = store
  PROVE  VolumeKept
<1>1. roots' \subseteq roots BY DEF WithoutStale
<1>2. RootsSound' BY <1>1 DEF RootsSound
<1>3. ASSUME NEW x \in Paths, StampedRoot(x) \in roots, x \in store
      PROVE  StampedRoot(x) \in roots'
  <2> DEFINE s == StampedRoot(x)
             stale == {r.hash : r \in {y \in roots : Dangling(y)}}
  <2>1. s.hash = x /\ s.kind # "meta" BY DEF StampedRoot
  <2>2. ASSUME NEW r \in roots, Dangling(r), r.hash = x PROVE FALSE
    <3>1. r \in Root BY DEF RootsSound
    <3>2. r.kind = "profile" \/ r.kind = "generation" BY <2>2, <3>1 DEF Dangling, Root
    <3>3. r.target \notin store BY <2>2 DEF Dangling
    <3>4. x \in Profiles \/ x \in Generations BY DEF Paths
    <3>5. CASE r.kind = "profile" BY <3>3, <3>5, <2>2, <1>3 DEF RootsSound
    <3>6. CASE r.kind = "generation" /\ x \in Profiles BY <3>3, <3>6, <2>2 DEF RootsSound
    <3>7. CASE x \in Generations BY <3>3, <3>7, <2>2, <1>3 DEF RootsSound
    <3>8. QED BY <3>2, <3>4, <3>5, <3>6, <3>7
  <2>3. x \notin stale BY <2>2
  <2> HIDE DEF s, stale
  <2>4. s \in {r \in roots : r.hash \notin stale} BY <1>3, <2>1, <2>3 DEF s
  <2>5. s \in WithoutStale BY <2>1, <2>4 DEF WithoutStale, stale
  <2>6. QED BY <2>5 DEF s
<1>4. ASSUME NEW x \in Paths, Safe(x) PROVE Safe(x)'
  <2>1. CASE x \in unrooted \/ x \notin store BY <2>1 DEF Safe
  <2>2. CASE StampedRoot(x) \in roots /\ x \in store
    <3>1. StampedRoot(x) \in roots' BY <2>2, <1>3
    <3>2. QED BY <3>1 DEF Safe, StampedRoot
  <2>3. QED BY <1>4, <2>1, <2>2 DEF Safe
<1>5. QED BY <1>2, <1>4 DEF VolumeKept

LEMMA SafeWhenStamped ==
  ASSUME RootsSound, links \subseteq Profiles, NEW closures \in SUBSET Closure, Stamp(closures)
  PROVE  VolumeKept /\ \A x \in LiveHashes(closures) : Safe(x)'
<1> DEFINE new == UNION {Stamped(c) : c \in closures}
<1>1. ASSUME NEW n \in new
      PROVE \E x \in LiveHashes(closures) : n = StampedRoot(x)
  <2>1. PICK c \in closures : n \in Stamped(c) OBVIOUS
  <2>2. /\ c.profile \in Profiles /\ c.generation \in Generations
        /\ c.profile \in LiveHashes(closures) /\ c.generation \in LiveHashes(closures)
    BY <2>1 DEF Closure, LiveHashes, PathsOf
  <2>3. n = StampedRoot(c.profile) \/ n = StampedRoot(c.generation)
    BY <2>1, <2>2, ClosureAssumption DEF Stamped, StampedRoot
  <2>4. QED BY <2>2, <2>3
<1>2. ASSUME NEW x \in LiveHashes(closures) PROVE StampedRoot(x) \in new /\ x \in Paths
  <2>1. PICK c \in closures : x \in PathsOf(c) BY DEF LiveHashes
  <2>2. c.profile \in Profiles /\ c.generation \in Generations BY DEF Closure
  <2>3. StampedRoot(x) \in Stamped(c)
    BY <2>1, <2>2, ClosureAssumption DEF Stamped, StampedRoot, PathsOf
  <2>4. QED BY <2>1, <2>2, <2>3 DEF PathsOf, Paths
<1>3. roots' = Links(new) BY DEF Stamp
<1> HIDE DEF new
<1>4. \A r \in roots' : r \in roots \/ r \in new BY <1>3 DEF Links
<1>5. \A x \in LiveHashes(closures) : StampedRoot(x) \in roots' BY <1>2, <1>3 DEF Links
<1>6. \A x \in LiveHashes(closures) : Safe(x)' BY <1>5 DEF Safe, StampedRoot
<1>7. RootsSound'
  <2>1. ASSUME NEW r \in roots'
        PROVE  /\ r \in Root
               /\ r.kind = "profile" => r.target = r.hash
               /\ r.hash \in Generations => r.kind = "generation" /\ r.target = r.hash
               /\ r.kind = "generation" /\ r.hash \in Profiles => r.target \in store'
    <3>1. CASE r \in roots BY <3>1 DEF RootsSound, Stamp
    <3>2. CASE r \in new
      <4>1. PICK x \in LiveHashes(closures) : r = StampedRoot(x) BY <3>2, <1>1
      <4>2. x \in Paths BY <1>2
      <4>3. QED BY <4>1, <4>2, ClosureAssumption DEF StampedRoot, Root, Paths
    <3>3. QED BY <3>1, <3>2, <1>4
  <2>2. QED BY <2>1 DEF RootsSound
<1>8. ASSUME NEW x \in Paths, Safe(x) PROVE Safe(x)'
  <2>1. CASE x \in LiveHashes(closures) BY <2>1, <1>6
  <2>2. CASE x \notin LiveHashes(closures)
    <3>1. x \in unrooted => x \in unrooted' BY <2>2 DEF Stamp
    <3>2. ASSUME StampedRoot(x) \in roots PROVE StampedRoot(x) \in roots'
      <4>1. ASSUME NEW n \in new PROVE StampedRoot(x).hash # n.hash
        <5>1. PICK y \in LiveHashes(closures) : n = StampedRoot(y) BY <1>1
        <5>2. n.hash = y /\ StampedRoot(x).hash = x BY <5>1 DEF StampedRoot
        <5>3. QED BY <5>2, <2>2
      <4>2. QED BY <3>2, <4>1, <1>3 DEF Links
    <3>3. QED BY <1>8, <3>1, <3>2 DEF Safe, StampedRoot
  <2>3. QED BY <2>1, <2>2
<1>9. QED BY <1>6, <1>7, <1>8 DEF VolumeKept, Stamp

LEMMA SafeWhenReaped ==
  ASSUME RootsSound, links \subseteq Profiles, roots' \subseteq roots,
         unrooted' = unrooted \cup {r.target : r \in roots \ roots'},
         UNCHANGED <<store, links>>
  PROVE  VolumeKept
<1>1. RootsSound' BY DEF RootsSound
<1>2. ASSUME NEW x \in Paths, Safe(x) PROVE Safe(x)'
  <2>1. StampedRoot(x).target = x BY DEF StampedRoot
  <2>2. x \in unrooted' \/ StampedRoot(x) \in roots' BY <1>2, <2>1 DEF Safe
  <2>3. QED BY <2>2 DEF Safe, StampedRoot
<1>3. QED BY <1>1, <1>2 DEF VolumeKept

\* The collector leaves what a root leads to.
LEMMA SafeWhenCollected ==
  ASSUME RootsSound, links \subseteq Profiles, CollectGarbage,
         UNCHANGED <<roots, links, unrooted>>
  PROVE  VolumeKept
<1>1. ASSUME NEW r \in roots, r.kind = "generation", r.target \in store
      PROVE  r.target \in store'
  BY <1>1 DEF CollectGarbage, Reachable, Protected
<1>2. RootsSound' BY <1>1 DEF RootsSound
<1>3. \A x \in Paths : Safe(x) => Safe(x)' BY DEF Safe, StampedRoot
<1>4. QED BY <1>2, <1>3 DEF VolumeKept

-----------------------------------------------------------------------------
(* The plans.                                                               *)

LEMMA StepShapes ==
  ASSUME NEW do \in Does
  PROVE  /\ Step(do) \in StepRec /\ Tolerated(do) \in StepRec /\ DryRun(do) \in StepRec
         /\ Step(do).do = do /\ Tolerated(do).do = do /\ DryRun(do).do = do
         /\ Marked(Step(do))
         /\ do = "registry" => Marked(Tolerated(do))
         /\ do = "builder vm" => Marked(DryRun(do))
BY DEF StepRec, Step, Tolerated, DryRun, Marked

LEMMA NotEmpty ==
  ASSUME NEW plan, Len(plan) > 0
  PROVE  plan # <<>>
<1>1. Len(<<>>) = 0 OBVIOUS
<1>2. QED BY <1>1

\* A plan is ordered if its steps are.
LEMMA FiveOrdered ==
  ASSUME NEW seen, NEW plan \in Seq(StepRec), Len(plan) = 5,
         Marked(plan[1]), Marked(plan[2]), Marked(plan[3]),
         Marked(plan[4]), Marked(plan[5]),
         Follows(plan[2], plan[1], seen), Follows(plan[3], plan[2], seen),
         Follows(plan[4], plan[3], seen), Follows(plan[5], plan[4], seen)
  PROVE  Ordered(plan, seen)
<1>1. ASSUME NEW k \in 1 .. Len(plan) PROVE Marked(plan[k])
  <2>1. k \in {1, 2, 3, 4, 5} OBVIOUS
  <2>2. QED BY <2>1
<1>2. ASSUME NEW k \in 1 .. Len(plan) - 1 PROVE Follows(plan[k + 1], plan[k], seen)
  <2>1. k \in {1, 2, 3, 4} OBVIOUS
  <2>2. (k = 1 /\ k + 1 = 2) \/ (k = 2 /\ k + 1 = 3) \/ (k = 3 /\ k + 1 = 4)
        \/ (k = 4 /\ k + 1 = 5)
    BY <2>1
  <2>3. QED BY <2>2
<1>3. QED BY <1>1, <1>2 DEF Ordered

LEMMA SixOrdered ==
  ASSUME NEW seen, NEW plan \in Seq(StepRec), Len(plan) = 6,
         Marked(plan[1]), Marked(plan[2]), Marked(plan[3]),
         Marked(plan[4]), Marked(plan[5]), Marked(plan[6]),
         Follows(plan[2], plan[1], seen), Follows(plan[3], plan[2], seen),
         Follows(plan[4], plan[3], seen), Follows(plan[5], plan[4], seen),
         Follows(plan[6], plan[5], seen)
  PROVE  Ordered(plan, seen)
<1>1. ASSUME NEW k \in 1 .. Len(plan) PROVE Marked(plan[k])
  <2>1. k \in {1, 2, 3, 4, 5, 6} OBVIOUS
  <2>2. QED BY <2>1
<1>2. ASSUME NEW k \in 1 .. Len(plan) - 1 PROVE Follows(plan[k + 1], plan[k], seen)
  <2>1. k \in {1, 2, 3, 4, 5} OBVIOUS
  <2>2. (k = 1 /\ k + 1 = 2) \/ (k = 2 /\ k + 1 = 3) \/ (k = 3 /\ k + 1 = 4)
        \/ (k = 4 /\ k + 1 = 5) \/ (k = 5 /\ k + 1 = 6)
    BY <2>1
  <2>3. QED BY <2>2
<1>3. QED BY <1>1, <1>2 DEF Ordered

\* Each of the four plans, step by step.
LEMMA PlansOrdered ==
  ASSUME NEW kind, NEW goos, NEW seen, NEW plan, plan = PrunePlan(kind, goos, seen)
  PROVE  Ordered(plan, seen) /\ plan # <<>> /\ ~NearGc(plan)
<1>1. CASE kind = "force" /\ goos = "darwin"
  <2> DEFINE a == Step("stop daemon")
             b == Step("wipe data")
             c == Step("start daemon")
             d == DryRun("builder vm")
             e == Tolerated("registry")
  <2>1. plan = <<a, b, c>> \o <<d, e>>
    BY <1>1 DEF PrunePlan, DockerPruneSteps, NixPruneSteps
  <2>2. /\ a \in StepRec /\ b \in StepRec /\ c \in StepRec
        /\ d \in StepRec /\ e \in StepRec
    BY StepShapes DEF Does
  <2>3. /\ a.do = "stop daemon" /\ b.do = "wipe data" /\ c.do = "start daemon"
        /\ d.do = "builder vm" /\ e.do = "registry"
    BY StepShapes DEF Does
  <2>4. /\ Marked(a) /\ Marked(b) /\ Marked(c)
        /\ Marked(d) /\ Marked(e)
    BY StepShapes DEF Does
  <2> HIDE DEF a, b, c, d, e
  <2>5. /\ Follows(b, a, seen)
        /\ Follows(c, b, seen)
        /\ Follows(d, c, seen)
        /\ Follows(e, d, seen)
    BY <2>3, <1>1, Zenon DEF Follows
  <2>6. plan \in Seq(StepRec) /\ Len(plan) = 5 BY <2>1, <2>2
  <2>7. /\ plan[1] = a /\ plan[2] = b /\ plan[3] = c /\ plan[4] = d /\ plan[5] = e
    BY <2>1, <2>2
  <2>8. Ordered(plan, seen)
    BY <2>2, <2>4, <2>5, <2>6, <2>7, FiveOrdered
  <2>9. plan # <<>>
    <3>1. Len(plan) > 0 BY <2>6
    <3>2. QED BY <3>1, NotEmpty, Zenon
  <2>10. ~NearGc(plan) BY <2>3, <2>7, Zenon DEF NearGc
  <2>11. QED BY <2>8, <2>9, <2>10
<1>2. CASE kind = "force" /\ goos # "darwin"
  <2> DEFINE a == Step("stop daemon")
             b == Step("wipe data")
             c == Step("start daemon")
             d == Step("host gc")
             e == Tolerated("registry")
  <2>1. plan = <<a, b, c>> \o <<d, e>>
    BY <1>2 DEF PrunePlan, DockerPruneSteps, NixPruneSteps
  <2>2. /\ a \in StepRec /\ b \in StepRec /\ c \in StepRec
        /\ d \in StepRec /\ e \in StepRec
    BY StepShapes DEF Does
  <2>3. /\ a.do = "stop daemon" /\ b.do = "wipe data" /\ c.do = "start daemon"
        /\ d.do = "host gc" /\ e.do = "registry"
    BY StepShapes DEF Does
  <2>4. /\ Marked(a) /\ Marked(b) /\ Marked(c)
        /\ Marked(d) /\ Marked(e)
    BY StepShapes DEF Does
  <2> HIDE DEF a, b, c, d, e
  <2>5. /\ Follows(b, a, seen)
        /\ Follows(c, b, seen)
        /\ Follows(d, c, seen)
        /\ Follows(e, d, seen)
    BY <2>3, <1>2, Zenon DEF Follows
  <2>6. plan \in Seq(StepRec) /\ Len(plan) = 5 BY <2>1, <2>2
  <2>7. /\ plan[1] = a /\ plan[2] = b /\ plan[3] = c /\ plan[4] = d /\ plan[5] = e
    BY <2>1, <2>2
  <2>8. Ordered(plan, seen)
    BY <2>2, <2>4, <2>5, <2>6, <2>7, FiveOrdered
  <2>9. plan # <<>>
    <3>1. Len(plan) > 0 BY <2>6
    <3>2. QED BY <3>1, NotEmpty, Zenon
  <2>10. ~NearGc(plan) BY <2>3, <2>7, Zenon DEF NearGc
  <2>11. QED BY <2>8, <2>9, <2>10
<1>3. CASE kind # "force" /\ seen = {}
  <2> DEFINE a == Step("prune images")
             b == Step("prune rest")
             c == Step("sweep")
             d == Step("gc")
             e == Tolerated("registry")
  <2>1. plan = <<a, b>> \o (<<>> \o <<c, d, e>>)
    BY <1>3 DEF PrunePlan, DockerPruneSteps, NixPruneSteps
  <2>2. /\ a \in StepRec /\ b \in StepRec /\ c \in StepRec
        /\ d \in StepRec /\ e \in StepRec
    BY StepShapes DEF Does
  <2>3. /\ a.do = "prune images" /\ b.do = "prune rest" /\ c.do = "sweep"
        /\ d.do = "gc" /\ e.do = "registry"
    BY StepShapes DEF Does
  <2>4. /\ Marked(a) /\ Marked(b) /\ Marked(c)
        /\ Marked(d) /\ Marked(e)
    BY StepShapes DEF Does
  <2> HIDE DEF a, b, c, d, e
  <2>5. /\ Follows(b, a, seen)
        /\ Follows(c, b, seen)
        /\ Follows(d, c, seen)
        /\ Follows(e, d, seen)
    BY <2>3, <1>3, Zenon DEF Follows
  <2>6. plan \in Seq(StepRec) /\ Len(plan) = 5 BY <2>1, <2>2
  <2>7. /\ plan[1] = a /\ plan[2] = b /\ plan[3] = c /\ plan[4] = d /\ plan[5] = e
    BY <2>1, <2>2
  <2>8. Ordered(plan, seen)
    BY <2>2, <2>4, <2>5, <2>6, <2>7, FiveOrdered
  <2>9. plan # <<>>
    <3>1. Len(plan) > 0 BY <2>6
    <3>2. QED BY <3>1, NotEmpty, Zenon
  <2>10. ~NearGc(plan) BY <2>3, <2>7, Zenon DEF NearGc
  <2>11. QED BY <2>8, <2>9, <2>10
<1>4. CASE kind # "force" /\ seen # {}
  <2> DEFINE a == Step("prune images")
             b == Step("prune rest")
             c == Step("stamp")
             d == Step("sweep")
             e == Step("gc")
             f == Tolerated("registry")
  <2>1. plan = <<a, b>> \o (<<c>> \o <<d, e, f>>)
    BY <1>4 DEF PrunePlan, DockerPruneSteps, NixPruneSteps
  <2>2. /\ a \in StepRec /\ b \in StepRec /\ c \in StepRec
        /\ d \in StepRec /\ e \in StepRec /\ f \in StepRec
    BY StepShapes DEF Does
  <2>3. /\ a.do = "prune images" /\ b.do = "prune rest" /\ c.do = "stamp"
        /\ d.do = "sweep" /\ e.do = "gc" /\ f.do = "registry"
    BY StepShapes DEF Does
  <2>4. /\ Marked(a) /\ Marked(b) /\ Marked(c)
        /\ Marked(d) /\ Marked(e) /\ Marked(f)
    BY StepShapes DEF Does
  <2> HIDE DEF a, b, c, d, e, f
  <2>5. /\ Follows(b, a, seen)
        /\ Follows(c, b, seen)
        /\ Follows(d, c, seen)
        /\ Follows(e, d, seen)
        /\ Follows(f, e, seen)
    BY <2>3, <1>4, Zenon DEF Follows
  <2>6. plan \in Seq(StepRec) /\ Len(plan) = 6 BY <2>1, <2>2
  <2>7. /\ plan[1] = a /\ plan[2] = b /\ plan[3] = c /\ plan[4] = d /\ plan[5] = e /\ plan[6] = f
    BY <2>1, <2>2
  <2>8. Ordered(plan, seen)
    BY <2>2, <2>4, <2>5, <2>6, <2>7, SixOrdered
  <2>9. plan # <<>>
    <3>1. Len(plan) > 0 BY <2>6
    <3>2. QED BY <3>1, NotEmpty, Zenon
  <2>10. ~NearGc(plan) BY <2>3, <2>7, Zenon DEF NearGc
  <2>11. QED BY <2>8, <2>9, <2>10
<1>5. QED BY <1>1, <1>2, <1>3, <1>4

LEMMA TailOrdered ==
  ASSUME NEW plan, NEW seen, Ordered(plan, seen), plan # <<>>
  PROVE  /\ Ordered(Tail(plan), seen)
         /\ Len(Tail(plan)) = Len(plan) - 1
         /\ Tail(plan) # <<>> => Follows(plan[2], plan[1], seen) /\ Tail(plan)[1] = plan[2]
<1> DEFINE t == Tail(plan)
<1>1. plan \in Seq(StepRec) BY DEF Ordered
<1>2. /\ t \in Seq(StepRec) /\ Len(t) = Len(plan) - 1
      /\ \A k \in 1 .. Len(t) : t[k] = plan[k + 1]
  BY <1>1, HeadTailProperties
<1>3. Len(plan) \in Nat /\ Len(t) \in Nat BY <1>1, <1>2, LenProperties
<1>4. ASSUME NEW k \in 1 .. Len(t) PROVE Marked(t[k])
  <2>1. k + 1 \in 1 .. Len(plan) BY <1>2, <1>3
  <2>2. t[k] = plan[k + 1] BY <1>2
  <2>3. QED BY <2>1, <2>2 DEF Ordered
<1>5. ASSUME NEW k \in 1 .. Len(t) - 1 PROVE Follows(t[k + 1], t[k], seen)
  <2>1. k + 1 \in 1 .. Len(plan) - 1 BY <1>2, <1>3
  <2>2. t[k] = plan[k + 1] /\ t[k + 1] = plan[(k + 1) + 1] BY <1>2, <1>3
  <2>3. Follows(plan[(k + 1) + 1], plan[k + 1], seen) BY <2>1 DEF Ordered
  <2>4. QED BY <2>2, <2>3 DEF Follows
<1>6. ASSUME t # <<>> PROVE Follows(plan[2], plan[1], seen) /\ t[1] = plan[2]
  <2>1. Len(t) > 0 BY <1>2, <1>3, <1>6, EmptySeq
  <2>2. 1 \in 1 .. Len(t) /\ 1 \in 1 .. Len(plan) - 1 BY <2>1, <1>2, <1>3
  <2>3. QED BY <2>2, <1>2 DEF Ordered
<1> HIDE DEF t
<1>7. Ordered(t, seen) BY <1>2, <1>4, <1>5 DEF Ordered
<1>8. QED BY <1>2, <1>6, <1>7 DEF t

\* SubSeq from the third step on, as the tail of the tail.
LEMMA SkipIsTailTail ==
  ASSUME NEW plan \in Seq(StepRec), NEW n, n = Len(plan), n >= 2
  PROVE  SubSeq(plan, 3, n) = Tail(Tail(plan)) /\ Tail(plan) # <<>>
<1> DEFINE s == SubSeq(plan, 3, n)
           t == Tail(plan)
           u == Tail(t)
<1>1. n \in Nat /\ plan # <<>> BY LenProperties, EmptySeq
<1>2. /\ t \in Seq(StepRec) /\ Len(t) = n - 1
      /\ \A k \in 1 .. n - 1 : t[k] = plan[k + 1]
  BY <1>1, HeadTailProperties
<1> HIDE DEF t
<1>3. t # <<>> BY <1>1, <1>2, EmptySeq
<1>4. /\ u \in Seq(StepRec) /\ Len(u) = n - 2
      /\ \A k \in 1 .. n - 2 : u[k] = t[k + 1]
  <2>1. /\ u \in Seq(StepRec) /\ Len(u) = Len(t) - 1
        /\ \A k \in 1 .. Len(u) : u[k] = t[k + 1]
    BY <1>2, <1>3, HeadTailProperties
  <2>2. QED BY <2>1, <1>1, <1>2
<1>5. /\ s \in Seq(StepRec) /\ Len(s) = n - 2
      /\ \A k \in 1 .. n - 2 : s[k] = plan[k + 2]
  <2>1. \A k \in 3 .. n : plan[k] \in StepRec BY <1>1, ElementOfSeq
  <2>2. QED BY <1>1, <2>1, SubSeqProperties
<1> HIDE DEF s, u
<1>6. ASSUME NEW k \in 1 .. n - 2 PROVE s[k] = u[k]
  <2>1. k + 1 \in 1 .. n - 1 BY <1>1
  <2>2. t[k + 1] = plan[(k + 1) + 1] BY <2>1, <1>2
  <2>3. QED BY <2>2, <1>4, <1>5
<1>7. s = u BY <1>1, <1>4, <1>5, <1>6, SeqEqual
<1>8. QED BY <1>3, <1>7 DEF s, t, u

\* What is left of a plan: the sweep only follows the stamp, the collector only
\* the sweep, or the command saw nothing.
LEMMA RestOrdered ==
  ASSUME NEW plan, NEW seen, Ordered(plan, seen), plan # <<>>, NEW rest,
         \/ rest = Tail(plan)
         \/ plan[1].do = "sweep" /\ rest = SubSeq(plan, 3, Len(plan))
  PROVE  /\ Ordered(rest, seen)
         /\ NearGc(rest) /\ ~NearGc(plan) => seen = {} \/ plan[1].do = "stamp"
<1>0. plan \in Seq(StepRec) BY DEF Ordered
<1>1. CASE rest = Tail(plan)
  <2>1. Ordered(rest, seen) BY <1>1, TailOrdered
  <2>2. ASSUME NearGc(rest), ~NearGc(plan) PROVE seen = {} \/ plan[1].do = "stamp"
    <3>1. Follows(plan[2], plan[1], seen) /\ rest[1] = plan[2]
      BY <1>1, <2>2, TailOrdered DEF NearGc
    <3>2. plan[2].do \in {"sweep", "gc"} BY <3>1, <2>2 DEF NearGc
    <3>3. plan[1].do \notin {"sweep", "gc"} BY <2>2 DEF NearGc
    <3>4. QED BY <3>1, <3>2, <3>3, Zenon DEF Follows
  <2>3. QED BY <2>1, <2>2
<1>2. CASE plan[1].do = "sweep" /\ rest = SubSeq(plan, 3, Len(plan))
  <2>1. NearGc(plan) BY <1>2 DEF NearGc
  <2>2. CASE Len(plan) >= 2
    <3>1. rest = Tail(Tail(plan)) /\ Tail(plan) # <<>> BY <1>0, <1>2, <2>2, SkipIsTailTail
    <3>2. QED BY <2>1, <3>1, TailOrdered
  <2>3. CASE ~(Len(plan) >= 2)
    <3>1. rest = <<>>
      BY <1>0, <1>2, <2>3, LenProperties, SubSeqProperties, EmptySeq
    <3>2. Len(<<>>) = 0 /\ <<>> \in Seq(StepRec) BY EmptySeq
    <3>3. Ordered(rest, seen) BY <3>1, <3>2 DEF Ordered
    <3>4. QED BY <2>1, <3>3
  <2>4. QED BY <2>2, <2>3
<1>3. QED BY <1>1, <1>2

-----------------------------------------------------------------------------
(* The commands' records.                                                   *)

LEMMA CommandKept ==
  ASSUME NEW m \in Commands, NEW new \in Command, PlanSound(new),
         cmd' = [cmd EXCEPT ![m] = new],
         CommandsSound, SeenSafe, VolumeKept,
         NearGc(new.plan) => \A x \in LiveHashes(new.seen) : Safe(x)'
  PROVE  CommandsSound' /\ SeenSafe'
<1>1. /\ cmd' \in [Commands -> Command] /\ cmd'[m] = new
      /\ \A n \in Commands : n # m => cmd'[n] = cmd[n]
  BY DEF CommandsSound
<1>2. CommandsSound'
  <2>1. ASSUME NEW n \in Commands PROVE PlanSound(cmd'[n])
    BY <1>1 DEF CommandsSound
  <2>2. QED BY <1>1, <2>1 DEF CommandsSound
<1>3. ASSUME NEW n \in Commands PROVE LiveHashes(cmd[n].seen) \subseteq Paths
  <2>1. cmd[n].seen \subseteq Closure BY DEF CommandsSound, Command
  <2>2. QED BY <2>1 DEF LiveHashes, PathsOf, Closure, Paths
<1>4. ASSUME NEW n \in Commands, NearGc(cmd'[n].plan), NEW x \in LiveHashes(cmd'[n].seen)
      PROVE  Safe(x)'
  <2>1. CASE n = m BY <1>1, <1>4, <2>1
  <2>2. CASE n # m
    <3>1. cmd'[n] = cmd[n] BY <1>1, <2>2
    <3>2. x \in Paths /\ Safe(x) BY <1>3, <1>4, <3>1 DEF SeenSafe
    <3>3. QED BY <3>2 DEF VolumeKept
  <2>3. QED BY <2>1, <2>2
<1>5. SeenSafe' BY <1>4 DEF SeenSafe
<1>6. QED BY <1>2, <1>5

LEMMA CommandsUnchanged ==
  ASSUME CommandsSound, SeenSafe, VolumeKept, cmd' = cmd
  PROVE  CommandsSound' /\ SeenSafe'
<1>1. CommandsSound' BY DEF CommandsSound
<1>2. ASSUME NEW n \in Commands, NearGc(cmd[n].plan), NEW x \in LiveHashes(cmd[n].seen)
      PROVE  Safe(x)'
  <2>1. cmd[n].seen \subseteq Closure BY DEF CommandsSound, Command
  <2>2. x \in Paths BY <2>1 DEF LiveHashes, PathsOf, Closure, Paths
  <2>3. Safe(x) BY <1>2 DEF SeenSafe
  <2>4. QED BY <2>2, <2>3 DEF VolumeKept
<1>3. SeenSafe' BY <1>2 DEF SeenSafe
<1>4. QED BY <1>1, <1>3

\* A command that executes no plan.
LEMMA PlanlessKept ==
  ASSUME NEW m \in Commands, NEW new \in Command, new.plan = <<>>, new.at # "exec",
         Set(m, new), CommandsSound, SeenSafe, VolumeKept
  PROVE  CommandsSound' /\ SeenSafe'
<1>1. ~NearGc(new.plan) BY DEF NearGc
<1>2. Ordered(<<>>, new.seen)
  <2>1. <<>> \in Seq(StepRec) /\ Len(<<>>) = 0 BY EmptySeq
  <2>2. QED BY <2>1 DEF Ordered
<1>3. PlanSound(new) BY <1>2 DEF PlanSound
<1>4. QED BY <1>1, <1>3, CommandKept DEF Set

LEMMA FinishKept ==
  ASSUME NEW m \in Commands, Finish(m), CommandsSound, SeenSafe, VolumeKept
  PROVE  CommandsSound' /\ SeenSafe'
<1> DEFINE new == [NoCommand EXCEPT !.kind = cmd[m].kind, !.at = "done"]
<1>1. cmd[m].kind \in Kinds \cup {"none"} BY DEF CommandsSound, Command
<1>2. <<>> \in Seq(StepRec) BY EmptySeq
<1>3. new \in Command /\ new.plan = <<>> /\ new.at # "exec"
  BY <1>1, <1>2 DEF NoCommand, Command, CommandAt
<1>4. Set(m, new) BY DEF Finish
<1> HIDE DEF new
<1>5. QED BY <1>3, <1>4, PlanlessKept

\* Before the plan.
LEMMA Started ==
  ASSUME NEW kind \in Kinds, NEW at \in CommandAt \ {"exec"}, NEW listed \in SUBSET Cells, NEW new,
         \/ new = [[NoCommand EXCEPT !.kind = kind] EXCEPT !.at = at]
         \/ new = [[NoCommand EXCEPT !.kind = kind] EXCEPT !.at = at, !.listed = listed]
  PROVE  new \in Command /\ new.plan = <<>> /\ new.at # "exec"
<1>1. <<>> \in Seq(StepRec) BY EmptySeq
<1>2. QED BY <1>1 DEF NoCommand, Command, CommandAt

LEMMA Replanned ==
  ASSUME NEW old \in Command, NEW plan \in Seq(StepRec), NEW new,
         new = [old EXCEPT !.plan = plan]
  PROVE  new \in Command /\ new.plan = plan /\ new.seen = old.seen /\ new.at = old.at
BY DEF Command

\* What is left of a plan is executed, or the command is done.
LEMMA ContinueKept ==
  ASSUME NEW m \in Commands, NEW rest, cmd[m].at = "exec",
         Ordered(rest, cmd[m].seen), Continue(m, rest), CommandsSound, SeenSafe, VolumeKept,
         NearGc(rest) => \A x \in LiveHashes(cmd[m].seen) : Safe(x)'
  PROVE  CommandsSound' /\ SeenSafe'
<1>1. CASE rest = <<>> BY <1>1, FinishKept DEF Continue
<1>2. CASE rest # <<>>
  <2> DEFINE old == cmd[m]
             new == [old EXCEPT !.plan = rest]
  <2>1. old \in Command BY DEF CommandsSound
  <2>2. rest \in Seq(StepRec) BY DEF Ordered
  <2>3. Set(m, new) BY <1>2 DEF Continue
  <2> HIDE DEF old
  <2>4. new \in Command /\ new.plan = rest /\ new.seen = old.seen /\ new.at = old.at
    BY <2>1, <2>2, Replanned
  <2> HIDE DEF new
  <2>5. new.at = "exec" /\ new.seen = cmd[m].seen BY <2>4 DEF old
  <2>6. PlanSound(new) BY <1>2, <2>4, <2>5 DEF PlanSound
  <2>7. NearGc(new.plan) => \A x \in LiveHashes(new.seen) : Safe(x)' BY <2>4, <2>5
  <2>8. cmd' = [cmd EXCEPT ![m] = new] BY <2>3 DEF Set
  <2>9. QED BY <2>4, <2>6, <2>7, <2>8, CommandKept
<1>3. QED BY <1>1, <1>2

-----------------------------------------------------------------------------
(* The steps of the commands.                                               *)

LEMMA EffectKept ==
  ASSUME NEW m \in Commands, NEW do \in Does, Effect(m, do),
         RootsSound, links \subseteq Profiles, CellsSound, cmd[m].seen \in SUBSET Closure
  PROVE  /\ VolumeKept
         /\ tag' \in [Tags -> Image] /\ container' \in [Cells -> Image]
         /\ do = "stamp" => \A x \in LiveHashes(cmd[m].seen) : Safe(x)'
<1> DEFINE Docker == tag' \in [Tags -> Image] /\ container' \in [Cells -> Image]
<1>0. None \in Image BY DEF Image
<1>1. CASE do = "prune images"
  <2>1. PruneImages /\ UNCHANGED <<volume, daemon, container, unrooted>>
    BY <1>1, Zenon DEF Effect
  <2>2. VolumeKept BY <2>1, SafeUnchanged DEF volume
  <2>3. Docker BY <2>1, <1>0 DEF PruneImages, CellsSound
  <2>4. QED BY <1>1, <2>2, <2>3
<1>2. CASE do = "stamp"
  <2>1. Stamp(cmd[m].seen) /\ UNCHANGED docker BY <1>2 DEF Effect
  <2>2. VolumeKept /\ \A x \in LiveHashes(cmd[m].seen) : Safe(x)' BY <2>1, SafeWhenStamped
  <2>3. Docker BY <2>1 DEF docker, CellsSound
  <2>4. QED BY <2>2, <2>3
<1>3. CASE do = "sweep"
  <2>1. SweepLinks /\ UNCHANGED docker BY <1>3 DEF Effect
  <2>2. links' \subseteq links BY <2>1 DEF SweepLinks
  <2>3. VolumeKept BY <2>1, <2>2, SafeWhenSwept DEF SweepLinks
  <2>4. Docker BY <2>1 DEF docker, CellsSound
  <2>5. QED BY <1>3, <2>3, <2>4
<1>4. CASE do = "gc"
  <2>1. CollectGarbage /\ UNCHANGED <<roots, links, tools, docker, unrooted>>
    BY <1>4 DEF Effect
  <2>2. VolumeKept BY <2>1, SafeWhenCollected
  <2>3. Docker BY <2>1 DEF docker, CellsSound
  <2>4. QED BY <1>4, <2>2, <2>3
<1>5. CASE do = "stop daemon"
  <2>1. /\ container' = [c \in Cells |-> None]
        /\ UNCHANGED <<volume, images, tag, unrooted>>
    BY <1>5 DEF Effect
  <2>2. VolumeKept BY <2>1, SafeUnchanged DEF volume
  <2>3. Docker BY <2>1, <1>0 DEF CellsSound
  <2>4. QED BY <1>5, <2>2, <2>3
<1>6. CASE do = "wipe data"
  <2>1. /\ tag' = [t \in Tags |-> None] /\ container' = container
        /\ roots' = {} /\ links' = {} /\ unrooted' = Paths
    BY <1>6 DEF Effect
  <2>2. VolumeKept BY <2>1, SafeWhenRemoved
  <2>3. Docker BY <2>1, <1>0 DEF CellsSound
  <2>4. QED BY <1>6, <2>2, <2>3
<1>7. CASE do = "start daemon"
  <2>1. UNCHANGED <<volume, images, tag, container, unrooted>> BY <1>7 DEF Effect
  <2>2. VolumeKept BY <2>1, SafeUnchanged DEF volume
  <2>3. Docker BY <2>1 DEF CellsSound
  <2>4. QED BY <1>7, <2>2, <2>3
<1>8. CASE do \in {"prune rest", "registry", "builder vm", "host gc"}
  <2>1. UNCHANGED <<volume, docker, unrooted>> BY <1>8 DEF Effect
  <2>2. VolumeKept BY <2>1, SafeUnchanged DEF volume
  <2>3. Docker BY <2>1 DEF docker, CellsSound
  <2>4. QED BY <1>8, <2>2, <2>3
<1>9. QED BY <1>1, <1>2, <1>3, <1>4, <1>5, <1>6, <1>7, <1>8 DEF Does

LEMMA PlanFacts ==
  ASSUME NEW m \in Commands, CommandsSound, cmd[m].at = "exec"
  PROVE  /\ Ordered(cmd[m].plan, cmd[m].seen) /\ cmd[m].plan # <<>>
         /\ cmd[m].plan[1] \in StepRec /\ Marked(cmd[m].plan[1])
         /\ cmd[m].seen \in SUBSET Closure
<1> DEFINE plan == cmd[m].plan
<1>1. PlanSound(cmd[m]) /\ cmd[m] \in Command BY DEF CommandsSound
<1>2. Ordered(plan, cmd[m].seen) /\ plan # <<>> BY <1>1 DEF PlanSound
<1>3. cmd[m].seen \in SUBSET Closure BY <1>1 DEF Command
<1> HIDE DEF plan
<1>4. plan \in Seq(StepRec) BY <1>2 DEF Ordered
<1>5. Len(plan) \in Nat /\ Len(plan) # 0 BY <1>2, <1>4, LenProperties, EmptySeq
<1>6. 1 \in 1 .. Len(plan) BY <1>5
<1>7. plan[1] \in StepRec BY <1>4, <1>6, ElementOfSeq
<1>8. Marked(plan[1]) BY <1>2, <1>6 DEF Ordered
<1>9. QED BY <1>2, <1>3, <1>7, <1>8 DEF plan

\* A step of a plan that was carried out.
LEMMA StepDoneKept ==
  ASSUME NixInv, NEW m \in Commands, StepDone(m)
  PROVE  NixInv'
<1> DEFINE step == cmd[m].plan[1]
           seen == cmd[m].seen
<1>1. cmd[m].at = "exec" BY DEF StepDone
<1>2. /\ RootsSound /\ links \subseteq Profiles /\ CellsSound /\ CommandsSound /\ SeenSafe
  BY DEF NixInv
<1>3. /\ Ordered(cmd[m].plan, seen) /\ cmd[m].plan # <<>>
      /\ step \in StepRec /\ Marked(step) /\ seen \in SUBSET Closure
  BY <1>1, <1>2, PlanFacts
<1>4. /\ VolumeKept
      /\ tag' \in [Tags -> Image] /\ container' \in [Cells -> Image]
      /\ ~step.dry /\ step.do = "stamp" => \A x \in LiveHashes(seen) : Safe(x)'
  <2>1. CASE step.dry
    <3>1. UNCHANGED <<volume, docker, builder, unrooted>> BY <2>1 DEF StepDone
    <3>2. VolumeKept BY <1>2, <3>1, SafeUnchanged DEF volume
    <3>3. QED BY <1>2, <2>1, <3>1, <3>2 DEF docker, CellsSound
  <2>2. CASE ~step.dry
    <3>1. Effect(m, step.do) BY <2>2 DEF StepDone
    <3>2. step.do \in Does BY <1>3 DEF StepRec
    <3>3. QED BY <1>2, <1>3, <3>1, <3>2, EffectKept
  <2>3. QED BY <2>1, <2>2
<1>5. /\ Ordered(Rest(m), seen)
      /\ NearGc(Rest(m)) /\ ~NearGc(cmd[m].plan) => seen = {} \/ step.do = "stamp"
  <2>1. \/ Rest(m) = Tail(cmd[m].plan)
        \/ step.do = "sweep" /\ Rest(m) = SubSeq(cmd[m].plan, 3, Len(cmd[m].plan))
    BY Zenon DEF Rest
  <2>2. QED BY <1>3, <2>1, RestOrdered
<1>6. ASSUME NearGc(Rest(m)), NEW x \in LiveHashes(seen) PROVE Safe(x)'
  <2>1. CASE NearGc(cmd[m].plan)
    <3>1. Safe(x) BY <1>2, <1>6, <2>1 DEF SeenSafe
    <3>2. x \in Paths BY <1>3, <1>6 DEF LiveHashes, PathsOf, Closure, Paths
    <3>3. QED BY <1>4, <3>1, <3>2 DEF VolumeKept
  <2>2. CASE seen = {} BY <1>6, <2>2 DEF LiveHashes
  <2>3. CASE step.do = "stamp"
    <3>1. ~step.dry BY <1>3, <2>3 DEF Marked
    <3>2. QED BY <1>4, <1>6, <2>3, <3>1
  <2>4. QED BY <1>5, <1>6, <2>1, <2>2, <2>3
<1>7. Continue(m, Rest(m)) BY DEF StepDone
<1>8. CommandsSound' /\ SeenSafe' BY <1>1, <1>2, <1>4, <1>5, <1>6, <1>7, ContinueKept
<1>9. run' \in [Cells -> RunRec]
  <2>1. Idle \in RunRec BY DEF Idle, RunRec, RunAt, Image
  <2>2. run' = [c \in Cells |-> IF builder'[c] # builder[c] THEN Idle ELSE run[c]]
    BY DEF StepDone
  <2>3. QED BY <1>2, <2>1, <2>2 DEF CellsSound
<1>10. CellsSound' BY <1>4, <1>9 DEF CellsSound
<1>11. QED BY <1>4, <1>8, <1>10 DEF NixInv, VolumeKept

\* A step that failed.
LEMMA StepFailsKept ==
  ASSUME NixInv, NEW m \in Commands, StepFails(m)
  PROVE  NixInv'
<1> DEFINE step == cmd[m].plan[1]
           seen == cmd[m].seen
<1>1. cmd[m].at = "exec" /\ UNCHANGED <<volume, docker, builder, run, launches, unrooted>>
  BY DEF StepFails
<1>2. /\ RootsSound /\ links \subseteq Profiles /\ CellsSound /\ CommandsSound /\ SeenSafe
  BY DEF NixInv
<1>3. /\ Ordered(cmd[m].plan, seen) /\ cmd[m].plan # <<>>
      /\ step \in StepRec /\ Marked(step) /\ seen \in SUBSET Closure
  BY <1>1, <1>2, PlanFacts
<1>4. VolumeKept BY <1>1, <1>2, SafeUnchanged DEF volume
<1>5. ASSUME step.ignore PROVE CommandsSound' /\ SeenSafe'
  <2> DEFINE rest == Tail(cmd[m].plan)
  <2>1. Continue(m, rest) BY <1>5 DEF StepFails
  <2>2. /\ Ordered(rest, seen)
        /\ NearGc(rest) /\ ~NearGc(cmd[m].plan) => seen = {} \/ step.do = "stamp"
    BY <1>3, RestOrdered
  <2>3. step.do # "stamp" BY <1>3, <1>5 DEF Marked
  <2>4. ASSUME NearGc(rest), NEW x \in LiveHashes(seen) PROVE Safe(x)'
    <3>1. seen # {} BY <2>4 DEF LiveHashes
    <3>2. NearGc(cmd[m].plan) BY <2>2, <2>3, <2>4, <3>1
    <3>3. Safe(x) BY <1>2, <2>4, <3>2 DEF SeenSafe
    <3>4. x \in Paths BY <1>3, <2>4 DEF LiveHashes, PathsOf, Closure, Paths
    <3>5. QED BY <1>4, <3>3, <3>4 DEF VolumeKept
  <2>5. QED BY <1>1, <1>2, <1>4, <2>1, <2>2, <2>4, ContinueKept
<1>6. ASSUME ~step.ignore PROVE CommandsSound' /\ SeenSafe'
  <2>1. Finish(m) BY <1>6 DEF StepFails
  <2>2. QED BY <1>2, <1>4, <2>1, FinishKept
<1>7. CommandsSound' /\ SeenSafe' BY <1>5, <1>6
<1>8. CellsSound' BY <1>1, <1>2 DEF CellsSound, docker
<1>9. QED BY <1>4, <1>7, <1>8 DEF NixInv, VolumeKept

LEMMA CommandStepKept ==
  ASSUME NixInv, NEW m \in Commands, CommandStep(m)
  PROVE  NixInv'
<1>1. /\ RootsSound /\ links \subseteq Profiles /\ CellsSound /\ CommandsSound /\ SeenSafe
      /\ cmd[m] \in Command /\ PlanSound(cmd[m])
  BY DEF NixInv, CommandsSound
<1>2. cmd[m].at # "exec" => cmd[m].plan = <<>> BY <1>1 DEF PlanSound
<1>3. ASSUME VolumeKept, CommandsSound' /\ SeenSafe', CellsSound' PROVE NixInv'
  BY <1>3 DEF NixInv, VolumeKept
<1>4. ASSUME UNCHANGED <<volume, docker, builder, run, launches, unrooted>>
      PROVE  VolumeKept /\ CellsSound'
  BY <1>1, <1>4, SafeUnchanged DEF volume, docker, CellsSound
<1>5. CASE ListRunning(m)
  <2>1. UNCHANGED <<volume, docker, builder, run, launches, unrooted>> BY <1>5 DEF ListRunning
  <2>2. PICK kind \in KindsOf[m] :
          LET started == [NoCommand EXCEPT !.kind = kind]
          IN IF kind = "force" THEN Set(m, [started EXCEPT !.at = "confirm"])
             ELSE IF daemon = "down" THEN Set(m, [started EXCEPT !.at = "done"])
             ELSE Set(m, [started EXCEPT !.at = "listed",
                                         !.listed = {c \in Cells : container[c] # None}])
    BY <1>5 DEF ListRunning
  <2>3. kind \in Kinds BY BoundAssumption
  <2>4. \E at \in CommandAt \ {"exec"} : \E new :
           /\ Set(m, new)
           /\ \/ new = [[NoCommand EXCEPT !.kind = kind] EXCEPT !.at = at]
              \/ new = [[NoCommand EXCEPT !.kind = kind] EXCEPT !.at = at,
                          !.listed = {c \in Cells : container[c] # None}]
    BY <2>2 DEF CommandAt
  <2>5. \E new : new \in Command /\ new.plan = <<>> /\ new.at # "exec" /\ Set(m, new)
    BY <2>3, <2>4, Started
  <2>6. QED BY <1>1, <1>3, <1>4, <2>1, <2>5, PlanlessKept
<1>6. CASE CollectLiveClosures(m)
  <2>1. UNCHANGED <<volume, docker, builder, run, launches, unrooted>>
    BY <1>6 DEF CollectLiveClosures
  <2>2. cmd[m].at = "listed" BY <1>6 DEF CollectLiveClosures
  <2>3. PICK failed \in SUBSET cmd[m].listed :
          /\ {c \in cmd[m].listed : container[c] = None} \subseteq failed
          /\ Set(m, [cmd[m] EXCEPT
              !.seen = {container[c] : c \in cmd[m].listed \ failed},
              !.failed = failed,
              !.at = IF cmd[m].kind = "auto" THEN "reap"
                     ELSE IF failed # {} THEN "broken" ELSE "confirm"])
    BY <1>6 DEF CollectLiveClosures
  <2> DEFINE seen == {container[c] : c \in cmd[m].listed \ failed}
             at == IF cmd[m].kind = "auto" THEN "reap"
                   ELSE IF failed # {} THEN "broken" ELSE "confirm"
             new == [cmd[m] EXCEPT !.seen = seen, !.failed = failed, !.at = at]
  <2>4. cmd[m].listed \subseteq Cells BY <1>1 DEF Command
  <2>5. seen \in SUBSET Closure
    <3>1. ASSUME NEW c \in cmd[m].listed \ failed PROVE container[c] \in Closure
      BY <1>1, <2>3, <2>4 DEF CellsSound, Image
    <3>2. QED BY <3>1
  <2>6. failed \in SUBSET Cells BY <2>4
  <2>7. at \in CommandAt /\ at # "exec" BY DEF CommandAt
  <2>8. Set(m, new) /\ new = [cmd[m] EXCEPT !.seen = seen, !.failed = failed, !.at = at]
    BY <2>3
  <2> HIDE DEF seen, at, new
  <2>9. new \in Command /\ new.plan = <<>> /\ new.at # "exec"
    BY <1>1, <1>2, <2>2, <2>5, <2>6, <2>7, <2>8 DEF Command
  <2>10. QED BY <1>1, <1>3, <1>4, <2>1, <2>8, <2>9, PlanlessKept
<1>7. CASE StopBroken(m)
  <2>1. /\ cmd[m].at = "broken"
        /\ UNCHANGED <<volume, daemon, images, tag, builder, run, launches, unrooted>>
    BY <1>7 DEF StopBroken
  <2>2. VolumeKept BY <1>1, <2>1, SafeUnchanged DEF volume
  <2>3. PICK yes, tty, answer \in BOOLEAN :
         IF ConfirmDestructive(yes, tty, answer)
         THEN \E stopped \in SUBSET cmd[m].failed :
                /\ container' = [c \in Cells |-> IF c \in stopped THEN None ELSE container[c]]
                /\ Set(m, [cmd[m] EXCEPT !.at = "confirm"])
         ELSE Finish(m) /\ UNCHANGED container
    BY <1>7 DEF StopBroken
  <2>4. CASE ConfirmDestructive(yes, tty, answer)
    <3> DEFINE new == [cmd[m] EXCEPT !.at = "confirm"]
    <3>1. Set(m, new) BY <2>3, <2>4
    <3>2. new \in Command /\ new.plan = <<>> /\ new.at # "exec"
      BY <1>1, <1>2, <2>1 DEF Command, CommandAt
    <3>3. container' \in [Cells -> Image] BY <1>1, <2>3, <2>4 DEF CellsSound, Image
    <3>4. CellsSound' BY <1>1, <2>1, <3>3 DEF CellsSound
    <3> HIDE DEF new
    <3>5. QED BY <1>1, <1>3, <2>2, <3>1, <3>2, <3>4, PlanlessKept
  <2>5. CASE ~ConfirmDestructive(yes, tty, answer)
    <3>1. Finish(m) /\ UNCHANGED container BY <2>3, <2>5
    <3>2. CellsSound' BY <1>1, <2>1, <3>1 DEF CellsSound
    <3>3. QED BY <1>1, <1>3, <2>2, <3>1, <3>2, FinishKept
  <2>6. QED BY <2>4, <2>5
<1>8. ASSUME NEW goos \in {"darwin", "linux"}, Confirm(m, goos) PROVE NixInv'
  <2>1. cmd[m].at = "confirm" /\ UNCHANGED <<volume, docker, builder, run, launches, unrooted>>
    BY <1>8 DEF Confirm
  <2>2. VolumeKept /\ CellsSound' BY <1>4, <2>1
  <2> DEFINE plan == PrunePlan(cmd[m].kind, goos, cmd[m].seen)
             reaping == [cmd[m] EXCEPT !.at = "reap"]
             executing == [cmd[m] EXCEPT !.at = "exec", !.plan = plan]
  <2>3. Finish(m) \/ Set(m, reaping) \/ Set(m, executing) BY <1>8 DEF Confirm
  <2>4. CASE Finish(m) BY <1>1, <1>3, <2>2, <2>4, FinishKept
  <2>5. CASE Set(m, reaping)
    <3>1. reaping \in Command /\ reaping.plan = <<>> /\ reaping.at # "exec"
      BY <1>1, <1>2, <2>1 DEF Command, CommandAt
    <3> HIDE DEF reaping
    <3>2. QED BY <1>1, <1>3, <2>2, <2>5, <3>1, PlanlessKept
  <2>6. CASE Set(m, executing)
    <3>1. Ordered(plan, cmd[m].seen) /\ plan # <<>> /\ ~NearGc(plan) BY PlansOrdered
    <3>2. plan \in Seq(StepRec) BY <3>1 DEF Ordered
    <3>3. executing = [cmd[m] EXCEPT !.at = "exec", !.plan = plan] OBVIOUS
    <3> HIDE DEF plan, executing
    <3>4. /\ executing \in Command /\ executing.plan = plan
          /\ executing.seen = cmd[m].seen /\ executing.at = "exec"
      BY <1>1, <3>2, <3>3 DEF Command, CommandAt
    <3>5. cmd' = [cmd EXCEPT ![m] = executing] BY <2>6 DEF Set
    <3>6. PlanSound(executing) /\ ~NearGc(executing.plan) BY <3>1, <3>4 DEF PlanSound
    <3>7. QED BY <1>1, <1>3, <2>2, <3>4, <3>5, <3>6, CommandKept
  <2>7. QED BY <2>3, <2>4, <2>5, <2>6
<1>9. CASE Reap(m)
  <2>1. VolumeKept BY <1>1, <1>9, SafeWhenReaped DEF Reap
  <2>2. CellsSound' BY <1>1, <1>9 DEF Reap, docker, CellsSound
  <2>3. Finish(m) BY <1>9 DEF Reap
  <2>4. QED BY <1>1, <1>3, <2>1, <2>2, <2>3, FinishKept
<1>10. CASE StepDone(m) BY <1>10, StepDoneKept
<1>11. CASE StepFails(m) BY <1>11, StepFailsKept
<1>12. QED BY <1>5, <1>6, <1>7, <1>8, <1>9, <1>10, <1>11 DEF CommandStep

-----------------------------------------------------------------------------
(* The steps of the cells.                                                  *)

LEMMA RunGoes ==
  ASSUME CellsSound, NEW c \in Cells, NEW at \in RunAt,
         NEW next \in {"idle", "phase", "start"}, NEW image \in Image,
         \/ EndRun(c) \/ Goto(c, at) \/ BuildThen(c, next) \/ UNCHANGED run
         \/ run' = [run EXCEPT ![c] = [Idle EXCEPT !.at = at]]
         \/ run' = [run EXCEPT ![c].at = at, ![c].next = next]
         \/ run' = [run EXCEPT ![c].at = at, ![c].image = image]
         \/ run' = [run EXCEPT ![c].image = image]
  PROVE  run' \in [Cells -> RunRec]
<1>1. run \in [Cells -> RunRec] BY DEF CellsSound
<1>2. Idle \in RunRec /\ [Idle EXCEPT !.at = at] \in RunRec
  BY DEF Idle, RunRec, RunAt, Image
<1>3. "prepare" \in RunAt BY DEF RunAt
<1>4. run[c] \in RunRec BY <1>1
<1>5. CASE EndRun(c) BY <1>1, <1>2, <1>5 DEF EndRun
<1>6. CASE Goto(c, at) BY <1>1, <1>4, <1>6 DEF Goto, RunRec
<1>7. CASE BuildThen(c, next) BY <1>1, <1>3, <1>4, <1>7 DEF BuildThen, RunRec
<1>8. CASE UNCHANGED run BY <1>1, <1>8
<1>9. CASE run' = [run EXCEPT ![c] = [Idle EXCEPT !.at = at]] BY <1>1, <1>2, <1>9
<1>10. CASE run' = [run EXCEPT ![c].at = at, ![c].next = next]
  BY <1>1, <1>4, <1>10 DEF RunRec
<1>11. CASE run' = [run EXCEPT ![c].at = at, ![c].image = image]
  BY <1>1, <1>4, <1>11 DEF RunRec
<1>12. CASE run' = [run EXCEPT ![c].image = image] BY <1>1, <1>4, <1>12 DEF RunRec
<1>13. QED BY <1>5, <1>6, <1>7, <1>8, <1>9, <1>10, <1>11, <1>12

LEMMA CellStepKept ==
  ASSUME NixInv, NEW c \in Cells, CellStep(c)
  PROVE  NixInv'
<1>1. /\ RootsSound /\ links \subseteq Profiles /\ CellsSound /\ CommandsSound /\ SeenSafe
      /\ run[c] \in RunRec /\ tag[TagOf[c]] \in Image
  BY ClosureAssumption DEF NixInv, CellsSound
<1> DEFINE Ran == run' \in [Cells -> RunRec]
<1>2. /\ None \in Image
      /\ {"idle", "prepare", "shell", "slot", "building", "gate", "phase", "check",
          "start", "docker run"} = RunAt
  BY DEF Image, RunAt
<1>3. ASSUME VolumeKept, cmd' = cmd, Ran,
             tag' \in [Tags -> Image], container' \in [Cells -> Image]
      PROVE  NixInv'
  <2>1. CellsSound' BY <1>3 DEF CellsSound
  <2>2. CommandsSound' /\ SeenSafe' BY <1>1, <1>3, CommandsUnchanged
  <2>3. QED BY <1>3, <2>1, <2>2 DEF NixInv, VolumeKept
<1>4. ASSUME VolumeKept, cmd' = cmd, Ran, UNCHANGED docker PROVE NixInv'
  BY <1>1, <1>3, <1>4 DEF docker, CellsSound
<1>5. ASSUME UNCHANGED <<volume, docker, cmd, unrooted>>, Ran PROVE NixInv'
  BY <1>1, <1>4, <1>5, SafeUnchanged DEF volume
<1>6. CASE Build(c)
  <2>1. Ran BY <1>1, <1>2, <1>6, RunGoes DEF Build
  <2>2. QED BY <1>5, <1>6, <2>1 DEF Build
<1>7. CASE BuildUpdate(c)
  <2>1. Ran BY <1>1, <1>2, <1>7, RunGoes DEF BuildUpdate
  <2>2. VolumeKept BY <1>1, <1>7, SafeWhenReset DEF BuildUpdate
  <2>3. QED BY <1>4, <1>7, <2>1, <2>2 DEF BuildUpdate
<1>8. CASE HydrateNixCache(c)
  <2>1. Ran BY <1>1, <1>2, <1>8, RunGoes DEF HydrateNixCache
  <2>2. VolumeKept
    <3>1. CASE UNCHANGED <<volume, unrooted>> BY <1>1, <3>1, SafeUnchanged DEF volume
    <3>2. CASE UNCHANGED <<store, roots, links, unrooted>> BY <1>1, <3>2, SafeUnchanged
    <3>3. CASE RemoveVolume BY <1>1, <3>3, SafeWhenReset
    <3>4. QED BY <1>8, <3>1, <3>2, <3>3 DEF HydrateNixCache
  <2>3. QED BY <1>4, <1>8, <2>1, <2>2 DEF HydrateNixCache
<1>9. CASE EnsureVolumeShell(c)
  <2>1. Ran BY <1>1, <1>2, <1>9, RunGoes DEF EnsureVolumeShell
  <2>2. VolumeKept BY <1>1, <1>9, SafeUnchanged DEF EnsureVolumeShell
  <2>3. QED BY <1>4, <1>9, <2>1, <2>2 DEF EnsureVolumeShell
<1>10. CASE StartBuilder(c)
  <2>1. Ran BY <1>1, <1>2, <1>10, RunGoes DEF StartBuilder
  <2>2. QED BY <1>5, <1>10, <2>1 DEF StartBuilder
<1>11. CASE Switch(c)
  <2>1. Ran BY <1>1, <1>11 DEF Switch, CellsSound
  <2>2. VolumeKept BY <1>1, <1>11, SafeUnchanged DEF Switch
  <2>3. QED BY <1>4, <1>11, <2>1, <2>2 DEF Switch
<1>12. CASE Pin(c)
  <2>1. PICK p \in ResolveProfile(c) :
         LET g == Wants[c]
             new == {[hash |-> p, kind |-> "profile", target |-> p],
                     [hash |-> p, kind |-> "meta", target |-> p]}
                    \cup (IF g \in store
                          THEN {[hash |-> p, kind |-> "generation", target |-> g]} ELSE {})
         IN /\ roots' = Links(new)
            /\ builder' = [builder EXCEPT ![c] = "image"]
            /\ run' = [run EXCEPT ![c].image = [profile |-> p, generation |-> g]]
    BY <1>12 DEF Pin
  <2>2. Wants[c] \in Generations BY ClosureAssumption
  <2>3. p \in Profiles BY <1>1, ClosureAssumption, <2>2 DEF ResolveProfile, Built
  <2> DEFINE image == [profile |-> p, generation |-> Wants[c]]
  <2>4. image \in Image BY <2>2, <2>3 DEF Image, Closure
  <2>5. run' = [run EXCEPT ![c].image = image] BY <2>1
  <2> HIDE DEF image
  <2>6. Ran BY <1>1, <2>4, <2>5 DEF RunRec, CellsSound
  <2>7. UNCHANGED <<store, links, tools, docker, launches, cmd, unrooted>> BY <1>12 DEF Pin
  <2>8. VolumeKept BY <1>1, <2>1, <2>2, <2>3, <2>7, SafeWhenPinned
  <2>9. QED BY <1>4, <2>6, <2>7, <2>8
<1>13. CASE BuilderFails(c)
  <2>1. Ran BY <1>1, <1>2, <1>13, RunGoes DEF BuilderFails
  <2>2. QED BY <1>5, <1>13, <2>1 DEF BuilderFails
<1>14. CASE BakeImage(c)
  <2>1. run[c].next \in RunAt BY <1>1, <1>2 DEF RunRec
  <2>2. Ran BY <1>1, <1>2, <1>14, <2>1, RunGoes DEF BakeImage
  <2>3. UNCHANGED <<volume, container, cmd, unrooted>> BY <1>14 DEF BakeImage
  <2>4. tag' = [tag EXCEPT ![TagOf[c]] = run[c].image] /\ run[c].image \in Image
    BY <1>1, <1>14 DEF BakeImage, RunRec
  <2>5. tag' \in [Tags -> Image] BY <1>1, <2>4 DEF CellsSound
  <2>6. VolumeKept BY <1>1, <2>3, SafeUnchanged DEF volume
  <2>7. QED BY <1>1, <1>3, <2>2, <2>3, <2>5, <2>6 DEF CellsSound
<1>15. CASE Interrupt(c)
  <2>1. Ran BY <1>1, <1>2, <1>15, RunGoes DEF Interrupt
  <2>2. QED BY <1>5, <1>15, <2>1 DEF Interrupt
<1>16. CASE Launch(c)
  <2>1. Ran BY <1>1, <1>2, <1>16, RunGoes DEF Launch
  <2>2. QED BY <1>5, <1>16, <2>1 DEF Launch
<1>17. CASE Gate(c)
  <2>1. Ran BY <1>1, <1>2, <1>17, RunGoes DEF Gate
  <2>2. QED BY <1>5, <1>17, <2>1 DEF Gate
<1>18. CASE NixStorePhase(c)
  <2>1. Ran BY <1>1, <1>2, <1>18, RunGoes DEF NixStorePhase
  <2>2. VolumeKept
    <3>1. CASE roots' = WithoutStale /\ unrooted' = unrooted \cup (Paths \ store)
      BY <1>1, <1>18, <3>1, SafeWhenSwept DEF NixStorePhase
    <3>2. CASE UNCHANGED <<roots, unrooted>>
      BY <1>1, <1>18, <3>2, SafeUnchanged DEF NixStorePhase
    <3>3. QED BY <1>18, <3>1, <3>2 DEF NixStorePhase
  <2>3. QED BY <1>4, <1>18, <2>1, <2>2 DEF NixStorePhase
<1>19. CASE ClosureCheck(c)
  <2>1. Ran BY <1>1, <1>2, <1>19, RunGoes DEF ClosureCheck
  <2>2. QED BY <1>5, <1>19, <2>1 DEF ClosureCheck
<1>20. CASE PinImage(c)
  <2>1. Ran BY <1>1, <1>2, <1>20, RunGoes DEF PinImage
  <2>2. QED BY <1>5, <1>20, <2>1 DEF PinImage
<1>21. CASE StartContainer(c)
  <2>1. Ran BY <1>1, <1>2, <1>21, RunGoes DEF StartContainer
  <2>2. UNCHANGED <<volume, tag, cmd, unrooted>> BY <1>21 DEF StartContainer
  <2>3. container' \in [Cells -> Image] BY <1>1, <1>21 DEF StartContainer, CellsSound, RunRec
  <2>4. VolumeKept BY <1>1, <2>2, SafeUnchanged DEF volume
  <2>5. QED BY <1>1, <1>3, <2>1, <2>2, <2>3, <2>4 DEF CellsSound
<1>22. CASE StopContainer(c)
  <2>1. UNCHANGED <<volume, tag, run, cmd, unrooted>> BY <1>22 DEF StopContainer
  <2>2. container' \in [Cells -> Image] BY <1>1, <1>2, <1>22 DEF StopContainer, CellsSound
  <2>3. VolumeKept BY <1>1, <2>1, SafeUnchanged DEF volume
  <2>4. QED BY <1>1, <1>3, <2>1, <2>2, <2>3 DEF CellsSound
<1>23. QED
  BY <1>6, <1>7, <1>8, <1>9, <1>10, <1>11, <1>12, <1>13, <1>14, <1>15, <1>16, <1>17,
     <1>18, <1>19, <1>20, <1>21, <1>22 DEF CellStep

-----------------------------------------------------------------------------
LEMMA NixInit == Init => NixInv
<1> SUFFICES ASSUME Init PROVE NixInv OBVIOUS
<1>1. links \subseteq Profiles BY DEF Init
<1>2. RootsSound BY DEF Init, RootsSound
<1>3. CellsSound
  <2>1. \A c \in Cells : Built(c) \in Closure BY ClosureAssumption DEF Built, Closure
  <2>2. images \subseteq Closure BY <2>1 DEF Init
  <2>3. tag \in [Tags -> Image] BY <2>2 DEF Init, Image
  <2>4. container \in [Cells -> Image] BY DEF Init, Image
  <2>5. Idle \in RunRec BY DEF Idle, RunRec, RunAt, Image
  <2>6. run \in [Cells -> RunRec] BY <2>5 DEF Init
  <2>7. QED BY <2>3, <2>4, <2>6 DEF CellsSound
<1>4. /\ NoCommand \in Command /\ NoCommand.at = "new" /\ NoCommand.plan = <<>>
      /\ NoCommand.seen = {}
  <2>1. <<>> \in Seq(StepRec) BY EmptySeq
  <2>2. QED BY <2>1 DEF NoCommand, Command, CommandAt
<1>5. PlanSound(NoCommand) /\ ~NearGc(NoCommand.plan)
  <2>1. <<>> \in Seq(StepRec) /\ Len(<<>>) = 0 BY EmptySeq
  <2>2. Ordered(<<>>, NoCommand.seen) BY <2>1 DEF Ordered
  <2>3. QED BY <1>4, <2>2 DEF PlanSound, NearGc
<1>6. cmd = [m \in Commands |-> NoCommand] BY DEF Init
<1>7. CommandsSound BY <1>4, <1>5, <1>6 DEF CommandsSound
<1>8. SeenSafe BY <1>5, <1>6 DEF SeenSafe
<1>9. QED BY <1>1, <1>2, <1>3, <1>7, <1>8 DEF NixInv

LEMMA NixStep == NixInv /\ [Next]_vars => NixInv'
<1> SUFFICES ASSUME NixInv, [Next]_vars PROVE NixInv' OBVIOUS
<1>1. CASE Next BY <1>1, CellStepKept, CommandStepKept DEF Next
<1>2. CASE UNCHANGED vars
  <2>1. UNCHANGED <<volume, docker, run, cmd, unrooted>> BY <1>2 DEF vars
  <2>2. VolumeKept BY <2>1, SafeUnchanged DEF volume, NixInv
  <2>3. CommandsSound' /\ SeenSafe' BY <2>1, <2>2, CommandsUnchanged DEF NixInv
  <2>4. CellsSound' BY <2>1 DEF docker, CellsSound, NixInv
  <2>5. QED BY <2>2, <2>3, <2>4 DEF NixInv, VolumeKept
<1>3. QED BY <1>1, <1>2

\* Roots stay sound, plans are in order, and from the stamp to the collector
\* every path a command saw has its root or an excuse (StampRootsScript and
\* SafeNixGCScript of prune.go against every other writer of gcroots/devcell).
THEOREM StampsSurvive == Spec => []NixInv
BY NixInit, NixStep, PTL DEF Spec

\* Only its own collector is a command's Collects.
LEMMA CollectsByItself ==
  ASSUME NixInv, Next, NEW m \in Commands, Collects(m)
  PROVE  CollectGarbage
<1>1. cmd[m].at = "exec" /\ cmd[m].plan[1].do = "gc" /\ cmd'[m] # cmd[m] /\ store' # store
  BY DEF Collects
<1>2. cmd \in [Commands -> Command] BY DEF NixInv, CommandsSound
<1>3. ASSUME NEW c \in Cells, CellStep(c) PROVE FALSE
  BY <1>1, <1>3 DEF CellStep, Build, BuildUpdate, HydrateNixCache, EnsureVolumeShell,
     StartBuilder, Switch, Pin, BuilderFails, BakeImage, Interrupt, Launch, Gate,
     NixStorePhase, ClosureCheck, PinImage, StartContainer, StopContainer
<1>4. PICK n \in Commands : CommandStep(n) BY <1>3 DEF Next
<1>5. n = m
  <2>1. \E new : cmd' = [cmd EXCEPT ![n] = new]
    BY <1>4 DEF CommandStep, ListRunning, CollectLiveClosures, StopBroken, Confirm, Reap,
       StepDone, StepFails, Continue, Finish, Set
  <2>2. QED BY <1>1, <1>2, <2>1
<1>6. StepDone(m)
  BY <1>1, <1>4, <1>5 DEF CommandStep, ListRunning, CollectLiveClosures, StopBroken, Confirm,
     Reap, StepFails, volume
<1>7. ~cmd[m].plan[1].dry BY <1>1, <1>6 DEF StepDone, volume
<1>8. Effect(m, cmd[m].plan[1].do) BY <1>6, <1>7 DEF StepDone
<1>9. QED BY <1>1, <1>8, Zenon DEF Effect

\* "Every closure reachable from a running cell is rooted BEFORE gc runs"
\* (prune.go:144): a prune takes no path of a running container's closure that
\* it collected, whatever builds, runs, sweeps and cleanups of other terminals
\* do between its stamp and its collector, unless a reaper took that path's
\* root, its volume was recreated, or it was absent when a sweep looked.
THEOREM CollectedIsKept == Spec => KeepsCollected
<1> DEFINE Promise ==
      \A m \in Commands, c \in Cells :
         Collects(m) /\ container[c] \in cmd[m].seen
           => PathsOf(container[c]) \cap (store \ store') \subseteq unrooted
<1>1. ASSUME NixInv, [Next]_vars PROVE [Promise]_vars
  <2>1. SUFFICES ASSUME Next, NEW m \in Commands, NEW c \in Cells,
                        Collects(m), container[c] \in cmd[m].seen,
                        NEW x \in PathsOf(container[c]), x \in store, x \notin store'
                 PROVE  x \in unrooted
    BY <1>1
  <2>2. store' = store \cap Reachable BY <1>1, <2>1, CollectsByItself DEF CollectGarbage
  <2>3. NearGc(cmd[m].plan)
    <3>1. cmd[m].at = "exec" /\ cmd[m].plan[1].do = "gc" BY <2>1 DEF Collects
    <3>2. cmd[m].plan # <<>> BY <1>1, <3>1, PlanFacts DEF NixInv
    <3>3. QED BY <3>1, <3>2 DEF NearGc
  <2>4. x \in LiveHashes(cmd[m].seen) BY <2>1 DEF LiveHashes
  <2>5. Safe(x) BY <1>1, <2>3, <2>4 DEF NixInv, SeenSafe
  <2>6. ASSUME StampedRoot(x) \in roots PROVE x \in Reachable
    <3>1. StampedRoot(x).kind # "meta" /\ StampedRoot(x).target = x BY DEF StampedRoot
    <3>2. QED BY <2>6, <3>1 DEF Reachable, Protected
  <2>7. QED BY <2>1, <2>2, <2>5, <2>6 DEF Safe
<1>2. NixInv /\ [Next]_vars => [Promise]_vars BY <1>1
<1>3. QED BY <1>2, StampsSurvive, PTL DEF Spec, KeepsCollected

=============================================================================
