----------------------------- MODULE DiskUsage -----------------------------
(***************************************************************************)
(* `cell build df`: the report of docker's disk usage (df.go, df_collect.go *)
(* and cmd/build_df.go).  Docker's listing is one sequence per kind; a size *)
(* is the word that docker prints: nothing, or a number and a unit.  A      *)
(* label is what it is made of; the layout of the table is left out.        *)
(***************************************************************************)
EXTENDS Integers, SequencesExt, FiniteSetsExt, Functions

CONSTANT Kilo \* the factor between two units, 1000 for docker

LOCAL Error == [error |-> TRUE]
Unknown == -1

-----------------------------------------------------------------------------
(* Reading docker's listing. *)

sizeUnit ==
    [u \in {"B", "", "kB", "KB", "MB", "GB", "TB"} |->
        CASE u \in {"B", ""} -> 1
          [] u \in {"kB", "KB"} -> Kilo
          [] u = "MB" -> Kilo ^ 2
          [] u = "GB" -> Kilo ^ 3
          [] u = "TB" -> Kilo ^ 4]

\* A size in words is <<>>, <<"N/A">> or a number in tenths with its unit.
Parses(size) == Len(size) = 2 => size[2] \in DOMAIN sizeUnit

ParseSize(size) ==
    IF Len(size) < 2 THEN Unknown
    ELSE (size[1] * sizeUnit[size[2]] + 5) \div 10

\* A count is <<n>>, or <<>> for "N/A" and what is no number.
atoiOr(count) == IF count = <<>> THEN 0 ELSE count[1]

parseBoolLoose(word) == word \in {"true", "True", "yes", "1"}

\* The writable layer is the part before the parenthesis.
containerRWSize(size) == size.writable

ParseSystemDF(raw) ==
    IF \/ \E i \in DOMAIN raw.images :
            \/ ~Parses(raw.images[i].size)
            \/ ~Parses(raw.images[i].unique)
            \/ ~Parses(raw.images[i].shared)
       \/ \E i \in DOMAIN raw.containers : ~Parses(containerRWSize(raw.containers[i].size))
       \/ \E i \in DOMAIN raw.volumes : ~Parses(raw.volumes[i].size)
       \/ \E i \in DOMAIN raw.cache : ~Parses(raw.cache[i].size)
    THEN Error
    ELSE [images |-> [i \in DOMAIN raw.images |->
            [raw.images[i] EXCEPT
                !.size = ParseSize(@), !.unique = ParseSize(@), !.shared = ParseSize(@),
                !.containers = atoiOr(@)]],
          containers |-> [i \in DOMAIN raw.containers |->
            [raw.containers[i] EXCEPT !.size = ParseSize(containerRWSize(@))]],
          volumes |-> [i \in DOMAIN raw.volumes |->
            [raw.volumes[i] EXCEPT !.size = ParseSize(@), !.links = atoiOr(@)]],
          cache |-> [i \in DOMAIN raw.cache |->
            [raw.cache[i] EXCEPT !.size = ParseSize(@), !.inUse = parseBoolLoose(@)]]]

-----------------------------------------------------------------------------
(* Ranking. *)

imageLabel(image) ==
    IF image.repository \in {"", "<none>"}
    THEN <<"<none>">> \o (IF image.created = "" THEN <<>> ELSE <<image.created>>)
    ELSE <<image.repository>> \o (IF image.tag \in {"", "<none>"} THEN <<>> ELSE <<image.tag>>)

cacheLabel(record) ==
    IF record.description = "" THEN <<"(build cache)">> ELSE <<record.description>>

Entry(kind, id, label, size, reclaim, pins) ==
    [kind |-> kind, id |-> id, label |-> label, size |-> size, reclaim |-> reclaim,
     pins |-> pins]

Flattened(snap) ==
    [i \in DOMAIN snap.images |->
        LET m == snap.images[i]
        IN Entry("image", m.id, imageLabel(m), m.size, m.unique, m.containers)]
    \o [i \in DOMAIN snap.volumes |->
        LET v == snap.volumes[i]
            size == Max({v.size, 0})
        IN Entry("volume", v.name, <<v.name>>, size, size, v.links)]
    \o [i \in DOMAIN snap.cache |->
        LET c == snap.cache[i]
        IN Entry("cache", c.id, cacheLabel(c), c.size, c.size, IF c.inUse THEN 1 ELSE 0)]
    \o [i \in DOMAIN snap.containers |->
        LET c == snap.containers[i]
        IN Entry("container", c.id, <<c.names>>, c.size, c.size,
                 IF c.state = "running" THEN 1 ELSE 0)]

\* The largest reclaimable entry first; equal ones stay in docker's order.
RankEntries(snap) ==
    LET all == Flattened(snap)
        before(i, j) ==
            IF all[i].reclaim # all[j].reclaim THEN all[i].reclaim > all[j].reclaim
            ELSE IF all[i].size # all[j].size THEN all[i].size > all[j].size
            ELSE i < j
        order == SetToSortSeq(DOMAIN all, before)
    IN [k \in DOMAIN order |-> all[order[k]]]

Capped(entries, top) ==
    IF top > 0 /\ Len(entries) > top THEN SubSeq(entries, 1, top) ELSE entries

filterByKind(entries, kinds) ==
    IF kinds = {} THEN entries ELSE SelectSeq(entries, LAMBDA e : e.kind \in kinds)

\* A mutant: the order that the code once had, the cap before the filter.
selectEntriesCapFirst(snap, opts) ==
    filterByKind(Capped(RankEntries(snap), opts.top), opts.kinds)

selectEntries(snap, opts) ==
    Capped(filterByKind(RankEntries(snap), opts.kinds), opts.top)

-----------------------------------------------------------------------------
(* Totals and hints. *)

Sum(bytes(_), items) == FoldLeftDomain(LAMBDA total, i : total + bytes(items[i]), 0, items)

computeTotals(snap) ==
    [image |-> Sum(LAMBDA m : m.unique, snap.images),
     container |-> Sum(LAMBDA c : c.size, snap.containers),
     volume |-> Sum(LAMBDA v : Max({v.size, 0}), snap.volumes),
     cache |-> Sum(LAMBDA c : c.size, snap.cache)]

Orphaned(snap) ==
    Sum(LAMBDA m : IF m.containers = 0 THEN m.unique ELSE 0, snap.images)

totalsLine(snap) ==
    LET images == computeTotals(snap).image
    IN [totals |-> computeTotals(snap),
        orphaned |-> IF images > 0 THEN (Orphaned(snap) * 100) \div images ELSE 0]

\* The bytes that the last line says the two commands reclaim; none without.
bottomHint(snap) ==
    LET cache == computeTotals(snap).cache
    IN IF Orphaned(snap) = 0 /\ cache = 0 THEN <<>> ELSE <<Orphaned(snap) + cache>>

reclaimCommand(e) ==
    CASE e.kind = "image" -> <<"docker image rm", e.id>>
      [] e.kind \in {"cache", "volume"} -> <<"docker buildx prune -af">>
      [] e.kind = "container" -> <<"docker rm", e.id>>

describeEntry(e) == IF e.pins > 0 THEN <<>> ELSE reclaimCommand(e)

-----------------------------------------------------------------------------
(* The two reports. *)

FormatTable(snap, opts) ==
    LET entries == selectEntries(snap, opts)
    IN [rows |-> [i \in DOMAIN entries |-> [entry |-> entries[i],
                                            hint |-> describeEntry(entries[i])]],
        totals |-> totalsLine(snap).totals, orphaned |-> totalsLine(snap).orphaned,
        hints |-> bottomHint(snap)]

FormatJSON(snap, opts) ==
    LET entries == selectEntries(snap, opts)
    IN [rows |-> [i \in DOMAIN entries |-> [entry |-> entries[i],
                                            hint |-> reclaimCommand(entries[i])]],
        totals |-> computeTotals(snap), hints |-> bottomHint(snap)]

\* `docker ps` gives each container with its mounts, volumes and paths alike.
CollectVolumeMounts(ps) ==
    [v \in UNION {ToSet(ps[i].mounts) : i \in DOMAIN ps} |->
        {ps[i].name : i \in {k \in DOMAIN ps : v \in ToSet(ps[k].mounts)}}]

VolumeUsers(snap, ps) ==
    LET mounts == CollectVolumeMounts(ps)
    IN [v \in {snap.volumes[i].name : i \in DOMAIN snap.volumes} \cap DOMAIN mounts |->
            mounts[v]]

FormatTableWithVM(snap, opts, ps) ==
    FormatTable(snap, opts) @@ [users |-> VolumeUsers(snap, ps), running |-> ps]

\* A kind is taken in the singular and in the plural.
toEntryKinds(words) ==
    LET singular == [k \in {"images", "containers", "volumes", "caches"} |->
                        CASE k = "images" -> "image" [] k = "containers" -> "container"
                          [] k = "volumes" -> "volume" [] k = "caches" -> "cache"]
    IN {IF w \in DOMAIN singular THEN singular[w] ELSE w : w \in words}

\* The listing of the containers is asked after that of the disk, and only for
\* the table.
RunDF(raw, flags, ps) ==
    LET snap == ParseSystemDF(raw)
        opts == [top |-> IF flags.all THEN 0 ELSE flags.top, kinds |-> toEntryKinds(flags.kinds)]
    IN IF snap = Error THEN Error
       ELSE IF flags.json THEN FormatJSON(snap, opts)
       ELSE FormatTableWithVM(snap, opts, ps)
=============================================================================
