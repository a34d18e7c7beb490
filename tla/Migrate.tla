------------------------------ MODULE Migrate ------------------------------
(***************************************************************************)
(* `devcell config migrate`: a file's deprecated keys are rewritten to the *)
(* current ones, on the content records of ConfigLayers.  A rewrite that   *)
(* would not load is refused; the text of comments is left out.            *)
(***************************************************************************)
EXTENDS ConfigLayers

Refused == [refused |-> TRUE]

\* The keys of a file, current and deprecated, and its two lists of volumes.
Keys ==
    {"scalar", "privileged", "gui", "cellGui", "modules", "packages", "stable", "caps",
     "ports", "cellPorts", "mcps", "cellMcps", "docs", "secrets", "tunnels", "env",
     "mounts", "cellMounts", "provider", "useOllama", "useOpenRouter", "model", "oldModel",
     "proxy"}
IsText(raw) ==
    /\ raw = [k \in Keys |-> raw[k]]
    /\ {raw.mounts, raw.cellMounts} \subseteq Seq([source : STRING, path : STRING])

NoModel == [prefix |-> "", id |-> ""]
Deprecated(raw) ==
    \/ raw.useOllama \/ raw.useOpenRouter
    \/ NamedModel(raw).prefix # "" \/ raw.oldModel # NoModel
    \/ raw.ports # {} \/ raw.mcps # {} \/ raw.docs # {} \/ raw.stable # {}
    \/ raw.mounts # <<>> \/ raw.cellGui # "unset"

\* move: an array is appended to the one under the new key, any other value
\* gives way to the one that is there.
moveList(old, new) == IF old = {} THEN new
                      ELSE IF new = {} THEN old ELSE {Held(old) \cup Held(new)}
moveValue(old, new, unset) == IF new = unset THEN old ELSE new

\* A whole table that is renamed over an existing one repeats the keys that
\* both have, and such a file does not load.
renameTable(raw) == raw.docs # {} => raw.secrets = {}

\* A legacy switch names the provider.  A section that was rewritten and still
\* names none is given the default one.
MigrateProvider(raw) ==
    IF Provider(raw) # "" THEN Provider(raw)
    ELSE IF NamedModel(raw).prefix # "" \/ raw.oldModel # NoModel
    THEN "default" ELSE ""

MigrateTOMLOverwrites(raw) ==
    [raw EXCEPT !.ports = {}, !.cellPorts = IF raw.ports = {} THEN @ ELSE raw.ports]
MigrateTOML(raw) ==
    IF ~Loads(raw) \/ ~renameTable(raw) THEN Refused
    ELSE [raw EXCEPT
            !.docs = {}, !.secrets = raw.docs \cup @,
            !.mounts = <<>>, !.cellMounts = @ \o raw.mounts,
            !.ports = {}, !.cellPorts = @ \cup raw.ports,
            !.mcps = {}, !.cellMcps = @ \cup raw.mcps,
            !.cellGui = "unset", !.gui = moveValue(raw.cellGui, @, "unset"),
            !.stable = {}, !.packages = moveList(raw.stable, @),
            !.useOllama = FALSE, !.useOpenRouter = FALSE,
            !.provider = MigrateProvider(raw),
            !.model = [prefix |-> "", id |-> NamedModel(raw).id],
            !.oldModel = NoModel]

\* The file on disk before and after, and the copy made of it.  A dry run, a
\* file without deprecated keys and one that cannot be written stay as they
\* are; only a file that is written leaves a backup.
MigrateFile(file, write, writable) ==
    LET changes == file.state = "text" /\ Deprecated(file.raw)
        result == IF file.state = "text" THEN MigrateTOML(file.raw) ELSE Refused
    IN IF changes /\ result # Refused /\ write /\ writable
       THEN [file |-> Has(result), backup |-> {file}, failed |-> FALSE]
       ELSE [file |-> file, backup |-> {},
             failed |-> file.state # "missing" /\ result = Refused]

-----------------------------------------------------------------------------
(* Properties. *)

\* One file says the same in its new spelling: what it loads as, except that
\* packages move between two keys which a merge joins, and that of two
\* [[volumes]], or of one and a [cell] volume, on one path the other one counts.
SameFile(raw, new) ==
    LET old == LoadFile(raw)
        now == LoadFile(new)
        distinct == /\ Paths(raw.mounts) \cap Paths(raw.cellMounts) = {}
                    /\ \A i, j \in DOMAIN raw.mounts :
                            raw.mounts[i].path = raw.mounts[j].path => i = j
    IN /\ {k \in DOMAIN old : old[k] # now[k]}
            \subseteq {"packages", "stable", "mounts", "provider"}
       /\ Held(old.packages) \cup Held(old.stable)
            = Held(now.packages) \cup Held(now.stable)
       /\ ActiveProvider(old) = ActiveProvider(now)
       /\ distinct => Mounted(old) = Mounted(now)

\* A migration keeps what its file means, leaves nothing deprecated behind and
\* has nothing to do a second time; a file it does not rewrite stays as it is,
\* and one that it does is kept as a backup.
MigrationKeepsMeaning(raw, write, writable) ==
    LET done == MigrateFile(Has(raw), write, writable) IN
    IF done.file = Has(raw) THEN done.backup = {}
    ELSE /\ SameFile(raw, done.file.raw)
         /\ ~Deprecated(done.file.raw)
         /\ done.backup = {Has(raw)}
=============================================================================
