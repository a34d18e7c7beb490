--------------------------- MODULE NetworkPolicy ---------------------------
(***************************************************************************)
(* [network.proxy]: how the layers of a configuration combine into one     *)
(* egress policy, and which destinations the squid gateway that is         *)
(* generated from it lets a cell reach.                                    *)
(* A tri-state is "unset", "on" or "off" (a nil or a set *bool).  A        *)
(* destination stands for a domain or a CIDR; squid's matching of          *)
(* subdomains is left out, because allow and block match alike.            *)
(***************************************************************************)
EXTENDS FiniteSets

CONSTANTS
    Dests,       \* destinations
    Presets,     \* names of presets
    DomainsOf,   \* [Presets -> SUBSET Dests]
    IncludesOf,  \* [Presets -> SUBSET Presets], what a preset brings along
    Images,      \* images of the gateway, "" for the default one
    SolitaryPresets  \* the presets of a solitary cell that names none

ASSUME PresetsAssumption ==
    /\ DomainsOf \in [Presets -> SUBSET Dests]
    /\ IncludesOf \in [Presets -> SUBSET Presets]
    /\ SolitaryPresets \subseteq Presets

TriState == {"unset", "on", "off"}

Proxy == [enabled : TriState, mode : {"", "allow", "block"},
          presets : SUBSET Presets, allow : SUBSET Dests,
          block : SUBSET Dests, allowHostNetwork : TriState,
          log : TriState, image : Images \cup {""}]

NoProxy == [enabled |-> "unset", mode |-> "", presets |-> {}, allow |-> {},
            block |-> {}, allowHostNetwork |-> "unset", log |-> "unset",
            image |-> ""]

-----------------------------------------------------------------------------
(* The defaults of unset keys. *)

ResolvedEnabled(p) == p.enabled = "on"
ResolvedMode(p) == IF p.mode = "" THEN "allow" ELSE p.mode
ResolvedAllowHostNetwork(p) == p.allowHostNetwork = "on"
ResolvedLog(p) == p.log # "off"

-----------------------------------------------------------------------------
(* The merge of two layers. *)

\* The plausible bugs of the merge that the runs refute.
mergeNetworkLoose(g, p) ==
    [enabled |-> IF p.enabled = "unset" THEN g.enabled ELSE p.enabled,
     mode |-> IF p.mode = "" THEN ResolvedMode(g) ELSE p.mode,
     block |-> p.block, presets |-> p.presets, allow |-> p.allow,
     allowHostNetwork |-> p.allowHostNetwork, log |-> p.log,
     image |-> p.image]

mergeNetwork(g, p) ==
    [enabled |->
        IF ResolvedEnabled(g) \/ ResolvedEnabled(p) THEN "on" ELSE "unset",
     mode |->
        IF "allow" \in {ResolvedMode(g), ResolvedMode(p)} THEN "allow"
                                                          ELSE "block",
     block |-> g.block \cup p.block,
     presets |-> g.presets \cup p.presets,
     allow |-> g.allow \cup p.allow,
     allowHostNetwork |->
        IF g.allowHostNetwork = "unset" /\ p.allowHostNetwork = "unset"
        THEN "unset"
        ELSE IF ResolvedAllowHostNetwork(g) /\ ResolvedAllowHostNetwork(p)
             THEN "on" ELSE "off",
     log |->
        IF g.log = "unset" /\ p.log = "unset" THEN "unset"
        ELSE IF ResolvedLog(g) \/ ResolvedLog(p) THEN "on" ELSE "off",
     image |-> IF g.image # "" THEN g.image ELSE p.image]

\* `--solitary` turns the proxy on over whatever the files say.
Solitary(p) ==
    [p EXCEPT !.enabled = "on", !.allowHostNetwork = "off",
              !.presets = IF p.presets = {} THEN SolitaryPresets ELSE @]

-----------------------------------------------------------------------------
(* What the gateway enforces. *)

\* The presets that a set of names brings along; every preset is expanded
\* once, and an included preset includes further ones.
Closed(P) == \A n \in P : IncludesOf[n] \subseteq P
Expanded(names) ==
    {n \in Presets : \A P \in SUBSET Presets :
                        names \subseteq P /\ Closed(P) => n \in P}
ExpandPresets(names) == UNION {DomainsOf[n] : n \in Expanded(names)}

\* The two lists written beside squid.conf.
AllowList(p) == p.allow \cup ExpandPresets(p.presets)
BlockList(p) == p.block

\* squid takes the first http_access line that matches: deny blocked, allow
\* allowed, and the mode's verdict for the rest.
SquidPasses(p, d) ==
    /\ d \notin BlockList(p)
    /\ d \in AllowList(p) \/ ResolvedMode(p) = "block"

\* A cell whose proxy is off has the bridge network and reaches everything.
Reaches(p, d) == ~ResolvedEnabled(p) \/ SquidPasses(p, d)

\* The host itself is reached through the bridge's gateway address, which
\* the internal network isolates unless the policy allows it.
ReachesHost(p) == ~ResolvedEnabled(p) \/ ResolvedAllowHostNetwork(p)

\* Policy q is one that a file with policy p would accept, given what the
\* other files allow.
Respects(q, p, others) ==
    /\ ResolvedEnabled(p) => ResolvedEnabled(q)
    /\ ReachesHost(q) => ReachesHost(p)
    /\ \A d \in Dests \ others : Reaches(q, d) => Reaches(p, d)
    /\ \A d \in p.block : Reaches(q, d) => ~ResolvedEnabled(q)
=============================================================================
