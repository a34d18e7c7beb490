--------------------------- MODULE MCCellLifecycle ---------------------------
(* Small instances of CellLifecycle for TLC.                                 *)
EXTENDS CellLifecycle

CONSTANTS a1, a2, p1, k1, r1,   \* two agents, a start, a stop, a reaper
          c1, c2, old, new      \* two cells, two configurations

OneCell    == [s \in Launchers \union Stops |-> c1]
TwoCells   == [s \in Launchers \union Stops |-> IF s = a2 THEN c2 ELSE c1]
SameConfig == [s \in Launchers |-> new]
MixedConfig == [s \in Launchers |-> IF s = a1 THEN old ELSE new]
NewConfig  == [s \in Launchers |-> IF s = p1 THEN old ELSE new]
=============================================================================
