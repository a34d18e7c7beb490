------------------------------ MODULE MCTartVM ------------------------------
(* One macOS cell, with the default stack, "base" (cfg.go, ResolvedStack),   *)
(* or with another one.                                                      *)
EXTENDS TartVM

CONSTANTS c1, b1, s1 \* a cell, a build, a session

BaseStack == [c \in MacCells |-> "base"]
GoStack == [c \in MacCells |-> "go"]
OneCell == [p \in Builds \cup Sessions |-> c1]
=============================================================================
