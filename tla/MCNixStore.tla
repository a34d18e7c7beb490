------------------------------ MODULE MCNixStore ------------------------------
(* An instance of NixStore for TLC: two generations that share a profile.   *)
EXTENDS NixStore, TLC

CONSTANTS c1, c2, m1, m2, p1, g1, g2, t1, t2

MCProfileOf == [g \in {g1, g2} |-> p1]
MCWants == (c1 :> g1) @@ (c2 :> g2)
MCKindsOf == [m \in Commands |-> IF m = m1 THEN {"prune", "force"} ELSE {"cleanup", "auto"}]
MCTagOf == (c1 :> t1) @@ (c2 :> t2)
================================================================================
