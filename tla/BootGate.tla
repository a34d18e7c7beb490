------------------------------- MODULE BootGate -------------------------------
(***************************************************************************)
(* What the boot popup promises, without its processes, sockets and timers *)
(* (docs/cage.md, "Sequencing is enforced by ownership"): a popup covers   *)
(* the terminal at most once, and the agent is attached only after a boot  *)
(* that succeeded and once the terminal is uncovered.                      *)
(***************************************************************************)
VARIABLES
  stage,     \* "booting", "agent" once the agent is attached, "over"
  verdict,   \* "none" until the boot has ended, then "ready" or "failed"
  cover      \* the popup over the terminal: "unused", "up", "down"

gateVars == <<stage, verdict, cover>>

Init == stage = "booting" /\ verdict = "none" /\ cover = "unused"

Open ==
  /\ stage = "booting" /\ cover = "unused" /\ cover' = "up"
  /\ UNCHANGED <<stage, verdict>>

Close ==
  /\ cover = "up" /\ cover' = "down"
  /\ UNCHANGED <<stage, verdict>>

\* The boot ends; a failure may end the run in the same step.
Decide ==
  /\ stage # "agent" /\ verdict = "none" /\ verdict' \in {"ready", "failed"}
  /\ stage' = stage \/ (verdict' = "failed" /\ stage' = "over")
  /\ UNCHANGED cover

Attach ==
  /\ stage = "booting" /\ verdict = "ready" /\ cover = "down"
  /\ stage' = "agent"
  /\ UNCHANGED <<verdict, cover>>

End ==
  /\ stage # "over" /\ stage' = "over"
  /\ UNCHANGED <<verdict, cover>>

Next == Open \/ Close \/ Decide \/ Attach \/ End

Spec == Init /\ [][Next]_gateVars
=============================================================================
