------------------------------ MODULE MCAccess ------------------------------
(***************************************************************************)
(* Two instances in one run, told apart by what happens to the process:    *)
(*   "restarts": agent or panel, saved, killed, reset and started again;   *)
(*               users log in to the panel with a password;                *)
(*   "sign-ins": one process of the panel, which goes on; users log in     *)
(*               with a password or through GitHub.                        *)
(***************************************************************************)
EXTENDS Access
CONSTANTS a, b

VARIABLE part

mcVars == <<part, vars>>

MCInit ==
  /\ part \in {"restarts", "sign-ins"}
  /\ Init
  /\ part = "sign-ins" => program = "panel"

MCNext ==
  /\ UNCHANGED part
  /\ Next
  /\ IF part = "restarts" THEN started' = 0 ELSE faults' = 0 /\ draws' <= 1

MCSpec == MCInit /\ [][MCNext]_mcVars /\ Fairness
=============================================================================
