------------------------------ MODULE MCEngine ------------------------------
(***************************************************************************)
(* The order bookkeeping and the decision cycle.  They share no state      *)
(* (LiveTrading is where orders meet the loop), so a behaviour runs one of *)
(* them, its scene, and the other stays where it starts.                   *)
(***************************************************************************)
EXTENDS MCDecisionCycle, OrderLifecycle

VARIABLE scene

\* Two fills, which together overfill an order of two units; the cumulative reports
\* fall short of it or overshoot.
MCFillQty == [small |-> 1, large |-> 2]
MCFillIds == {"small", "large"}

EngineInit ==
    /\ scene \in {"orders", "cycle"}
    /\ Init /\ CycleInit /\ (scene # "cycle" => mode = "PAPER")

EngineNext ==
    /\ UNCHANGED scene
    /\ \/ scene = "orders" /\ Next /\ UNCHANGED cycleVars
       \/ scene = "cycle" /\ CycleNext /\ UNCHANGED vars

EngineSpec == EngineInit /\ [][EngineNext]_<<scene, vars, cycleVars>>
=============================================================================
