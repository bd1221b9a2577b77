----------------------------- MODULE MCServices -----------------------------
(***************************************************************************)
(* The services around the engine and its learning loop.  They share no    *)
(* state, so a behaviour runs one of them, its scene, and the others stay  *)
(* where they start.                                                       *)
(***************************************************************************)
EXTENDS Governance, AuditTrail, ApiGuard, ControlApi, RegimeFit, WalkForward,
        Backtest, Learning, Vault

VARIABLE scene

MCFills ==
    << [symbol |-> "AAA", signed |-> 2,  price |-> 3, charged |-> 2, told |-> TRUE],
       [symbol |-> "AAA", signed |-> -1, price |-> 3, charged |-> 0, told |-> FALSE],
       [symbol |-> "BBB", signed |-> -2, price |-> 1, charged |-> 2, told |-> FALSE] >>

\* A neighbour shares the operator's address.
MCAddressOf == [c \in Clients |-> IF c = "stranger" THEN "remote" ELSE "local"]

\* A blocked cycle, fills short of and beyond the target, no record of fills.
MCResults ==
    { [blocked |-> TRUE,  target |-> 0, achieved |-> NoFills],
      [blocked |-> FALSE, target |-> 0, achieved |-> 2],
      [blocked |-> FALSE, target |-> 2, achieved |-> 0],
      [blocked |-> FALSE, target |-> 2, achieved |-> NoFills] }

\* Two horizons, a buffer of two rows, a model that is old after one day.
MCHorizons == {1, 2}

Scenes == {"governance", "audit", "guard", "api", "regime", "study", "backtest",
           "learning", "vault"}

\* Where the components with many initial states wait when they are not on.
StudyIdle ==
    /\ bars = 0 /\ start = 0 /\ splits = << >>
    /\ splitter = [train |-> 1, valid |-> 1, test |-> 1, embargo |-> 0, horizon |-> 1]

BacktestIdle ==
    /\ frames = <<<<1>>, <<1>>>> /\ isResearch = FALSE
    /\ answers = << >> /\ singletons = << >>
    /\ runNo = 1 /\ turn = 1 /\ account = Fresh /\ diary = <<<< >>, << >>>>

\* One store and one mode are enough for the scenes that do not use them; the
\* frames part from the first rebalance date on, at the earliest.
Init ==
    /\ scene \in Scenes
    /\ GovernanceInit /\ (scene # "governance" => backend = "json")
    /\ AuditInit /\ GuardInit /\ RegimeInit /\ VaultInit
    /\ ApiInit /\ (scene # "api" => ~secured /\ ~isLive)
    /\ LearningInit /\ (scene # "learning" => mode = "PAPER")
    /\ IF scene = "study" THEN StudyInit ELSE StudyIdle
    /\ IF scene = "backtest"
       THEN BacktestInit /\ \A b \in 1 .. Warmup + 1 : frames[1][b] = frames[2][b]
       ELSE BacktestIdle

Next ==
    /\ UNCHANGED scene
    /\ \/ /\ scene = "governance" /\ GovernanceNext
          /\ UNCHANGED <<auditTrail, guard, api, regime, study, backtest, learning, vault>>
       \/ /\ scene = "audit" /\ AuditNext
          /\ UNCHANGED <<governance, guard, api, regime, study, backtest, learning, vault>>
       \/ /\ scene = "guard" /\ GuardNext
          /\ UNCHANGED <<governance, auditTrail, api, regime, study, backtest, learning, vault>>
       \/ /\ scene = "api" /\ ApiNext
          /\ UNCHANGED <<governance, auditTrail, guard, regime, study, backtest, learning, vault>>
       \/ /\ scene = "regime" /\ RegimeNext
          /\ UNCHANGED <<governance, auditTrail, guard, api, study, backtest, learning, vault>>
       \/ /\ scene = "study" /\ SplitNext
          /\ UNCHANGED <<governance, auditTrail, guard, api, regime, backtest, learning, vault>>
       \/ /\ scene = "backtest" /\ Rebalance
          /\ UNCHANGED <<governance, auditTrail, guard, api, regime, study, learning, vault>>
       \/ /\ scene = "learning" /\ LearningNext
          /\ UNCHANGED <<governance, auditTrail, guard, api, regime, study, backtest, vault>>
       \/ /\ scene = "vault" /\ VaultNext
          /\ UNCHANGED <<governance, auditTrail, guard, api, regime, study, backtest, learning>>

Spec == Init /\ [][Next]_<<scene, governance, auditTrail, guard, api, regime, study,
                          backtest, learning, vault>>
=============================================================================
