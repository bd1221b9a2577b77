----------------------------- MODULE Governance -----------------------------
(***************************************************************************)
(* Who may call the registry, and when it is durable: operators register,  *)
(* promote, roll back and repeat a rollback they got no answer to; a cycle *)
(* saves the registry through the state store (ops/persistence.py,         *)
(* ops/state_store.py); the process dies and starts again.                 *)
(***************************************************************************)
EXTENDS ModelRegistry

CONSTANTS Backends,     \* of {"json", "sqlite"}
          MaxHistory    \* bound: promotions kept in live_history

ASSUME BackendsAssumption == Backends \subseteq {"json", "sqlite"}
ASSUME MaxHistoryAssumption == MaxHistory \in Nat

VARIABLES registry,     \* the ModelRegistry singleton
          saved,        \* the registry payload in the store, << >> when never saved
          backend,      \* the state store
          serving       \* "up", "down" or "refused"

governance == <<registry, saved, backend, serving>>

\* What _dump_registry writes: the flags model by model, the order, the live
\* pointer and the history.
Dump(r) ==
    [records |-> [m \in Registered(r) |->
                    [promoted |-> m \in r.promoted, retired |-> m \in r.retired]],
     order |-> r.order, live |-> r.live, history |-> r.history]

\* _load_registry
Load(d) ==
    [order    |-> d.order,
     promoted |-> {m \in DOMAIN d.records : d.records[m].promoted},
     retired  |-> {m \in DOMAIN d.records : d.records[m].retired},
     live     |-> d.live,
     history  |-> d.history]

GovernanceInit ==
    /\ registry = EmptyRegistry
    /\ saved = << >>
    /\ backend \in Backends
    /\ serving = "down"

Operate ==
    /\ serving = "up"
    /\ \/ \E m \in Models : registry' = Register(registry, m)
       \/ \E m \in Models : registry' = Promote(registry, m)
       \/ \E m \in Models \union {NoModel} : registry' = Rollback(registry, m)
    /\ Len(registry'.history) <= MaxHistory
    /\ UNCHANGED <<saved, backend, serving>>

\* The end of a cycle: the file is replaced in one step, the tables in one
\* transaction.
SaveState ==
    /\ serving = "up"
    /\ saved' = Dump(registry)
    /\ UNCHANGED <<registry, backend, serving>>

Die ==
    /\ serving = "up"
    /\ serving' = "down" /\ registry' = EmptyRegistry
    /\ UNCHANGED <<saved, backend>>

\* EngineService.start: a missing file is a cold start.  A database without rows
\* has no version, and the ValueError of load_payload is not caught.
StartService ==
    /\ serving = "down"
    /\ \/ /\ saved # << >>
          /\ registry' = Load(saved) /\ serving' = "up"
       \/ /\ saved = << >> /\ backend = "json"
          /\ serving' = "up" /\ UNCHANGED registry
       \/ /\ saved = << >> /\ backend = "sqlite"
          /\ serving' = "refused" /\ UNCHANGED registry
    /\ UNCHANGED <<saved, backend>>

GovernanceNext == Operate \/ SaveState \/ Die \/ StartService

GovernanceSpec == GovernanceInit /\ [][GovernanceNext]_governance

-----------------------------------------------------------------------------
(* The flags of the records, the live pointer and the rollback stack tell  *)
(* one story through promotions, rollbacks, saves and restarts: the live   *)
(* model is the only one flagged promoted_to_live, it passed               *)
(* selection_rule, and nothing that could be rolled back to is unknown or  *)
(* unvalidated (promote, rollback and _load_registry).                     *)
OneLiveModel ==
    /\ registry.promoted = {registry.live} \ {NoModel}
    /\ registry.promoted \subseteq Registered(registry) \cap Passing
    /\ registry.promoted \cap registry.retired = {}
    /\ ToSet(registry.history) \subseteq registry.retired \union registry.promoted
    /\ registry.history # << >> => registry.live # NoModel

(* An operator who gets no answer repeats rollback with the same           *)
(* expect_current: whatever promotions led here, the second call demotes   *)
(* nobody (rollback's "make operator retries idempotent").                 *)
RollbackIsRetrySafe ==
    LET once == Rollback(registry, registry.live)
    IN  Rollback(once, registry.live) = once
=============================================================================
