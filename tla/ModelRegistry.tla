--------------------------- MODULE ModelRegistry ---------------------------
(***************************************************************************)
(* ops/model_registry.py as operators over a registry record: the models   *)
(* registered, those flagged promoted_to_live and retired, the live model  *)
(* (NoModel when there is none) and the stack of models live before it.    *)
(* "Passing" are the models whose validation passes selection_rule.        *)
(***************************************************************************)
EXTENDS Naturals, Sequences, SequencesExt

CONSTANTS Models, Passing, NoModel

ASSUME ModelsAssumption == Passing \subseteq Models /\ NoModel \notin Models

EmptyRegistry == [order |-> << >>, promoted |-> {}, retired |-> {},
                  live |-> NoModel, history |-> << >>]

Registered(r) == ToSet(r.order)

\* register refuses a duplicate id.
Register(r, m) ==
    IF m \in Registered(r) THEN r ELSE [r EXCEPT !.order = Append(@, m)]

Demote(r) ==
    IF r.live = NoModel THEN r
    ELSE [r EXCEPT !.promoted = @ \ {r.live}, !.retired = @ \union {r.live}]

MakeLive(r, m) ==
    [r EXCEPT !.promoted = @ \union {m}, !.retired = @ \ {m}, !.live = m]

\* A bug: promoting the live model again is not a no-op.
PromoteAgain(r, m) ==
    IF m \notin Registered(r) \/ m \notin Passing THEN r
    ELSE MakeLive([Demote(r) EXCEPT
             !.history = IF r.live = NoModel THEN @ ELSE Append(@, r.live)], m)

\* promote: unknown, already live and refused by selection_rule change nothing.
Promote(r, m) ==
    IF m \notin Registered(r) \/ m = r.live \/ m \notin Passing THEN r
    ELSE MakeLive([Demote(r) EXCEPT
             !.history = IF r.live = NoModel THEN @ ELSE Append(@, r.live)], m)

\* A bug: the incumbent keeps its promoted_to_live flag.
RollbackWithoutDemotion(r, expected) ==
    IF (expected # NoModel /\ r.live # expected) \/ r.history = << >> THEN r
    ELSE MakeLive([r EXCEPT !.history = Front(@)], Last(r.history))

\* rollback, with the model the operator means to demote as expect_current
\* (NoModel: whichever is live); a call that finds another model live, or no
\* history, changes nothing.
Rollback(r, expected) ==
    IF (expected # NoModel /\ r.live # expected) \/ r.history = << >> THEN r
    ELSE MakeLive([Demote(r) EXCEPT !.history = Front(@)], Last(r.history))
=============================================================================
