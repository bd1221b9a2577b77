---------------------------- MODULE OrderContract ----------------------------
(***************************************************************************)
(* What the engine relies on an order book-keeper for, whatever callbacks, *)
(* resyncs, prunes and restarts do to it: an order it may still owe a fill *)
(* for is never forgotten, a finished order never comes back to life, its  *)
(* approved size is fixed, and its filled quantity only grows, up to the   *)
(* approved size.  The abstract side of OrderLifecycle's refinement.       *)
(***************************************************************************)
EXTENDS Naturals

CONSTANTS Orders, Quantities

VARIABLES
    phase,      \* phase[o]: is o unknown, open or done
    approved,   \* approved[o]: its size, 0 while unknown
    filled      \* filled[o]: how much of it is filled, 0 while unknown

vars == <<phase, approved, filled>>

ContractTypeOK ==
    /\ phase \in [Orders -> {"unknown", "open", "done"}]
    /\ approved \in [Orders -> Quantities \cup {0}]
    /\ filled \in [Orders -> Nat]

Init ==
    /\ phase = [o \in Orders |-> "unknown"]
    /\ approved = [o \in Orders |-> 0]
    /\ filled = [o \in Orders |-> 0]

Same(o) ==
    phase'[o] = phase[o] /\ approved'[o] = approved[o] /\ filled'[o] = filled[o]

Open(o) ==
    /\ phase[o] = "unknown" /\ phase'[o] = "open"
    /\ approved'[o] \in Quantities /\ filled'[o] = 0

\* A fill, a status change, or both; a late fill may still reach a done order.
Progress(o) ==
    /\ phase[o] # "unknown"
    /\ phase'[o] = phase[o] \/ phase'[o] = "done"
    /\ approved'[o] = approved[o]
    /\ filled[o] <= filled'[o] /\ filled'[o] <= approved[o]

Forget(o) ==
    /\ phase[o] = "done" /\ phase'[o] = "unknown"
    /\ approved'[o] = 0 /\ filled'[o] = 0

\* One call may advance several orders at once (a resync, a prune).
Next == \A o \in Orders : Same(o) \/ Open(o) \/ Progress(o) \/ Forget(o)

Spec == Init /\ [][Next]_vars
=============================================================================
