--------------------------------- MODULE Halt ---------------------------------
(***************************************************************************)
(* What a durable hard stop promises (directive 7.4 and 16): once trading  *)
(* is halted no order goes out, and only an operator ends the halt.  The   *)
(* abstract side of HardStop's refinement.                                 *)
(***************************************************************************)
EXTENDS Naturals

VARIABLES
    halted,     \* the hard stop is in force
    traded,     \* how many decision cycles sent orders
    cleared     \* how many times an operator re-enabled trading

vars == <<halted, traded, cleared>>

Init == halted = FALSE /\ traded = 0 /\ cleared = 0

Stop    == halted' = TRUE /\ UNCHANGED <<traded, cleared>>
Trade   == ~halted /\ traded' = traded + 1 /\ UNCHANGED <<halted, cleared>>
Reenable == halted' = FALSE /\ cleared' = cleared + 1 /\ UNCHANGED traded

Next == Stop \/ Trade \/ Reenable

Spec == Init /\ [][Next]_vars
=============================================================================
