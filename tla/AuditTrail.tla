------------------------------ MODULE AuditTrail ----------------------------
(***************************************************************************)
(* The hash-chained ledger (ops/ledger.py) under the two threads that      *)
(* append to it, the scheduled cycle and an operator's request, and the    *)
(* three-way reconciliation of the cycle against it (ops/reconciliation.py *)
(* and EngineService._reconcile).                                          *)
(*                                                                         *)
(* A hash is modelled by the events it commits to.  Fills are numbered:    *)
(* Fills[f] is one execution at the broker, with its signed quantity, its  *)
(* price, the commission charged, and whether the fill reported it (told). *)
(***************************************************************************)
EXTENDS Integers, Sequences, SequencesExt, FiniteSets, FiniteSetsExt

CONSTANTS Fills,        \* executions: [symbol, signed, price, charged, told]
          ShareTol, CashTol,
          MaxTrail,     \* bound: the length from which no cycle starts
          MaxRaised     \* bound: writes that raise

\* A commission is a cost: the replay takes its absolute value.
ASSUME FillsAssumption ==
    /\ IsFiniteSet(DOMAIN Fills)
    /\ \A f \in DOMAIN Fills : /\ Fills[f].signed \in Int /\ Fills[f].price \in Nat
                             /\ Fills[f].charged \in Nat /\ Fills[f].told \in BOOLEAN
ASSUME TolerancesAssumption == ShareTol \in Nat /\ CashTol \in Nat
ASSUME TrailBoundsAssumption == MaxTrail \in Nat /\ MaxRaised \in Nat

FillNumbers == DOMAIN Fills
SymbolsOf(fs) == {Fills[f].symbol : f \in fs}

VARIABLES trail,      \* _events
          file,       \* ledger.jsonl: its complete lines
          torn,       \* the file ends in a part of a line
          writing,    \* the event between _events and the file, by thread
          todo,       \* what each thread has yet to append
          lock,       \* who holds the service lock
          stage,      \* where the cycle is
          executed,   \* the fills the broker has executed
          report,     \* what the cycle's reconciliation said, and on which legs
          raised,     \* writes that raised
          process     \* "up", "down" or "refused"

auditTrail == <<trail, file, torn, writing, todo, lock, stage, executed, report,
                raised, process>>

Threads == {"loop", "operator"}
NoReport == [says |-> "nothing", cash |-> FALSE]
Idle == [t \in Threads |-> << >>]

AuditInit ==
    /\ trail = << >> /\ file = << >> /\ torn = FALSE
    /\ writing = Idle /\ todo = Idle
    /\ lock = "free" /\ stage = "idle" /\ executed = {} /\ report = NoReport
    /\ raised = 0 /\ process = "up"

-----------------------------------------------------------------------------
(* ImmutableLedger.                                                        *)

Hash(lines) == [i \in DOMAIN lines |-> lines[i].event]
Chained(event) == [seq |-> Len(trail), event |-> event, prev |-> Hash(trail)]

Verify(lines) ==
    \A i \in DOMAIN lines :
        lines[i].seq = i - 1 /\ lines[i].prev = Hash(SubSeq(lines, 1, i - 1))

\* events(event_type), as the fills they are about
Recorded(type) == {l.event[2] : l \in {x \in ToSet(trail) : x.event[1] = type}}

\* A bug: a thread appends without the service lock.
AppendUnlocked(t) == process = "up" /\ todo[t] # << >>
MayAppend(t) == process = "up" /\ todo[t] # << >> /\ lock = t

\* append: the event joins _events ...
ChainEvent(t) ==
    /\ MayAppend(t) /\ writing[t] = << >>
    /\ LET line == Chained(Head(todo[t]))
       IN  trail' = Append(trail, line) /\ writing' = [writing EXCEPT ![t] = <<line>>]
    /\ UNCHANGED <<file, torn, todo, lock, stage, executed, report, raised, process>>

\* ... and _persist writes it, or raises: then the caller gives up the rest.
PersistEvent(t) ==
    /\ process = "up" /\ writing[t] # << >>
    /\ writing' = [writing EXCEPT ![t] = << >>]
    /\ \/ /\ file' = file \o writing[t]
          /\ todo' = [todo EXCEPT ![t] = Tail(@)] /\ UNCHANGED raised
       \/ /\ raised < MaxRaised /\ raised' = raised + 1
          /\ todo' = [todo EXCEPT ![t] = << >>] /\ UNCHANGED file
    /\ UNCHANGED <<trail, torn, lock, stage, executed, report, process>>

Done(t) == todo[t] = << >> /\ writing[t] = << >>

\* The process dies; a line being written may stay in part.
CrashService ==
    /\ process = "up" /\ process' = "down"
    /\ torn' \in {FALSE, \E t \in Threads : writing[t] # << >>}
    /\ trail' = << >> /\ writing' = Idle /\ todo' = Idle
    /\ lock' = "free" /\ stage' = "idle" /\ report' = NoReport
    /\ UNCHANGED <<file, executed, raised>>

\* _load raises on a line it cannot parse and on a broken chain.
Intact == ~torn /\ Verify(file)

\* EngineService.__init__ builds the ledger, so a trail that does not load keeps
\* the service from starting.
LoadTrail ==
    /\ process = "down"
    /\ IF Intact THEN process' = "up" /\ trail' = file
                 ELSE process' = "refused" /\ UNCHANGED trail
    /\ UNCHANGED <<file, torn, writing, todo, lock, stage, executed, report, raised>>

-----------------------------------------------------------------------------
(* record_cycle, the replays and reconcile.                                *)

FillEvents(f) ==
    << <<"FILL", f>> >> \o
    (IF ~Fills[f].told \/ f \in Recorded("COMMISSION")
     THEN << >> ELSE << <<"COMMISSION", f>> >>)

\* The opening deposit comes before the first event ever, the book after the fills.
CycleEvents(fs) ==
    (IF trail = << >> THEN << <<"CASH", 0>> >> ELSE << >>)
    \o FlattenSeq([i \in 1 .. Cardinality(fs) |-> FillEvents(SetToSeq(fs)[i])])
    \o << <<"POSITION", 0>> >>

Gap(n) == IF n < 0 THEN -n ELSE n
Signed  == [f \in FillNumbers |-> Fills[f].signed]
Traded  == [f \in FillNumbers |-> Fills[f].signed * Fills[f].price]
Charged == [f \in FillNumbers |-> Fills[f].charged]

FillsOf(s, fs) == {f \in fs : Fills[f].symbol = s}

\* A bug: the replay forgets the side of a fill.
SharesUnsigned(s, fs) ==
    SumFunctionOnSet([f \in FillNumbers |-> Gap(Signed[f])], FillsOf(s, fs))

\* replay_ledger_to_positions, and the broker's own count.
Shares(s, fs) == SumFunctionOnSet(Signed, FillsOf(s, fs))

\* replay_ledger_to_balances, less the deposit that both sides start from.
ReplayedCash ==
    - SumFunctionOnSet(Traded, Recorded("FILL"))
    - SumFunctionOnSet(Charged, Recorded("COMMISSION"))
BrokerCash == - SumFunctionOnSet([f \in FillNumbers |-> Traded[f] + Charged[f]], executed)

BrokerShares(s) == SumFunctionOnSet(Signed, FillsOf(s, executed))

\* The cash leg waits for a deposit in the trail.
Breaks(withCash) ==
    \/ \E s \in SymbolsOf(executed \union Recorded("FILL")) :
          Gap(Shares(s, Recorded("FILL")) - BrokerShares(s)) > ShareTol
    \/ withCash /\ Recorded("CASH") # {} /\ Gap(ReplayedCash - BrokerCash) > CashTol

-----------------------------------------------------------------------------
(* The threads.                                                            *)

\* A cycle takes the lock and trades; record_cycle gets the fills it was told of.
BeginCycle ==
    /\ process = "up" /\ lock = "free" /\ Len(trail) < MaxTrail
    /\ \E fs \in SUBSET (FillNumbers \ executed) :
          /\ executed' = executed \union fs
          /\ todo' = [todo EXCEPT !["loop"] = CycleEvents(fs)]
    /\ lock' = "loop" /\ stage' = "recording" /\ report' = NoReport
    /\ UNCHANGED <<trail, file, torn, writing, raised, process>>

\* An order left resting fills between two cycles: no fill event reports it.
FillUnseen ==
    /\ stage = "idle"
    /\ \E f \in FillNumbers \ executed : executed' = executed \union {f}
    /\ UNCHANGED <<trail, file, torn, writing, todo, lock, stage, report, raised, process>>

\* account_state may raise, and may report no cash; what differs is noted.
Reconcile ==
    /\ process = "up" /\ stage = "recording" /\ Done("loop")
    /\ \E cash \in BOOLEAN :
          \/ report' = [says |-> "unread", cash |-> FALSE]
          \/ report' = [says |-> IF Breaks(cash) THEN "breaks" ELSE "clean", cash |-> cash]
    /\ todo' = [todo EXCEPT !["loop"] = IF report'.says = "clean" THEN << >>
                                        ELSE << <<"RECONCILIATION", 0>> >>]
    /\ stage' = "reconciled"
    /\ UNCHANGED <<trail, file, torn, writing, lock, executed, raised, process>>

EndCycle ==
    /\ process = "up" /\ stage = "reconciled" /\ Done("loop")
    /\ stage' = "idle" /\ lock' = "free"
    /\ UNCHANGED <<trail, file, torn, writing, todo, executed, report, raised, process>>

\* A reset or a resolution comes in, waits for the lock, appends, and leaves.
OperatorAsks ==
    /\ process = "up" /\ Done("operator") /\ lock # "operator"
    /\ trail # << >> /\ Len(trail) < MaxTrail
    /\ todo' = [todo EXCEPT !["operator"] = << <<"KILL_SWITCH", 0>> >>]
    /\ UNCHANGED <<trail, file, torn, writing, lock, stage, executed, report, raised, process>>

OperatorEnters ==
    /\ process = "up" /\ lock = "free" /\ ~Done("operator") /\ lock' = "operator"
    /\ UNCHANGED <<trail, file, torn, writing, todo, stage, executed, report, raised, process>>

OperatorLeaves ==
    /\ process = "up" /\ lock = "operator" /\ Done("operator") /\ lock' = "free"
    /\ UNCHANGED <<trail, file, torn, writing, todo, stage, executed, report, raised, process>>

AuditNext ==
    \/ \E t \in Threads : ChainEvent(t) \/ PersistEvent(t)
    \/ CrashService \/ LoadTrail
    \/ BeginCycle \/ FillUnseen \/ Reconcile \/ EndCycle
    \/ OperatorAsks \/ OperatorEnters \/ OperatorLeaves

AuditSpec == AuditInit /\ [][AuditNext]_auditTrail

-----------------------------------------------------------------------------
(* As long as no write raised, the complete lines on disk are one verified *)
(* chain, whatever the cycle and an operator append and wherever the       *)
(* process dies, and a running service holds all of them (append, _persist *)
(* and _load under the service lock).                                      *)
TrailIsOneChain ==
    /\ raised = 0 => Verify(file)
    /\ process = "up" /\ raised = 0 =>
          Len(file) <= Len(trail) /\ file = SubSeq(trail, 1, Len(file))

(* The reconciliation of a cycle reports a break exactly when executions   *)
(* that the trail lacks, or commissions it never heard of, amount to more  *)
(* than the tolerance: a write that raised in record_cycle, a fill no      *)
(* event reported and a late commission are seen, and a cycle whose fills  *)
(* are all recorded is never a false break (_reconcile's "never a false    *)
(* break").                                                                *)
BreaksAreReal ==
    stage = "reconciled" /\ report.says # "unread" =>
        LET missing == executed \ Recorded("FILL")
            unpaid  == executed \ Recorded("COMMISSION")
            owed    == SumFunctionOnSet(Traded, missing) + SumFunctionOnSet(Charged, unpaid)
        IN  report.says = "breaks" <=>
               \/ \E s \in SymbolsOf(missing) : Gap(Shares(s, missing)) > ShareTol
               \/ report.cash /\ Recorded("CASH") # {} /\ Gap(owed) > CashTol
=============================================================================
