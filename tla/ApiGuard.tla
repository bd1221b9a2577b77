------------------------------ MODULE ApiGuard -----------------------------
(***************************************************************************)
(* What stands in front of the control API (ops/api_security.py): the      *)
(* sliding-window RateLimiter of one bucket, whose map of callers is a     *)
(* bounded LRU, and the _RepeatAggregator of the alert trail, which lets   *)
(* one line per kind through in a window and counts the rest.              *)
(***************************************************************************)
EXTENDS RateLimiter, FiniteSets

CONSTANTS Callers,      \* rate-limit identities
          Kinds,        \* (event, reason) pairs of the security log
          Limit,
          AlertWindow,
          MaxClock      \* bound on time

ASSUME GuardAssumption ==
    Limit \in Nat \ {0} /\ AlertWindow \in Nat /\ MaxClock \in Nat

VARIABLES clock,
          limiter,   \* one bucket's RateLimiter
          aggregate, \* _state: [since, suppressed], of the kinds seen
          granted,   \* history: every admission of a caller since it was cold
          others,    \* history: the callers seen since a caller was last seen
          emitted,   \* history: alert records of a kind
          told       \* history: those the alert trail accounts for

guard == <<clock, limiter, aggregate, granted, others, emitted, told>>

GuardInit ==
    /\ clock = 0
    /\ limiter = EmptyLimiter
    /\ aggregate = [k \in {} |-> << >>]
    /\ granted = [c \in Callers |-> << >>]
    /\ others = [c \in Callers |-> {}]
    /\ emitted = [k \in Kinds |-> 0] /\ told = [k \in Kinds |-> 0]

\* A request of a caller is counted, and admitted or refused.
Check(c) ==
    /\ limiter' = Checked(limiter, c, clock, Limit)
    /\ LET seen == [k \in Callers |-> IF k = c THEN {} ELSE others[k] \union {c}]
       IN  /\ others' = seen
           /\ granted' = [k \in Callers |->
                 IF Cardinality(seen[k]) >= MaxKeys THEN << >>
                 ELSE IF k = c /\ Allows(limiter, c, clock, Limit)
                 THEN Append(Within(granted[c], clock - Window), clock)
                 ELSE granted[k]]
    /\ UNCHANGED <<clock, aggregate, emitted, told>>

\* A bug: the count of the window before is dropped.
CarriedNone(k) == 0
Carried(k) == IF k \in DOMAIN aggregate THEN aggregate[k].suppressed ELSE 0

\* filter: inside the window of its kind a record is only counted; the next one
\* passes with that count and opens a window.
Alert(k) ==
    /\ emitted' = [emitted EXCEPT ![k] = @ + 1]
    /\ IF k \in DOMAIN aggregate /\ clock - aggregate[k].since < AlertWindow
       THEN /\ aggregate' = [aggregate EXCEPT ![k].suppressed = @ + 1]
            /\ UNCHANGED told
       ELSE /\ aggregate' = [x \in DOMAIN aggregate \union {k} |->
                               IF x = k THEN [since |-> clock, suppressed |-> 0]
                               ELSE aggregate[x]]
            /\ told' = [told EXCEPT ![k] = @ + 1 + Carried(k)]
    /\ UNCHANGED <<clock, limiter, granted, others>>

Tick ==
    /\ clock < MaxClock /\ clock' = clock + 1
    /\ UNCHANGED <<limiter, aggregate, granted, others, emitted, told>>

GuardNext ==
    \/ \E c \in Callers : Check(c)
    \/ \E k \in Kinds : emitted[k] < MaxClock /\ Alert(k)
    \/ Tick

GuardSpec == GuardInit /\ [][GuardNext]_guard

-----------------------------------------------------------------------------
(* No window holds more than Limit admissions of a caller, however         *)
(* requests of others, refusals and evictions mix, unless MaxKeys other    *)
(* callers came in since the caller's last request: a caller who keeps     *)
(* asking while it is throttled is not forgotten (RateLimiter.check).      *)
BudgetHolds ==
    \A c \in Callers : Len(Within(granted[c], clock - Window)) <= Limit

(* Every alert of a kind is accounted for: on the alert trail by itself or *)
(* in the count of a later line, or in the count that waits for the next   *)
(* line (_RepeatAggregator.filter, "one line per event shape").            *)
AlertsAreCounted ==
    \A k \in Kinds :
        emitted[k] = told[k] + IF k \in DOMAIN aggregate THEN aggregate[k].suppressed ELSE 0
=============================================================================
