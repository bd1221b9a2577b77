----------------------------- MODULE ControlApi -----------------------------
(***************************************************************************)
(* The HTTP surface of the service (ops/api.py, create_app): every request *)
(* runs in a thread of its own through the throttle of its bucket, the     *)
(* bearer check and, for a control endpoint, the mode gate and the lock of *)
(* the service, which the scheduled loop takes as well.                    *)
(***************************************************************************)
EXTENDS RateLimiter, FiniteSets

CONSTANTS Clients, TokenHolder,   \* the operator, who sends the valid token
          AddressOf,           \* the address a client's requests come from
          ReadLimit, ControlLimit,
          MaxRequests, MaxNow  \* bounds
ASSUME ApiAssumption ==
    /\ TokenHolder \in Clients /\ ReadLimit \in Nat /\ ControlLimit \in Nat
    /\ MaxRequests \in Nat /\ MaxNow \in Nat

Endpoints == {"status", "cycle/run", "kill-switch/reset"}

VARIABLES secured,    \* whether a token is configured
          isLive,     \* whether the service runs in LIVE
          instant,
          budgets,    \* the limiter of each bucket
          requests,   \* every request: [from, endpoint, at, answer]
          serviceLock,   \* who has the service lock: a request, Loop or Nobody
          inside      \* who is in a cycle or an operation of the service

api == <<secured, isLive, instant, budgets, requests, serviceLock, inside>>

Nobody == 0
Loop == -1

Bucket(endpoint) == IF endpoint = "status" THEN "read" ELSE "control"
LimitOf(bucket) == IF bucket = "read" THEN ReadLimit ELSE ControlLimit

ApiInit ==
    /\ secured \in BOOLEAN /\ isLive \in BOOLEAN
    /\ instant = 0 /\ budgets = [b \in {"read", "control"} |-> EmptyLimiter]
    /\ requests = << >> /\ serviceLock = Nobody /\ inside = {}

\* A bug, and what the code once did: one budget per address.
IdentityByAddress(c) == <<"ip", AddressOf[c]>>

\* _rate_limit_identity: a valid credential has a budget of its own, everybody
\* else shares that of the address.
Identity(c) == IF secured /\ c = TokenHolder THEN <<"token">> ELSE <<"ip", AddressOf[c]>>

\* The first dependency; a limit of 0 disables the bucket.
Receive(c, endpoint) ==
    /\ Len(requests) < MaxRequests
    /\ LET bucket  == Bucket(endpoint)
           limit   == LimitOf(bucket)
           allowed == limit = 0 \/ Allows(budgets[bucket], Identity(c), instant, limit)
       IN  /\ budgets' = IF limit = 0 THEN budgets
                         ELSE [budgets EXCEPT ![bucket] = Checked(@, Identity(c), instant, limit)]
           /\ requests' = Append(requests,
                 [from |-> c, endpoint |-> endpoint, at |-> instant,
                  answer |-> IF allowed THEN "admitted" ELSE "429"])
    /\ UNCHANGED <<secured, isLive, instant, serviceLock, inside>>

\* _require_token, then the gate of the endpoint: a read is answered at once,
\* a control operation is refused in LIVE whoever asks.
Admit(i) ==
    /\ requests[i].answer = "admitted"
    /\ requests' = [requests EXCEPT ![i].answer =
          IF secured /\ requests[i].from # TokenHolder THEN "401"
          ELSE IF requests[i].endpoint = "status" THEN "done"
          ELSE IF isLive THEN "403" ELSE "calling"]
    /\ UNCHANGED <<secured, isLive, instant, budgets, serviceLock, inside>>

\* try_run_once: a trigger does not wait for the lock.
TriggerRefused(i) ==
    /\ requests[i].answer = "calling" /\ requests[i].endpoint = "cycle/run"
    /\ serviceLock # Nobody
    /\ requests' = [requests EXCEPT ![i].answer = "409"]
    /\ UNCHANGED <<secured, isLive, instant, budgets, serviceLock, inside>>

\* The trigger that finds the lock free, or a reset that has waited for it.
EnterService(i) ==
    /\ requests[i].answer = "calling" /\ serviceLock = Nobody
    /\ serviceLock' = i /\ inside' = inside \union {i}
    /\ requests' = [requests EXCEPT ![i].answer = "working"]
    /\ UNCHANGED <<secured, isLive, instant, budgets>>

\* The operation ends or raises, a 200 or a 500; both let go of the lock.
LeaveService(i) ==
    /\ requests[i].answer = "working"
    /\ serviceLock' = Nobody /\ inside' = inside \ {i}
    /\ requests' = [requests EXCEPT ![i].answer = "done"]
    /\ UNCHANGED <<secured, isLive, instant, budgets>>

\* run_once of the scheduled loop.
LoopEnters ==
    /\ serviceLock = Nobody
    /\ serviceLock' = Loop /\ inside' = inside \union {Loop}
    /\ UNCHANGED <<secured, isLive, instant, budgets, requests>>

LoopLeaves ==
    /\ serviceLock = Loop
    /\ serviceLock' = Nobody /\ inside' = inside \ {Loop}
    /\ UNCHANGED <<secured, isLive, instant, budgets, requests>>

TimePasses ==
    /\ instant < MaxNow /\ instant' = instant + 1
    /\ UNCHANGED <<secured, isLive, budgets, requests, serviceLock, inside>>

ApiNext ==
    \/ \E c \in Clients, e \in Endpoints : Receive(c, e)
    \/ \E i \in DOMAIN requests :
          Admit(i) \/ TriggerRefused(i) \/ EnterService(i) \/ LeaveService(i)
    \/ LoopEnters \/ LoopLeaves \/ TimePasses

ApiSpec == ApiInit /\ [][ApiNext]_api

-----------------------------------------------------------------------------
\* Whose requests a client's budget may be spent on: the operator's own, or
\* those that nothing but the address tells apart.
Sharing(c, d) ==
    IF secured /\ TokenHolder \in {c, d} THEN c = d ELSE AddressOf[c] = AddressOf[d]

(* Nobody is refused for what others did: a 429 comes when the client, or  *)
(* those that share its budget, had as many requests of that bucket let in *)
(* during the window as the limit says, and the requests of strangers      *)
(* never spend the operator's budget.  What runs inside the service over   *)
(* the API was asked for by whoever may, out of LIVE, and alone (_rate_    *)
(* limit_identity, _require_token, the endpoints, try_run_once).           *)
AnswersAreEarned ==
    /\ \A i \in DOMAIN requests :
         LET r == requests[i]
             spent == {j \in 1 .. i - 1 :
                         /\ Sharing(r.from, requests[j].from)
                         /\ Bucket(r.endpoint) = Bucket(requests[j].endpoint)
                         /\ requests[j].at > r.at - Window
                         /\ requests[j].answer # "429"}
         IN  /\ r.answer = "429" => Cardinality(spent) >= LimitOf(Bucket(r.endpoint))
             /\ i \in inside => ~isLive /\ (secured => r.from = TokenHolder)
    /\ Cardinality(inside) <= 1
=============================================================================
