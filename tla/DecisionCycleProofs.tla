------------------------- MODULE DecisionCycleProofs -------------------------
(***************************************************************************)
(* One cycle of the engine, proved for any universe, books, readings,      *)
(* models and limits.                                                      *)
(*                                                                         *)
(* Approval and provenance: nothing is traded that the gate and STEP 1 did *)
(* not approve, and in LIVE nothing is bought that neither a prediction    *)
(* nor a validated sleeve backs.                                           *)
(*                                                                         *)
(* The risk budget: weights are whole basis points, every scaling rounds   *)
(* down and divides by a sum, so what the cap, the dust rule, the          *)
(* volatility target, the leverage ramp and the tail rule each do to a     *)
(* book is a lemma about SumFunctionOnSet with its rounding, and BudgetInv *)
(* carries what STEP 9 guarantees through the gate to the target.          *)
(***************************************************************************)
EXTENDS DecisionCycle, SumLemmas, TLAPS

Undecided == {"ingest", "market", "signals", "admit", "optimise", "gate"}

(***************************************************************************)
(* TradesAreApproved says nothing of the steps before STEP 12, and would   *)
(* not survive one: the strengthening keeps the verdict empty until STEP   *)
(* 10 writes it, from a flag STEP 1 can no longer change, and the order    *)
(* flag down until STEP 12 acts on the verdict.                            *)
(***************************************************************************)
ApprovalInv ==
    /\ pc \in Undecided \cup {"execute", "done"}
    /\ pc \in Undecided => gate = NoGate
    /\ pc # "done" => sent = FALSE
    /\ gate.approved => ~gate.hardStop /\ ~invalid
    /\ sent => mode = "LIVE" /\ gate.approved
    /\ pc = "done" /\ (\E s \in Symbols : Weight(achieved, s) # Weight(held, s))
          => gate.approved /\ mode # "RESEARCH"

\* A verdict that approves is no hard stop (check_pretrade; a check that raises approves
\* nothing), whatever the drawdown, the kill switches and the book.
LEMMA ApprovalIsSoft ==
    ASSUME NEW killed, NEW dd, NEW over, NEW verdict \in {Gate(killed, dd, over), GateError},
           Approved(verdict)
    PROVE  ~verdict.hardStop /\ ~invalid
<1>1. CASE verdict = Gate(killed, dd, over)  BY <1>1 DEF Gate, Approved
<1>2. CASE verdict = GateError  BY <1>2 DEF GateError, Approved
<1> QED  BY <1>1, <1>2

\* The approval invariant holds at the start of a cycle and is kept by each of its steps.
LEMMA ApprovalInductive == CycleSpec => []ApprovalInv
<1>1. CycleInit => ApprovalInv
  BY DEF CycleInit, ApprovalInv, Undecided, NoGate
<1>2. ASSUME ApprovalInv, [CycleNext]_cycleVars  PROVE ApprovalInv'
  <2> USE <1>2
  <2>1. CASE IngestAndValidate
    BY <2>1 DEF IngestAndValidate, ApprovalInv, Undecided, NoGate
  <2>2. CASE BuildMarketState
    BY <2>2 DEF BuildMarketState, ApprovalInv, Undecided, NoGate
  <2>3. CASE ScoreSignals
    BY <2>3 DEF ScoreSignals, ApprovalInv, Undecided, NoGate
  <2>4. CASE Admit
    BY <2>4 DEF Admit, ApprovalInv, Undecided, NoGate
  <2>5. CASE Optimise
    BY <2>5 DEF Optimise, ApprovalInv, Undecided, NoGate
  <2>6. CASE PretradeRiskGate
    <3>1. PICK dd \in Drawdowns, ctx \in KillContexts :
            \E verdict \in {Gate(KillReasons(ctx, mode) # {}, dd, OverLimit(opt)), GateError} :
              gate' = [approved |-> Approved(verdict), hardStop |-> verdict.hardStop,
                       breach |-> OverLimit(opt)]
      BY <2>6 DEF PretradeRiskGate
    <3>2. PICK verdict \in {Gate(KillReasons(ctx, mode) # {}, dd, OverLimit(opt)), GateError} :
              gate' = [approved |-> Approved(verdict), hardStop |-> verdict.hardStop,
                       breach |-> OverLimit(opt)]
      BY <3>1
    <3>3. gate'.approved = Approved(verdict) /\ gate'.hardStop = verdict.hardStop
      BY <3>2
    <3>4. Approved(verdict) => ~verdict.hardStop /\ ~invalid
      BY ApprovalIsSoft
    <3>5. pc = "gate" /\ pc' = "execute" /\ sent = FALSE
      BY <2>6 DEF PretradeRiskGate, ApprovalInv
    <3>6. UNCHANGED <<invalid, mode, sent>>
      BY <2>6 DEF PretradeRiskGate
    <3> QED  BY <3>3, <3>4, <3>5, <3>6 DEF ApprovalInv, Undecided
  <2>7. CASE Execute
    <3> USE <2>7 DEF Execute
    <3>1. CASE ExecuteNothing
      BY <3>1 DEF ExecuteNothing, ApprovalInv, Undecided, Weight
    <3>2. CASE ExecutePaper
      BY <3>2 DEF ExecutePaper, ApprovalInv, Undecided
    <3>3. CASE ExecuteLive
      BY <3>3 DEF ExecuteLive, ApprovalInv, Undecided
    <3> QED  BY <3>1, <3>2, <3>3
  <2>8. CASE UNCHANGED cycleVars
    BY <2>8 DEF cycleVars, ApprovalInv, Undecided, Weight
  <2> QED  BY <2>1, <2>2, <2>3, <2>4, <2>5, <2>6, <2>7, <2>8 DEF CycleNext
<1> QED  BY <1>1, <1>2, PTL DEF CycleSpec

\* A cycle that trades was approved by the gate and by STEP 1, no hard stop was called,
\* and orders reach a broker in LIVE only (_run_cycle STEPs 1, 10 and 12).
THEOREM CyclesTradeApproved == CycleSpec => []TradesAreApproved
<1>1. ApprovalInv => TradesAreApproved
  BY DEF ApprovalInv, TradesAreApproved, Trade, Done
<1> QED  BY <1>1, ApprovalInductive, PTL

-----------------------------------------------------------------------------
(***************************************************************************)
(* What backs a name is followed from the signals to the book: LIVE scores *)
(* only what a sleeve that passed its validation backs, the optimiser      *)
(* weighs only the names of its route, the gate rescales that book, and an *)
(* execution grows no weight outside the target.                           *)
(***************************************************************************)
Backable == DOMAIN sizes \cup (IF market.defensive THEN {} ELSE signals.scored)

BackedInv ==
    /\ pc \in Undecided \cup {"execute", "done"}
    /\ mode = "LIVE" => signals.scored \subseteq signals.backed
    /\ DOMAIN opt.weights \subseteq Backable
    /\ DOMAIN target \subseteq Backable
    /\ \A s \in DOMAIN held : held[s] \in Nat
    /\ pc \in Undecided => opt.weights = NoBook \/ pc = "gate"
    /\ pc \in Undecided => target = NoBook
    /\ pc = "done" /\ mode = "LIVE" => \A s \in Symbols :
          Weight(achieved, s) > Weight(held, s) => s \in DOMAIN target

\* In LIVE a sleeve that has not passed its validation scores no symbol
\* (sleeve_health_weight, apply_signal_health).
LEMMA LiveScoresBacked ==
    ASSUME NEW said, DOMAIN said = Sleeves, NEW validation, NEW ofi \in Flows,
           NEW s \in Scored(said, validation, ofi, "LIVE")
    PROVE  s \in Symbols /\ \E sleeve \in Sleeves :
              said[sleeve][s] # "FLAT" /\ validation[sleeve] \in {"unstable", "stable"}
<1>1. s \in Symbols
  BY FlowsAssumption DEF Scored
<1>2. PICK sleeve \in Sleeves :
        SleeveWeight(validation[sleeve], "LIVE") > 0 /\ said[sleeve][s] # "FLAT"
  BY DEF Scored
<1>3. validation[sleeve] \in {"unstable", "stable"}
  BY <1>2 DEF SleeveWeight, UnvalidatedWeight
<1> QED  BY <1>1, <1>2, <1>3

\* The optimiser weighs exactly the names it is given: neither the dust rule, the vol
\* target, the ramp nor the CVaR limit adds one (optimise_portfolio).
LEMMA BooksOfUniverse ==
    ASSUME NEW U, NEW before, NEW scalars, NEW crisis, NEW vols, NEW risks,
           NEW result \in OptimisedBooks(U, before, scalars, crisis, vols, risks)
    PROVE  DOMAIN result.weights = U
<1>1. \A w, num, den : DOMAIN Times(w, num, den) = DOMAIN w
  BY DEF Times
<1>2. \A w : DOMAIN DropDust(w) = DOMAIN w
  BY <1>1 DEF DropDust
<1>3. \A w, risk, limit : DOMAIN EnforceCvarLimit(w, risk, limit) = DOMAIN w
  BY <1>1 DEF EnforceCvarLimit
<1>4. \A cap : \A w \in Solutions(U, cap) : DOMAIN w = U
  BY DEF Solutions
<1>5. PICK w \in Solutions(U, EffectiveCap(U, crisis)), vol \in vols, risk \in risks,
             step \in LeverUpSteps :
        result = Optimised(w, vol, risk, U, before, scalars, crisis, step)
  BY DEF OptimisedBooks
<1>6. PICK num, limit : result.weights = EnforceCvarLimit(Times(DropDust(w), num, 100), risk, limit)
  BY <1>5 DEF Optimised
<1> QED  BY <1>1, <1>2, <1>3, <1>4, <1>6

\* Clipping nothing to the whole capital leaves nothing.
LEMMA ClipOfNothing == Clip(0, -Whole, Whole) = 0
<1>1. Min({0, 10000}) = 0
  BY DEF Min
<1>2. Max({-10000, 0}) = 0
  BY DEF Max
<1> QED  BY <1>1, <1>2 DEF Clip, Whole

\* What a name outside the target is ordered for is what is held of it, to sell.
LEMMA OutsideTargetSells ==
    ASSUME NEW s, s \notin DOMAIN target, Weight(held, s) \in Nat
    PROVE  Delta(s) = 0 - Weight(held, s) /\ OrderSize(s) \in Nat
<1>1. Delta(s) = 0 - Weight(held, s)
  BY ClipOfNothing DEF Delta, Weight
<1>2. Abs(Delta(s)) \in Nat
  BY <1>1 DEF Abs
<1> QED  BY <1>1, <1>2 DEF OrderSize

\* A LIVE fill of it brings the weight down (_achieved_weights, no slippage).
LEMMA OutsideTargetShrinks ==
    ASSUME NEW s, s \notin DOMAIN target, Weight(held, s) \in Nat,
           NEW filled, s \in Universe => filled[s] \in Nat
    PROVE  ~(Weight(AchievedFrom(filled, 0), s) > Weight(held, s))
<1>1. CASE s \in DOMAIN AchievedFrom(filled, 0)
  <2>1. s \in Universe /\ AchievedFrom(filled, 0)[s] = Weight(held, s) + Notional(s, filled[s], 0)
    BY <1>1 DEF AchievedFrom, Restrict
  <2>2. Notional(s, filled[s], 0) \in Int /\ Notional(s, filled[s], 0) <= 0
    BY <2>1, OutsideTargetSells DEF Notional, Whole
  <2> QED  BY <2>1, <2>2, <1>1 DEF Weight
<1>2. CASE s \notin DOMAIN AchievedFrom(filled, 0)
  BY <1>2 DEF Weight
<1> QED  BY <1>1, <1>2

\* The names the optimiser routes are backed, and so is the book it returns.
LEMMA RouteIsBacked ==
    /\ DOMAIN Multiplied(opt.weights, sizes) = DOMAIN opt.weights
    /\ Route(sizes, signals, market).names \subseteq Backable
BY DEF Multiplied, Route, Backable

\* The backing invariant holds at the start of a cycle and is kept by each of its steps.
LEMMA BackedInductive == CycleSpec => []BackedInv
<1>1. CycleInit => BackedInv
  BY DEF CycleInit, BackedInv, Undecided, NoBook, NoSignals, EmptyOpt
<1>2. ASSUME BackedInv, [CycleNext]_cycleVars  PROVE BackedInv'
  <2> USE <1>2
  <2>1. CASE IngestAndValidate
    BY <2>1 DEF IngestAndValidate, BackedInv, Undecided, Backable
  <2>2. CASE BuildMarketState
    <3>1. pc = "market" /\ pc' = "signals" /\ UNCHANGED <<mode, signals, held, opt, target>>
      BY <2>2 DEF BuildMarketState
    <3> QED  BY <3>1 DEF BackedInv, Undecided, NoBook
  <2>3. CASE ScoreSignals
    <3>1. pc = "signals" /\ pc' = "admit" /\ UNCHANGED <<mode, held, opt, target>>
      BY <2>3 DEF ScoreSignals
    <3>2. PICK said \in [Sleeves -> Signals], validation \in [Sleeves -> Validations], ofi \in Flows :
            signals' = [scored |-> Scored(said, validation, ofi, mode),
                        backed |-> {s \in Symbols : \E sleeve \in Sleeves :
                                       /\ said[sleeve][s] # "FLAT"
                                       /\ validation[sleeve] \in {"unstable", "stable"}}]
      BY <2>3 DEF ScoreSignals
    <3>3. mode = "LIVE" => signals'.scored \subseteq signals'.backed
      BY <3>2, LiveScoresBacked
    <3> QED  BY <3>1, <3>3 DEF BackedInv, Undecided, NoBook
  <2>4. CASE Admit
    <3>1. pc = "admit" /\ pc' = "optimise" /\ UNCHANGED <<mode, held, opt, target>>
      BY <2>4 DEF Admit
    <3>2. signals' = signals \/ signals' = NoSignals
      BY <2>4 DEF Admit
    <3> QED  BY <3>1, <3>2 DEF BackedInv, Undecided, NoBook, NoSignals
  <2>5. CASE Optimise
    <3>1. /\ pc = "optimise" /\ pc' = "gate" /\ held' \in Books
          /\ UNCHANGED <<mode, market, signals, sizes, target>>
      BY <2>5 DEF Optimise
    <3>2. \A s \in DOMAIN held' : held'[s] \in Nat
      BY <3>1, BooksAssumption
    <3>3. DOMAIN opt'.weights \subseteq Backable
      <4>1. CASE opt' = EmptyOpt
        BY <4>1 DEF EmptyOpt, NoBook
      <4>2. CASE opt' # EmptyOpt
        <5> DEFINE route == Route(sizes, signals, market)
        <5>1. PICK result \in OptimisedBooks(route.names, Weights(held'),
                                 CrisisScalars(market.severity), market.defensive, Vols, Risks) :
                opt'.weights = Multiplied(result.weights, sizes)
          BY <2>5, <4>2 DEF Optimise
        <5>2. DOMAIN result.weights = route.names
          BY BooksOfUniverse
        <5>3. route.names \subseteq Backable
          BY RouteIsBacked
        <5> QED  BY <5>1, <5>2, <5>3 DEF Multiplied
      <4> QED  BY <4>1, <4>2
    <3> QED  BY <3>1, <3>2, <3>3 DEF BackedInv, Undecided, Backable, NoBook
  <2>6. CASE PretradeRiskGate
    <3>1. /\ pc = "gate" /\ pc' = "execute"
          /\ UNCHANGED <<mode, market, signals, sizes, held, opt>>
      BY <2>6 DEF PretradeRiskGate
    <3>2. DOMAIN target' \subseteq DOMAIN opt.weights
      <4>1. \E level : target' = Times(opt.weights, DrawdownScale(level), 100) \/ target' = NoBook
        BY <2>6 DEF PretradeRiskGate
      <4> QED  BY <4>1 DEF Times, NoBook
    <3> QED  BY <3>1, <3>2 DEF BackedInv, Undecided, Backable
  <2>7. CASE Execute
    <3>1. /\ pc' = "done"
          /\ UNCHANGED <<mode, market, signals, sizes, held, opt, target>>
      BY <2>7 DEF Execute
    <3>2. ASSUME mode = "LIVE", NEW s \in Symbols, s \notin DOMAIN target
          PROVE  ~(Weight(achieved', s) > Weight(held, s))
      <4>1. Weight(held, s) \in Nat
        BY DEF BackedInv, Weight
      <4>2. CASE achieved' = held
        BY <4>1, <4>2
      <4>3. CASE ExecuteLive
        <5>1. PICK part \in [Planned -> {1, 2}] :
                achieved' = AchievedFrom([x \in Universe |->
                    IF x \in Planned THEN (OrderSize(x) * part[x]) \div 2 ELSE 0], 0)
          BY <4>3 DEF ExecuteLive
        <5> DEFINE filled == [x \in Universe |->
                    IF x \in Planned THEN (OrderSize(x) * part[x]) \div 2 ELSE 0]
        <5>2. OrderSize(s) \in Nat
          BY <3>2, <4>1, OutsideTargetSells
        <5>3. s \in Planned => part[s] \in {1, 2}
          OBVIOUS
        <5>4. s \in Universe => filled[s] \in Nat
          BY <5>2, <5>3
        <5> HIDE DEF filled
        <5> QED  BY <3>2, <4>1, <5>1, <5>4, OutsideTargetShrinks DEF filled
      <4> QED  BY <2>7, <3>2, <4>2, <4>3 DEF Execute, ExecuteNothing, ExecutePaper
    <3> QED  BY <3>1, <3>2 DEF BackedInv, Undecided, Backable, Weight
  <2>8. CASE UNCHANGED cycleVars
    BY <2>8 DEF cycleVars, BackedInv, Undecided, Backable, Weight
  <2> QED  BY <2>1, <2>2, <2>3, <2>4, <2>5, <2>6, <2>7, <2>8 DEF CycleNext
<1> QED  BY <1>1, <1>2, PTL DEF CycleSpec

\* In LIVE a name is bought because its prediction was admitted, or because a sleeve that
\* passed its validation backs it outside a crisis (_run_cycle STEPs 5, 8, 9 and 12).
THEOREM PurchasesAreEverBacked == CycleSpec => []PurchasesAreBacked
<1>1. BackedInv => PurchasesAreBacked
  BY DEF BackedInv, PurchasesAreBacked, Done, Backable
<1> QED  BY <1>1, BackedInductive, PTL
-----------------------------------------------------------------------------
(* Numbers: rounding, bounds, and books that are scaled                    *)

\* What the proofs need to know of the whole capital; its digits make the solver slow.
LEMMA WholeIsNatural == Whole \in Nat /\ Whole > 0
  BY DEF Whole

LEMMA RoundingDown ==
    ASSUME NEW a \in Int, NEW b \in Nat, b > 0
    PROVE  a \div b \in Int /\ b * (a \div b) <= a /\ a < b * (a \div b) + b
  OBVIOUS

LEMMA RoundedStays ==
    ASSUME NEW a \in Int, NEW b \in Nat, b > 0, NEW n \in Int
    PROVE  /\ a <= b * n => a \div b <= n
           /\ a < b * (n + 1) => a \div b <= n
           /\ b * n <= a => n <= a \div b
<1>1. b * (n + 1) = b * n + b
  OBVIOUS
<1> QED BY <1>1

LEMMA Smallest ==
    ASSUME NEW a \in Int, NEW b \in Int
    PROVE  Min({a, b}) = IF a <= b THEN a ELSE b
<1>1. \E x \in {a, b} : \A y \in {a, b} : x <= y
  OBVIOUS
<1> QED BY <1>1 DEF Min

LEMMA Largest ==
    ASSUME NEW a \in Int, NEW b \in Int
    PROVE  Max({a, b}) = IF a >= b THEN a ELSE b
<1>1. \E x \in {a, b} : \A y \in {a, b} : x >= y
  OBVIOUS
<1> QED BY <1>1 DEF Max

LEMMA Clipped ==
    ASSUME NEW x \in Int, NEW lo \in Int, NEW hi \in Int, lo <= hi
    PROVE  Clip(x, lo, hi) \in lo .. hi
<1> DEFINE m == Min({x, hi})
<1>1. m \in Int /\ m <= hi
  BY Smallest
<1> HIDE DEF m
<1>2. Max({lo, m}) = IF lo >= m THEN lo ELSE m
  BY <1>1, Largest
<1> QED BY <1>1, <1>2 DEF Clip, m

\* Factors keep an order.
LEMMA ScaledOrder ==
    ASSUME NEW a \in Int, NEW b \in Int, NEW c \in Nat, a <= b
    PROVE  a * c <= b * c /\ c * a <= c * b
  OBVIOUS

IsBook(w, U) == w \in [U -> Nat]

LEMMA TotalOfBook ==
    ASSUME NEW U, IsFiniteSet(U), NEW w, IsBook(w, U)
    PROVE  /\ Total(w) = SumFunctionOnSet(w, U) /\ Total(w) \in Nat
           /\ \A s \in U : w[s] <= Total(w)
<1>1. Total(w) = SumFunctionOnSet(w, U)
  BY DEF IsBook, Total, SumFunction
<1>2. \A s \in U : w[s] \in Nat
  BY DEF IsBook
<1>3. ASSUME NEW s \in U
      PROVE  w[s] <= SumFunctionOnSet(w, U)
  <2>1. \A x \in U : w[x] \in Int
    BY <1>2
  <2>2. SumFunctionOnSet(w, U) = w[s] + SumFunctionOnSet(w, U \ {s})
    BY <2>1, SumOneMore
  <2>3. SumFunctionOnSet(w, U \ {s}) \in Nat
    BY <1>2, FS_RemoveElement, SumIsNat
  <2> QED BY <1>2, <2>2, <2>3
<1> QED BY <1>1, <1>2, <1>3, SumIsNat

\* A smaller book has a smaller gross.
LEMMA TotalCompares ==
    ASSUME NEW U, IsFiniteSet(U), NEW w, IsBook(w, U), NEW v, IsBook(v, U),
           \A s \in U : v[s] <= w[s]
    PROVE  Total(v) <= Total(w)
<1>1. \A s \in U : v[s] \in Int /\ w[s] \in Int
  BY DEF IsBook
<1> QED BY <1>1, SumCompares, TotalOfBook

\* A weight is rounded down when it is scaled, by less than one.
LEMMA TimesOfBook ==
    ASSUME NEW U, NEW w, IsBook(w, U), NEW num \in Nat, NEW den \in Nat, den > 0
    PROVE  /\ IsBook(Times(w, num, den), U)
           /\ \A s \in U : /\ den * Times(w, num, den)[s] <= num * w[s]
                           /\ num * w[s] <= den * Times(w, num, den)[s] + den
<1> DEFINE v == Times(w, num, den)
<1>1. DOMAIN w = U /\ \A s \in U : w[s] \in Nat
  BY DEF IsBook
<1>2. v = [s \in U |-> (w[s] * num) \div den]
  BY <1>1 DEF Times
<1>3. ASSUME NEW s \in U
      PROVE  v[s] \in Nat /\ den * v[s] <= num * w[s] /\ num * w[s] <= den * v[s] + den
  <2> DEFINE a == w[s] * num
  <2>1. a \in Nat /\ a = num * w[s]
    BY <1>1
  <2>2. v[s] = a \div den
    BY <1>2
  <2> HIDE DEF a, v
  <2>3. den * (a \div den) <= a /\ a < den * (a \div den) + den /\ a \div den \in Nat
    BY <2>1
  <2> QED BY <2>1, <2>2, <2>3
<1> QED BY <1>2, <1>3 DEF IsBook

LEMMA TotalOfTimes ==
    ASSUME NEW U, IsFiniteSet(U), NEW w, IsBook(w, U), NEW num \in Nat, NEW den \in Nat, den > 0
    PROVE  /\ den * Total(Times(w, num, den)) <= num * Total(w)
           /\ num * Total(w) <= den * Total(Times(w, num, den)) + Cardinality(U) * den
<1> DEFINE v == Times(w, num, den)
           f == [s \in U |-> den * v[s]]
           g == [s \in U |-> num * w[s]]
           h == [s \in U |-> den * v[s] + den]
<1>1. IsBook(v, U) /\ \A s \in U : den * v[s] <= num * w[s] /\ num * w[s] <= den * v[s] + den
  BY TimesOfBook
<1>2. \A s \in U : w[s] \in Int /\ v[s] \in Int
  BY <1>1 DEF IsBook
<1> HIDE DEF v
<1>3. /\ \A s \in U : f[s] = den * v[s]
      /\ \A s \in U : g[s] = num * w[s]
      /\ \A s \in U : h[s] = den * v[s] + den
  OBVIOUS
<1> HIDE DEF f, g, h
<1>4. \A s \in U : f[s] \in Int /\ g[s] \in Int /\ h[s] \in Int
  BY <1>2, <1>3
<1>5. SumFunctionOnSet(f, U) <= SumFunctionOnSet(g, U)
  BY <1>1, <1>3, <1>4, SumCompares
<1>6. SumFunctionOnSet(g, U) <= SumFunctionOnSet(h, U)
  BY <1>1, <1>3, <1>4, SumCompares
<1>7. SumFunctionOnSet(f, U) = den * SumFunctionOnSet(v, U)
  BY <1>2, <1>3, SumOfScaled
<1>8. SumFunctionOnSet(g, U) = num * SumFunctionOnSet(w, U)
  BY <1>2, <1>3, SumOfScaled
<1>9. SumFunctionOnSet(h, U) = SumFunctionOnSet(f, U) + Cardinality(U) * den
  <2>1. \A s \in U : f[s] \in Int /\ h[s] = f[s] + IF s \in U THEN den ELSE 0
    BY <1>3, <1>4
  <2> QED BY <2>1, SumOfRaised
<1>10. Total(v) = SumFunctionOnSet(v, U) /\ Total(w) = SumFunctionOnSet(w, U)
  BY <1>1, TotalOfBook
<1> QED BY <1>5, <1>6, <1>7, <1>8, <1>9, <1>10 DEF v

\* Scaled by no more than one, no weight grows.
LEMMA TimesShrinks ==
    ASSUME NEW U, NEW w, IsBook(w, U), NEW num \in Nat, NEW den \in Nat, den > 0, num <= den
    PROVE  \A s \in U : Times(w, num, den)[s] <= w[s]
<1> TAKE s \in U
<1> DEFINE x == Times(w, num, den)[s]
<1>1. w[s] \in Nat /\ x \in Nat /\ den * x <= num * w[s]
  BY TimesOfBook DEF IsBook
<1>2. num * w[s] <= den * w[s]
  BY <1>1, ScaledOrder
<1> HIDE DEF x
<1>3. x <= w[s]
  BY <1>1, <1>2
<1> QED BY <1>3 DEF x
-----------------------------------------------------------------------------
(* The tail of a book that is scaled                                       *)

\* What is left of a book after its hedge, whichever is the larger.
HedgeOf(w, risk) == IF risk.hedge \in DOMAIN w THEN w[risk.hedge] ELSE 0
Net(w, risk)     == Abs(Total(w) - 2 * HedgeOf(w, risk))

IsRisk(risk) == risk.unit \in 0 .. 100

\* The tail is below limit once its rounding is counted.
TailWithin(w, risk, limit) == risk.unit * Net(w, risk) < 100 * (limit + 1)

LEMMA NetOfBook ==
    ASSUME NEW U, IsFiniteSet(U), NEW w, IsBook(w, U), NEW risk
    PROVE  /\ HedgeOf(w, risk) \in Nat /\ Net(w, risk) \in Nat
           /\ Cvar(w, risk) = (risk.unit * Net(w, risk)) \div 100
           /\ risk.hedge \notin U => Net(w, risk) = Total(w)
<1> DEFINE hedge == HedgeOf(w, risk)
           rest  == Total(w) - hedge
<1>1. DOMAIN w = U /\ hedge \in Nat /\ Total(w) \in Nat
  BY TotalOfBook DEF IsBook, HedgeOf
<1>2. Cvar(w, risk) = (risk.unit * (IF rest >= hedge THEN rest - hedge ELSE hedge - rest)) \div 100
  BY DEF Cvar, HedgeOf
<1>3. risk.hedge \notin U => hedge = 0
  BY <1>1 DEF HedgeOf
<1>4. Net(w, risk) = Abs(Total(w) - 2 * hedge)
  BY DEF Net
<1> HIDE DEF hedge
<1>5. Net(w, risk) = IF rest >= hedge THEN rest - hedge ELSE hedge - rest
  BY <1>1, <1>4 DEF Abs
<1>6. Net(w, risk) \in Nat
  BY <1>1, <1>5
<1>7. risk.hedge \notin U => Net(w, risk) = Total(w)
  BY <1>1, <1>3, <1>5
<1> HIDE DEF rest
<1> QED BY <1>1, <1>2, <1>5, <1>6, <1>7 DEF hedge

LEMMA CvarOfBook ==
    ASSUME NEW U, IsFiniteSet(U), NEW w, IsBook(w, U), NEW risk, IsRisk(risk), NEW limit \in Int
    PROVE  /\ Cvar(w, risk) \in Nat
           /\ TailWithin(w, risk, limit) <=> Cvar(w, risk) <= limit
<1> DEFINE n == Net(w, risk)
           u == risk.unit
<1>1. n \in Nat /\ u \in Nat /\ Cvar(w, risk) = (u * n) \div 100
  BY NetOfBook DEF IsRisk
<1>2. TailWithin(w, risk, limit) <=> u * n < 100 * (limit + 1)
  BY DEF TailWithin
<1> HIDE DEF n, u
<1>3. u * n \in Nat
  BY <1>1
<1> DEFINE a == u * n
<1> HIDE DEF a
<1>4. a \in Nat => (a < 100 * (limit + 1) <=> a \div 100 <= limit) /\ a \div 100 \in Nat
  OBVIOUS
<1> QED BY <1>1, <1>2, <1>3, <1>4 DEF a

\* Each rounding moves the net by less than one per name.
LEMMA NetOfTimes ==
    ASSUME NEW U, IsFiniteSet(U), NEW w, IsBook(w, U), NEW risk,
           NEW num \in Nat, NEW den \in Nat, den > 0
    PROVE  /\ den * Net(Times(w, num, den), risk) <= num * Net(w, risk) + Cardinality(U) * den
           /\ risk.hedge \notin U => den * Net(Times(w, num, den), risk) <= num * Net(w, risk)
<1> DEFINE v == Times(w, num, den)
           n == Cardinality(U)
<1>1. IsBook(v, U) /\ n \in Nat
  BY TimesOfBook, FS_CardinalityType
<1>2. den * Total(v) <= num * Total(w) /\ num * Total(w) <= den * Total(v) + n * den
  BY TotalOfTimes
<1> HIDE DEF v, n
<1>3. Total(v) \in Nat /\ Total(w) \in Nat
  BY <1>1, TotalOfBook
<1>4. CASE risk.hedge \notin U
  <2>1. Net(v, risk) = Total(v) /\ Net(w, risk) = Total(w)
    BY <1>1, <1>4, NetOfBook
  <2>2. n * den \in Nat
    BY <1>1
  <2> QED BY <1>2, <1>3, <1>4, <2>1, <2>2 DEF v, n
<1>5. CASE risk.hedge \in U
  <2> DEFINE x == w[risk.hedge]
             y == v[risk.hedge]
             W == Total(w)
             V == Total(v)
  <2>1. x \in Nat /\ y \in Nat /\ den * y <= num * x /\ num * x <= den * y + den
    BY <1>1, <1>5, TimesOfBook DEF IsBook, v
  <2>2. HedgeOf(w, risk) = x /\ HedgeOf(v, risk) = y
    BY <1>1, <1>5 DEF HedgeOf, IsBook
  <2>3. Net(w, risk) = Abs(W - 2 * x) /\ Net(v, risk) = Abs(V - 2 * y)
    BY <2>2 DEF Net
  <2>4. W \in Nat /\ V \in Nat /\ den * V <= num * W /\ num * W <= den * V + n * den
    BY <1>2, <1>3
  <2>5. x + SumFunctionOnSet(w, U \ {risk.hedge}) = W /\ y + SumFunctionOnSet(v, U \ {risk.hedge}) = V
    <3>1. \A s \in U : w[s] \in Int /\ v[s] \in Int
      BY <1>1 DEF IsBook
    <3> QED BY <1>1, <1>5, <3>1, TotalOfBook, SumOneMore
  <2> DEFINE m  == n - 1
             R  == W - x
             S  == V - y
  <2>6. /\ S \in Nat /\ R \in Nat /\ m \in Nat
        /\ den * S <= num * R /\ num * R <= den * S + m * den
    <3> DEFINE Q  == U \ {risk.hedge}
               wq == [s \in Q |-> w[s]]
               vq == Times(wq, num, den)
    <3>1. IsFiniteSet(Q) /\ Cardinality(Q) = m /\ m \in Nat
      <4>1. IsFiniteSet(Q) /\ Cardinality(Q) = Cardinality(U) - 1
        BY <1>5, FS_RemoveElement
      <4>2. Cardinality(Q) \in Nat
        BY <4>1, FS_CardinalityType
      <4> QED BY <4>1, <4>2 DEF n
    <3>2. IsBook(wq, Q)
      BY <1>1 DEF IsBook
    <3>3. \A s \in Q : wq[s] = w[s] /\ vq[s] = v[s]
      BY <1>1 DEF Times, IsBook, v
    <3> HIDE DEF Q, wq, m
    <3>4. den * Total(vq) <= num * Total(wq) /\ num * Total(wq) <= den * Total(vq) + m * den
      BY <3>1, <3>2, TotalOfTimes
    <3>5. IsBook(vq, Q)
      BY <3>2, TimesOfBook
    <3> HIDE DEF vq
    <3>6. /\ Total(vq) \in Nat /\ Total(wq) \in Nat
          /\ Total(vq) = SumFunctionOnSet(vq, Q) /\ Total(wq) = SumFunctionOnSet(wq, Q)
      BY <3>1, <3>2, <3>5, TotalOfBook
    <3>7. SumFunctionOnSet(vq, Q) = SumFunctionOnSet(v, Q) /\ SumFunctionOnSet(wq, Q) = SumFunctionOnSet(w, Q)
      <4>1. \A s \in Q : vq[s] \in Int /\ wq[s] \in Int
        BY <3>2, <3>5 DEF IsBook
      <4> QED BY <3>1, <3>3, <4>1, SumSame
    <3>8. S = SumFunctionOnSet(v, Q) /\ R = SumFunctionOnSet(w, Q)
      BY <2>1, <2>4, <2>5, <3>6, <3>7 DEF Q
    <3> QED BY <3>1, <3>4, <3>6, <3>7, <3>8
  <2>7. /\ Net(w, risk) = (IF R >= x THEN R - x ELSE x - R)
        /\ Net(v, risk) = (IF S >= y THEN S - y ELSE y - S)
    BY <2>1, <2>3, <2>4 DEF Abs
  <2>8. n = m + 1
    BY <1>1
  <2> HIDE DEF x, y, W, V, m, R, S
  <2>9. den * (S - y) = den * S - den * y /\ den * (y - S) = den * y - den * S
    BY <2>1, <2>6
  <2>10. num * (R - x) = num * R - num * x /\ num * (x - R) = num * x - num * R
    BY <2>1, <2>6
  <2>11. n * den = m * den + den /\ m * den \in Nat
    BY <2>6, <2>8
  <2>12. CASE S >= y
    <3>1. den * (S - y) <= num * (R - x) + n * den
      BY <2>1, <2>6, <2>9, <2>10, <2>11
    <3>2. num * (R - x) <= num * Net(w, risk)
      BY <2>1, <2>6, <2>7, ScaledOrder
    <3> DEFINE a == num * (R - x)
               b == num * Net(w, risk)
    <3>3. a \in Int /\ b \in Int /\ den * (S - y) \in Int /\ n * den \in Int
      BY <2>1, <2>6, <2>7, <1>1
    <3> HIDE DEF a, b
    <3>4. den * (S - y) <= b + n * den
      BY <3>1, <3>2, <3>3 DEF a, b
    <3> QED BY <1>5, <2>7, <2>12, <3>4 DEF b, v, n
  <2>13. CASE ~(S >= y)
    <3>1. den * (y - S) <= num * (x - R) + n * den
      BY <2>1, <2>6, <2>9, <2>10, <2>11
    <3>2. num * (x - R) <= num * Net(w, risk)
      BY <2>1, <2>6, <2>7, ScaledOrder
    <3> DEFINE a == num * (x - R)
               b == num * Net(w, risk)
    <3>3. a \in Int /\ b \in Int /\ den * (y - S) \in Int /\ n * den \in Int
      BY <2>1, <2>6, <2>7, <1>1
    <3> HIDE DEF a, b
    <3>4. den * (y - S) <= b + n * den
      BY <3>1, <3>2, <3>3 DEF a, b
    <3> QED BY <1>5, <2>7, <2>13, <3>4 DEF b, v, n
  <2> QED BY <2>12, <2>13
<1> QED BY <1>4, <1>5
LEMMA DeleveredTail ==
    ASSUME NEW c \in Nat, NEW limit \in Nat, limit < c, NEW u \in 0 .. 100,
           NEW N \in Nat, NEW V \in Nat, NEW n \in Nat,
           c * V <= limit * N + n * c, u * N < 100 * (c + 1)
    PROVE  u * V < 100 * (limit + n + 1)
<1> DEFINE a == u * N
           b == u * V
<1>1. a \in Nat /\ b \in Nat
  OBVIOUS
<1>2. c * b <= limit * a + (u * n) * c
  <2>1. u * (c * V) <= u * (limit * N + n * c)
    BY ScaledOrder
  <2>2. u * (c * V) = c * b /\ u * (limit * N + n * c) = limit * a + (u * n) * c
    OBVIOUS
  <2> QED BY <2>1, <2>2
<1> HIDE DEF a, b
<1>3. a <= 100 * c + 99
  BY <1>1 DEF a
<1>4. limit * a <= 100 * (c * limit) + 99 * limit
  <2>1. limit * a <= limit * (100 * c + 99)
    BY <1>1, <1>3, ScaledOrder
  <2> QED BY <2>1
<1>5. (u * n) * c <= (100 * n) * c
  <2>1. u * n <= 100 * n /\ u * n \in Nat
    BY ScaledOrder
  <2> QED BY <2>1, ScaledOrder
<1>6. c * (100 * (limit + n + 1)) = 100 * (c * limit) + (100 * n) * c + 100 * c
  OBVIOUS
<1> DEFINE p == limit * a
           q == c * limit
           r == (u * n) * c
           t == (100 * n) * c
           x == c * b
           y == c * (100 * (limit + n + 1))
<1>7. p \in Int /\ q \in Int /\ r \in Int /\ t \in Int /\ x \in Int /\ y \in Int
  BY <1>1
<1>8. x <= p + r /\ p <= 100 * q + 99 * limit /\ r <= t /\ y = 100 * q + t + 100 * c
  BY <1>2, <1>4, <1>5, <1>6
<1> HIDE DEF p, q, r, t, x, y
<1>9. x < y
  BY <1>7, <1>8
<1> QED BY <1>1, <1>9 DEF x, y, b

\* A book that is de-levered to the CVaR limit has it, a basis point per name apart when one of
\* them is a hedge (_enforce_cvar_limit).
LEMMA EnforcedTail ==
    ASSUME NEW U, IsFiniteSet(U), NEW w, IsBook(w, U), NEW risk, IsRisk(risk), NEW limit \in Nat
    PROVE  /\ IsBook(EnforceCvarLimit(w, risk, limit), U)
           /\ \A s \in U : EnforceCvarLimit(w, risk, limit)[s] <= w[s]
           /\ TailWithin(EnforceCvarLimit(w, risk, limit), risk, limit + Cardinality(U))
           /\ risk.hedge \notin U => TailWithin(EnforceCvarLimit(w, risk, limit), risk, limit)
<1> DEFINE n == Cardinality(U)
           c == Cvar(w, risk)
           v == Times(w, limit, c)
<1>1. n \in Nat /\ c \in Nat
  BY FS_CardinalityType, CvarOfBook
<1>2. CASE c <= limit
  <2>1. EnforceCvarLimit(w, risk, limit) = w
    BY <1>2 DEF EnforceCvarLimit
  <2>2. c <= limit + n /\ limit + n \in Int
    BY <1>1, <1>2
  <2>3. TailWithin(w, risk, limit) /\ TailWithin(w, risk, limit + n)
    BY <1>2, <2>2, CvarOfBook
  <2> QED BY <2>1, <2>3 DEF IsBook
<1>3. CASE limit < c
  <2>1. EnforceCvarLimit(w, risk, limit) = v
    BY <1>1, <1>3 DEF EnforceCvarLimit
  <2>2. IsBook(v, U) /\ \A s \in U : v[s] <= w[s]
    BY <1>1, <1>3, TimesOfBook, TimesShrinks
  <2>3. Net(v, risk) \in Nat /\ Net(w, risk) \in Nat /\ risk.unit \in 0 .. 100
    BY <2>2, NetOfBook DEF IsRisk
  <2>4. risk.unit * Net(w, risk) < 100 * (c + 1)
    <3>1. TailWithin(w, risk, c)
      BY <1>1, CvarOfBook
    <3> QED BY <3>1 DEF TailWithin
  <2>5. /\ c * Net(v, risk) <= limit * Net(w, risk) + n * c
        /\ risk.hedge \notin U => c * Net(v, risk) <= limit * Net(w, risk)
    BY <1>1, <1>3, NetOfTimes
  <2> DEFINE N == Net(w, risk)
             V == Net(v, risk)
             u == risk.unit
  <2> HIDE DEF n, c, v, N, V, u
  <2>6. u * V < 100 * (limit + n + 1)
    BY <1>1, <1>3, <2>3, <2>4, <2>5, DeleveredTail DEF N, V, u
  <2>7. risk.hedge \notin U => u * V < 100 * (limit + 0 + 1)
    <3> SUFFICES ASSUME risk.hedge \notin U PROVE u * V < 100 * (limit + 0 + 1)
      OBVIOUS
    <3>1. c * V <= limit * N + 0 * c
      BY <1>1, <2>3, <2>5 DEF N, V
    <3> QED BY <1>1, <1>3, <2>3, <2>4, <3>1, DeleveredTail DEF N, V, u
  <2>8. limit + n + 1 = (limit + n) + 1 /\ limit + 0 + 1 = limit + 1
    BY <1>1
  <2>9. TailWithin(v, risk, limit + n) /\ (risk.hedge \notin U => TailWithin(v, risk, limit))
    BY <2>6, <2>7, <2>8 DEF TailWithin, V, u
  <2> QED BY <2>1, <2>2, <2>9 DEF n
<1> QED BY <1>1, <1>2, <1>3

\* The drawdown scale rounds once more.
LEMMA ScaledTail ==
    ASSUME NEW U, IsFiniteSet(U), NEW w, IsBook(w, U), NEW risk, IsRisk(risk), NEW limit \in Nat,
           NEW d \in 0 .. 100, TailWithin(w, risk, limit)
    PROVE  /\ TailWithin(Times(w, d, 100), risk, limit + Cardinality(U))
           /\ risk.hedge \notin U => TailWithin(Times(w, d, 100), risk, limit)
<1> DEFINE n == Cardinality(U)
           v == Times(w, d, 100)
           N == Net(w, risk)
           V == Net(v, risk)
           u == risk.unit
<1>1. n \in Nat /\ IsBook(v, U)
  BY FS_CardinalityType, TimesOfBook
<1>2. N \in Nat /\ V \in Nat /\ u \in 0 .. 100
  BY <1>1, NetOfBook DEF IsRisk
<1>3. u * N < 100 * (limit + 1)
  BY DEF TailWithin
<1>4. 100 * V <= d * N + n * 100 /\ (risk.hedge \notin U => 100 * V <= d * N)
  BY NetOfTimes
<1> HIDE DEF n, v, N, V, u
<1>5. d * N <= 100 * N
  BY <1>2, ScaledOrder
<1>6. V <= N + n /\ (risk.hedge \notin U => V <= N)
  <2> DEFINE x == d * N
  <2>1. x \in Nat
    BY <1>2
  <2> HIDE DEF x
  <2> QED BY <1>1, <1>2, <1>4, <1>5, <2>1 DEF x
<1>7. u * V <= u * N + 100 * n /\ (risk.hedge \notin U => u * V <= u * N)
  <2>1. u * V <= u * (N + n)
    BY <1>1, <1>2, <1>6, ScaledOrder
  <2>2. u * n <= 100 * n
    BY <1>1, <1>2, ScaledOrder
  <2>3. u * (N + n) = u * N + u * n
    BY <1>1, <1>2
  <2>4. risk.hedge \notin U => u * V <= u * N
    BY <1>2, <1>6, ScaledOrder
  <2> DEFINE a == u * V
             b == u * N
             e == u * n
  <2>5. a \in Int /\ b \in Int /\ e \in Int
    BY <1>1, <1>2
  <2>6. a <= b + e /\ e <= 100 * n
    BY <2>1, <2>2, <2>3
  <2> HIDE DEF a, b, e
  <2>7. a <= b + 100 * n
    BY <1>1, <2>5, <2>6
  <2> QED BY <2>4, <2>7 DEF a, b
<1>8. u * V < 100 * ((limit + n) + 1) /\ (risk.hedge \notin U => u * V < 100 * (limit + 1))
  <2> DEFINE a == u * V
             b == u * N
  <2>1. a \in Int /\ b \in Int
    BY <1>2
  <2> HIDE DEF a, b
  <2> QED BY <1>1, <1>3, <1>7, <2>1 DEF a, b
<1> QED BY <1>8 DEF TailWithin, V, u, v, n

\* A smaller book without a hedge has a smaller tail.
LEMMA SmallerTail ==
    ASSUME NEW U, IsFiniteSet(U), NEW w, IsBook(w, U), NEW v, IsBook(v, U),
           \A s \in U : v[s] <= w[s], NEW risk, IsRisk(risk), risk.hedge \notin U,
           NEW limit \in Nat, TailWithin(w, risk, limit)
    PROVE  TailWithin(v, risk, limit)
<1>1. Net(v, risk) = Total(v) /\ Net(w, risk) = Total(w)
  BY NetOfBook
<1>2. Total(v) <= Total(w) /\ Total(v) \in Nat /\ Total(w) \in Nat
  BY TotalCompares, TotalOfBook
<1>3. risk.unit * Total(v) <= risk.unit * Total(w)
  BY <1>2, ScaledOrder DEF IsRisk
<1>4. risk.unit * Total(v) \in Int /\ risk.unit * Total(w) \in Int
  BY <1>2 DEF IsRisk
<1> QED BY <1>1, <1>3, <1>4 DEF TailWithin
-----------------------------------------------------------------------------
(* optimise_portfolio                                                      *)

Limits == {MaxPositionWeight, CrisisWeight, MinWeight, TargetVol, MaxLeverage, CvarLimit}

LEMMA LimitsAreNaturals ==
    /\ MaxPositionWeight \in Nat /\ CrisisWeight \in Nat /\ MinWeight \in Nat
    /\ TargetVol \in Nat /\ MaxLeverage \in Nat /\ CvarLimit \in Nat
  BY LimitsAssumption

EqualWeights(U) == [s \in U |-> Whole \div Cardinality(U)]

LEMMA EqualWeightsFit ==
    ASSUME NEW U, IsFiniteSet(U), U # {}
    PROVE  /\ Cardinality(U) \in Nat /\ Cardinality(U) > 0
           /\ Whole \div Cardinality(U) \in Nat
           /\ IsBook(EqualWeights(U), U)
           /\ Total(EqualWeights(U)) = Cardinality(U) * (Whole \div Cardinality(U))
           /\ Total(EqualWeights(U)) <= Whole
<1> DEFINE n == Cardinality(U)
           q == Whole \div n
           w == EqualWeights(U)
<1>1. n \in Nat /\ n > 0
  BY FS_CardinalityType, FS_EmptySet
<1>2. q \in Nat /\ n * q <= Whole
  BY <1>1, RoundingDown, WholeIsNatural
<1>3. w = [s \in U |-> q]
  BY DEF EqualWeights
<1> HIDE DEF n, q, w
<1>4. IsBook(w, U) /\ \A s \in U : w[s] = q
  BY <1>2, <1>3 DEF IsBook
<1>5. SumFunctionOnSet(w, U) = n * q
  BY <1>2, <1>4, SumOfEqualTerms DEF n
<1>6. Total(w) = n * q
  BY <1>4, <1>5, TotalOfBook
<1> QED BY <1>1, <1>2, <1>4, <1>6 DEF n, q, w

\* What the solver returns is a long-only book of the universe, fully invested or of equal
\* weights (_solve_mean_variance).
LEMMA SolutionsAreBooks ==
    ASSUME NEW U, IsFiniteSet(U), U # {}, NEW cap, NEW w \in Solutions(U, cap)
    PROVE  /\ IsBook(w, U) /\ Total(w) <= Whole
           /\ w = EqualWeights(U) \/ (Total(w) = Whole /\ \A s \in U : w[s] <= cap)
<1>1. CASE w = EqualWeights(U)
  BY <1>1, EqualWeightsFit
<1>2. CASE w # EqualWeights(U)
  <2>1. w \in [U -> Grid] /\ Total(w) = Whole /\ \A s \in U : w[s] <= cap
    BY <1>2 DEF Solutions, EqualWeights
  <2>2. IsBook(w, U)
    BY <2>1, LimitsAssumption DEF IsBook
  <2> QED BY <2>1, <2>2, WholeIsNatural
<1> QED BY <1>1, <1>2

\* The weights over the threshold, and the book they are renormalised to.
Kept(w) == [s \in DOMAIN w |-> IF w[s] < MinWeight THEN 0 ELSE w[s]]

LEMMA DustOfBook ==
    ASSUME NEW U, IsFiniteSet(U), NEW w, IsBook(w, U), Total(w) <= Whole
    PROVE  /\ IsBook(Kept(w), U)
           /\ DropDust(w) = IF Total(Kept(w)) = 0 THEN Kept(w)
                            ELSE Times(Kept(w), Whole, Total(Kept(w)))
           /\ IsBook(DropDust(w), U) /\ Total(DropDust(w)) <= Whole
<1> DEFINE k == Kept(w)
           T == Total(k)
           b == DropDust(w)
<1>1. IsBook(k, U)
  BY DEF IsBook, Kept
<1>2. T \in Nat
  BY <1>1, TotalOfBook
<1>3. b = IF T = 0 THEN k ELSE Times(k, Whole, T)
  BY DEF DropDust, Kept
<1> HIDE DEF k
<1>4. CASE T = 0
  BY <1>1, <1>3, <1>4, WholeIsNatural DEF k
<1>5. CASE T # 0
  <2>1. IsBook(Times(k, Whole, T), U) /\ T * Total(Times(k, Whole, T)) <= Whole * T
    BY <1>1, <1>2, <1>5, TimesOfBook, TotalOfTimes, WholeIsNatural
  <2> DEFINE x == Total(Times(k, Whole, T))
  <2>2. x \in Nat
    BY <2>1, TotalOfBook
  <2> HIDE DEF x, T
  <2>3. x <= Whole
    <3>1. T > 0 /\ T * x <= Whole * T
      BY <1>2, <1>5, <2>1 DEF x
    <3> QED BY <1>2, <2>2, <3>1, WholeIsNatural
  <2> QED BY <1>1, <1>3, <1>5, <2>1, <2>3 DEF x, T, k
<1> QED BY <1>4, <1>5

\* Without dust the renormalisation changes nothing: of a full book, and of equal weights that
\* do not quite fill it.
LEMMA NoDust ==
    ASSUME NEW U, IsFiniteSet(U), U # {}, NEW w, IsBook(w, U), Total(w) <= Whole,
           w = EqualWeights(U) \/ Total(w) = Whole,
           \A s \in U : w[s] \notin 1 .. MinWeight - 1
    PROVE  \A s \in U : DropDust(w)[s] <= w[s]
<1>1. \A s \in U : w[s] \in Nat
  BY DEF IsBook
<1>2. Kept(w) = w
  <2>1. \A s \in U : (IF w[s] < MinWeight THEN 0 ELSE w[s]) = w[s]
    BY <1>1, LimitsAreNaturals
  <2>2. DOMAIN w = U /\ w = [s \in U |-> w[s]]
    BY DEF IsBook
  <2> QED BY <2>1, <2>2 DEF Kept
<1>3. CASE Total(w) = 0
  BY <1>1, <1>2, <1>3, DustOfBook
<1>4. CASE Total(w) # 0
  <2> TAKE s \in U
  <2>1. DropDust(w) = Times(w, Whole, Total(w))
    BY <1>2, <1>4, DustOfBook
  <2>2. DropDust(w)[s] = (w[s] * Whole) \div Total(w)
    BY <2>1 DEF Times, IsBook
  <2>3. CASE Total(w) = Whole
    BY <1>1, <2>2, <2>3, WholeIsNatural
  <2>4. CASE w = EqualWeights(U)
    <3> DEFINE n == Cardinality(U)
               q == Whole \div n
    <3>1. n \in Nat /\ n > 0 /\ q \in Nat /\ Total(w) = n * q
      BY <2>4, EqualWeightsFit
    <3>2. w[s] = q
      BY <2>4 DEF EqualWeights
    <3>3. Whole < n * (q + 1)
      <4>1. Whole < n * q + n
        BY <3>1, RoundingDown, WholeIsNatural
      <4> QED BY <3>1, <4>1
    <3> HIDE DEF n, q
    <3>4. q > 0
      BY <1>4, <3>1
    <3>5. q * Whole < (n * q) * (q + 1)
      <4>1. q * Whole < q * (n * (q + 1))
        BY <3>1, <3>3, <3>4, WholeIsNatural
      <4>2. q * (n * (q + 1)) = (n * q) * (q + 1)
        BY <3>1
      <4> QED BY <4>1, <4>2
    <3>6. n * q \in Nat /\ n * q > 0 /\ q * Whole \in Int
      BY <1>4, <3>1, WholeIsNatural
    <3>7. (q * Whole) \div (n * q) <= q
      BY <3>1, <3>5, <3>6, RoundedStays
    <3> QED BY <2>2, <3>1, <3>2, <3>7
  <2> QED BY <2>3, <2>4
<1> QED BY <1>3, <1>4

\* max_lev: the leverage limit as the optimiser reads it.
Lever == Max({100, MaxLeverage})

LEMMA LeverIsLimit ==
    Lever \in Nat /\ Lever >= 100 /\ (MaxLeverage >= 100 => Lever = MaxLeverage)
<1>1. Lever = IF 100 >= MaxLeverage THEN 100 ELSE MaxLeverage
  BY LimitsAreNaturals, Largest DEF Lever
<1> QED BY <1>1, LimitsAreNaturals

LEMMA VolScaleWithin ==
    ASSUME NEW vol \in Nat, NEW scalar \in Nat
    PROVE  VolScale(vol, scalar) \in Nat /\ VolScale(vol, scalar) <= Lever
<1>1. CASE vol = 0
  BY <1>1, LeverIsLimit DEF VolScale
<1>2. CASE vol # 0
  <2> DEFINE x == (TargetVol * scalar) \div vol
  <2>1. TargetVol * scalar \in Nat
    BY LimitsAreNaturals
  <2>2. x \in Nat
    BY <1>2, <2>1
  <2>3. VolScale(vol, scalar) = Min({x, Lever})
    BY <1>2 DEF VolScale, Lever
  <2> HIDE DEF x
  <2>4. Min({x, Lever}) = IF x <= Lever THEN x ELSE Lever
    BY <2>2, LeverIsLimit, Smallest
  <2> QED BY <2>2, <2>3, <2>4, LeverIsLimit
<1> QED BY <1>1, <1>2

\* The ramp only lowers the scale of the book.
LEMMA RampBounds ==
    ASSUME NEW step \in LeverUpSteps, NEW scale \in Nat, scale <= Lever, NEW before \in Nat, NEW gross \in Nat
    PROVE  Ramp(step, scale, before, gross) \in Nat /\ Ramp(step, scale, before, gross) <= Lever
<1> DEFINE allowed == (IF before = 0 THEN Whole ELSE before) * (100 + step)
           x       == allowed \div gross
<1>1. allowed \in Nat
  <2>1. 100 + step \in Nat
    BY LimitsAssumption DEF NoRamp
  <2> DEFINE base == IF before = 0 THEN Whole ELSE before
  <2>2. base \in Nat
    BY WholeIsNatural
  <2> QED BY <2>1, <2>2
<1>2. Ramp(step, scale, before, gross)
        = IF step = NoRamp \/ scale <= 100 \/ gross = 0 \/ x >= scale THEN scale ELSE Max({100, x})
  BY DEF Ramp
<1> HIDE DEF allowed
<1>3. CASE step = NoRamp \/ scale <= 100 \/ gross = 0 \/ x >= scale
  BY <1>2, <1>3
<1>4. CASE ~(step = NoRamp \/ scale <= 100 \/ gross = 0 \/ x >= scale)
  <2>1. x \in Nat
    BY <1>1, <1>4
  <2> HIDE DEF x
  <2>2. Max({100, x}) = IF 100 >= x THEN 100 ELSE x
    BY <2>1, Largest
  <2> QED BY <1>2, <1>4, <2>1, <2>2, LeverIsLimit
<1> QED BY <1>3, <1>4

\* A crisis halves a scale that is not tighter already.
LEMMA TighterScalar ==
    ASSUME NEW x \in 0 .. 100, NEW crisis \in BOOLEAN
    PROVE  Min({x, IF crisis THEN 50 ELSE 100}) \in 0 .. 100
<1> DEFINE y == IF crisis THEN 50 ELSE 100
<1>1. y \in {50, 100}
  OBVIOUS
<1> HIDE DEF y
<1>2. x \in Int /\ y \in Int
  BY <1>1
<1>3. Min({x, y}) = IF x <= y THEN x ELSE y
  BY <1>2, Smallest
<1>4. Min({x, y}) \in 0 .. 100
  BY <1>1, <1>3
<1> QED BY <1>4 DEF y

LEMMA CvarBoundIsTighter ==
    ASSUME NEW scalars, scalars.cvar \in 0 .. 100, NEW crisis \in BOOLEAN
    PROVE  CvarBound(scalars, crisis) \in Nat /\ CvarBound(scalars, crisis) <= CvarLimit
<1> DEFINE m == Min({scalars.cvar, IF crisis THEN 50 ELSE 100})
<1>1. m \in 0 .. 100
  BY TighterScalar
<1> HIDE DEF m
<1>2. CvarLimit * m <= CvarLimit * 100 /\ CvarLimit * m \in Nat
  BY <1>1, LimitsAreNaturals, ScaledOrder
<1>3. (CvarLimit * m) \div 100 \in Nat /\ (CvarLimit * m) \div 100 <= CvarLimit
  <2> DEFINE a == CvarLimit * m
  <2>1. a \in Nat /\ a <= CvarLimit * 100
    BY <1>2
  <2> HIDE DEF a
  <2> QED BY <2>1, LimitsAreNaturals DEF a
<1> QED BY <1>3 DEF CvarBound, m

\* The solver's book once it is cleaned of dust is within the cap of a universe that is not too
\* small for it.
LEMMA CleanBookIsCapped ==
    ASSUME NEW U, IsFiniteSet(U), U # {}, NEW crisis \in BOOLEAN,
           NEW w \in Solutions(U, EffectiveCap(U, crisis)),
           MaxPositionWeight >= CrisisWeight, ~Crowded(U, BaseCap(crisis)),
           \A s \in U : w[s] \notin 1 .. MinWeight - 1
    PROVE  \A s \in U : DropDust(w)[s] <= MaxPositionWeight
<1> DEFINE n == Cardinality(U)
           cap == BaseCap(crisis)
<1>1. cap \in Nat /\ cap <= MaxPositionWeight /\ EffectiveCap(U, crisis) = cap
  BY LimitsAreNaturals DEF BaseCap, EffectiveCap
<1>2. n \in Nat /\ n > 0 /\ Whole <= n * cap
  BY <1>1, EqualWeightsFit, WholeIsNatural DEF Crowded
<1>3. IsBook(w, U) /\ Total(w) <= Whole /\ (w = EqualWeights(U) \/ Total(w) = Whole)
  BY SolutionsAreBooks
<1>4. IsBook(DropDust(w), U) /\ \A s \in U : DropDust(w)[s] <= w[s]
  BY <1>3, NoDust, DustOfBook
<1>5. \A s \in U : w[s] <= cap
  <2>1. CASE w = EqualWeights(U)
    <3>1. Whole \div n <= cap
      BY <1>1, <1>2, RoundedStays, WholeIsNatural
    <3> QED BY <2>1, <3>1 DEF EqualWeights
  <2>2. CASE w # EqualWeights(U)
    BY <1>1, <2>2, SolutionsAreBooks
  <2> QED BY <2>1, <2>2
<1> QED
  <2> TAKE s \in U
  <2>1. DropDust(w)[s] \in Nat /\ w[s] \in Nat
    BY <1>3, <1>4 DEF IsBook
  <2> HIDE DEF cap
  <2> QED BY <1>1, <1>4, <1>5, <2>1, LimitsAreNaturals

\* What optimise_portfolio returns of whatever the solver prefers.
FitsLimits(result, U, limit) ==
    /\ IsBook(result.weights, U)
    /\ result.cvar \in Nat /\ result.cvar <= CvarLimit
    /\ 100 * Total(result.weights) <= Whole * Lever
    /\ MaxPositionWeight >= CrisisWeight /\ ~result.relaxed /\ ~result.dusted =>
          \A s \in U : 100 * result.weights[s] <= MaxPositionWeight * Lever
    /\ TailWithin(result.weights, result.risk, limit + Cardinality(U))
    /\ result.risk.hedge \notin U => TailWithin(result.weights, result.risk, limit)

LEMMA OptimisedFits ==
    ASSUME NEW U, IsFiniteSet(U), U # {}, NEW crisis \in BOOLEAN,
           NEW w \in Solutions(U, EffectiveCap(U, crisis)), NEW vol \in Nat,
           NEW risk, IsRisk(risk), NEW before, SumFunctionOnSet(before, U) \in Nat,
           NEW scalars, scalars.vol \in 0 .. 100, scalars.cvar \in 0 .. 100,
           NEW step \in LeverUpSteps
    PROVE  FitsLimits(Optimised(w, vol, risk, U, before, scalars, crisis, step), U,
                      CvarBound(scalars, crisis))
<1> DEFINE result == Optimised(w, vol, risk, U, before, scalars, crisis, step)
           prev   == SumFunctionOnSet(before, U)
           limit  == CvarBound(scalars, crisis)
           scalar == Min({scalars.vol, IF crisis THEN 50 ELSE 100})
           base   == DropDust(w)
           scale  == Ramp(step, VolScale(vol, scalar), prev, Total(base))
           sized  == Times(base, scale, 100)
           out    == EnforceCvarLimit(sized, risk, limit)
<1>1. /\ result.weights = out /\ result.risk = risk
      /\ result.cvar = Min({Cvar(sized, risk), limit})
      /\ result.relaxed = Crowded(U, BaseCap(crisis))
      /\ result.dusted = (\E s \in U : w[s] \in 1 .. MinWeight - 1)
  BY DEF Optimised
<1>2. scalar \in Nat
  <2>1. scalar \in 0 .. 100
    BY TighterScalar
  <2> HIDE DEF scalar
  <2> QED BY <2>1
<1>3. limit \in Nat /\ limit <= CvarLimit
  BY CvarBoundIsTighter
<1>4. IsBook(base, U) /\ Total(base) \in 0 .. Whole
  <2>1. IsBook(w, U) /\ Total(w) <= Whole
    BY SolutionsAreBooks
  <2>2. IsBook(base, U) /\ Total(base) <= Whole
    BY <2>1, DustOfBook
  <2>3. Total(base) \in Nat
    BY <2>2, TotalOfBook
  <2> DEFINE b == Total(base)
  <2> HIDE DEF b
  <2>4. b \in 0 .. Whole
    BY <2>2, <2>3, WholeIsNatural DEF b
  <2> QED BY <2>2, <2>4 DEF b
<1> DEFINE gross == Total(base)
           vs    == VolScale(vol, scalar)
<1>5. vs \in Nat /\ vs <= Lever
  BY <1>2, VolScaleWithin
<1> HIDE DEF result, scalar, limit, base, prev, vs
<1>6. scale \in Nat /\ scale <= Lever
  <2>1. prev \in Nat /\ gross \in Nat
    BY <1>4, WholeIsNatural DEF prev
  <2> QED BY <1>5, <2>1, RampBounds DEF vs
<1> HIDE DEF gross, scale
<1>7. IsBook(sized, U) /\ (\A s \in U : 100 * sized[s] <= scale * base[s])
  BY <1>4, <1>6, TimesOfBook
<1>8. 100 * Total(sized) <= scale * gross
  BY <1>4, <1>6, TotalOfTimes DEF gross
<1> HIDE DEF sized
<1>9. /\ IsBook(out, U) /\ \A s \in U : out[s] <= sized[s]
      /\ TailWithin(out, risk, limit + Cardinality(U))
      /\ risk.hedge \notin U => TailWithin(out, risk, limit)
  BY <1>3, <1>7, EnforcedTail
<1> HIDE DEF out
<1>10. /\ Total(out) \in Nat /\ Total(sized) \in Nat /\ Total(out) <= Total(sized)
       /\ gross \in Nat /\ gross <= Whole
  <2>1. Total(out) \in Nat /\ Total(sized) \in Nat
    BY <1>7, <1>9, TotalOfBook
  <2>2. Total(out) <= Total(sized)
    BY <1>7, <1>9, TotalCompares
  <2>3. gross \in 0 .. Whole
    BY <1>4 DEF gross
  <2>4. gross \in Nat /\ gross <= Whole
    BY <2>3, WholeIsNatural
  <2> QED BY <2>1, <2>2, <2>4
<1>11. 100 * Total(out) <= gross * scale /\ gross * scale \in Nat
  <2> DEFINE a == gross * scale
  <2>1. a \in Nat /\ a = scale * gross
    BY <1>6, <1>10
  <2> HIDE DEF a
  <2> QED BY <1>8, <1>10, <2>1 DEF a
<1>12. 100 * Total(out) <= Whole * Lever
  <2>1. gross * scale <= Whole * scale /\ Whole * scale <= Whole * Lever
    BY <1>6, <1>10, ScaledOrder, LeverIsLimit, WholeIsNatural
  <2> DEFINE a == gross * scale
  <2> HIDE DEF a
  <2>2. a \in Nat /\ 100 * Total(out) <= a /\ a <= Whole * scale
    BY <1>11, <2>1 DEF a
  <2> QED BY <1>6, <1>10, <2>1, <2>2, LeverIsLimit, WholeIsNatural
<1>13. result.cvar \in Nat /\ result.cvar <= CvarLimit
  <2>1. Cvar(sized, risk) \in Nat
    BY <1>7, CvarOfBook
  <2>2. result.cvar = IF Cvar(sized, risk) <= limit THEN Cvar(sized, risk) ELSE limit
    BY <1>1, <1>3, <2>1, Smallest
  <2> QED BY <1>3, <2>1, <2>2, LimitsAreNaturals
<1>14. ASSUME MaxPositionWeight >= CrisisWeight, ~result.relaxed, ~result.dusted, NEW s \in U
       PROVE  100 * out[s] <= MaxPositionWeight * Lever
  <2>1. base[s] <= MaxPositionWeight
    BY <1>1, <1>14, CleanBookIsCapped DEF base
  <2>2. base[s] \in Nat /\ sized[s] \in Nat /\ out[s] \in Nat
    BY <1>4, <1>7, <1>9 DEF IsBook
  <2>3. 100 * out[s] <= scale * base[s]
    <3>1. 100 * sized[s] <= scale * base[s] /\ out[s] <= sized[s] /\ scale * base[s] \in Nat
      BY <1>6, <1>7, <1>9, <2>2
    <3> QED BY <2>2, <3>1
  <2>4. scale * base[s] <= Lever * base[s] /\ Lever * base[s] <= Lever * MaxPositionWeight
    BY <1>6, <2>1, <2>2, LimitsAreNaturals, LeverIsLimit, ScaledOrder
  <2> DEFINE a == scale * base[s]
             b == Lever * base[s]
             e == Lever * MaxPositionWeight
  <2>5. a \in Nat /\ b \in Nat /\ e \in Nat /\ e = MaxPositionWeight * Lever
    BY <1>6, <2>2, LimitsAreNaturals, LeverIsLimit
  <2> HIDE DEF a, b, e
  <2>6. 100 * out[s] <= a /\ a <= b /\ b <= e
    BY <2>3, <2>4 DEF a, b, e
  <2> QED BY <2>2, <2>5, <2>6
<1> QED
  <2>1. /\ IsBook(result.weights, U) /\ result.cvar \in Nat /\ result.cvar <= CvarLimit
        /\ 100 * Total(result.weights) <= Whole * Lever
    BY <1>1, <1>9, <1>12, <1>13
  <2>2. MaxPositionWeight >= CrisisWeight /\ ~result.relaxed /\ ~result.dusted =>
           \A s \in U : 100 * result.weights[s] <= MaxPositionWeight * Lever
    BY <1>1, <1>14
  <2>3. /\ TailWithin(result.weights, result.risk, limit + Cardinality(U))
        /\ result.risk.hedge \notin U => TailWithin(result.weights, result.risk, limit)
    BY <1>1, <1>9
  <2>4. FitsLimits(result, U, limit)
    BY <2>1, <2>2, <2>3 DEF FitsLimits
  <2> QED BY <2>4 DEF result, limit
-----------------------------------------------------------------------------
(***************************************************************************)
(* The risk budget, from STEP 2 to the target.  Every property of it needs *)
(* the optimiser's book to be within the limits STEP 9 was given, and the  *)
(* sizes, the gate and the drawdown scale to only bring a weight down.     *)
(***************************************************************************)
Limit == CvarBound(CrisisScalars(market.severity), market.defensive)

MarketIsSafe ==
    /\ market.defensive \in BOOLEAN
    /\ ~market.assessed => market.severity = 10000 /\ market.defensive

SizesAreShares == DOMAIN sizes \subseteq Symbols /\ \A s \in DOMAIN sizes : sizes[s] \in 0 .. 100

OptFits ==
    /\ DOMAIN opt.weights \subseteq Symbols /\ IsBook(opt.weights, DOMAIN opt.weights)
    /\ IsRisk(opt.risk)
    /\ opt.cvar \in Nat /\ opt.cvar <= CvarLimit
    /\ 100 * Total(opt.weights) <= Whole * Lever
    /\ MaxPositionWeight >= CrisisWeight /\ ~opt.relaxed /\ ~opt.dusted =>
          \A s \in DOMAIN opt.weights : 100 * opt.weights[s] <= MaxPositionWeight * Lever
    /\ opt.path = "baseline" =>
          ~market.defensive /\ TailWithin(opt.weights, opt.risk, Limit + Cardinality(Symbols))
    /\ opt.risk.hedge \notin DOMAIN opt.weights => TailWithin(opt.weights, opt.risk, Limit)

TargetFits ==
    /\ gate.breach => OverLimit(opt)
    /\ gate.approved => ~OverLimit(opt)
    /\ \/ target = NoBook /\ ~gate.approved
       \/ \E d \in 0 .. 100 : target = Times(opt.weights, d, 100)

BudgetInv ==
    /\ pc \in Undecided \cup {"execute", "done"}
    /\ MarketIsSafe
    /\ signals.scored \subseteq Symbols
    /\ SizesAreShares
    /\ \A s \in DOMAIN held : held[s] \in Nat
    /\ pc \in {"gate", "execute", "done"} => OptFits
    /\ pc \in Undecided => gate = NoGate
    /\ pc \in {"execute", "done"} => TargetFits
    /\ NeverTradesThrough

\* crisis_scalars never loosens.
LEMMA ScalarsTighten ==
    ASSUME NEW severity
    PROVE  CrisisScalars(severity).vol \in 0 .. 100 /\ CrisisScalars(severity).cvar \in 0 .. 100
  BY DEF CrisisScalars

LEMMA LimitIsNatural ==
    ASSUME MarketIsSafe
    PROVE  Limit \in Nat
  BY ScalarsTighten, CvarBoundIsTighter DEF Limit, MarketIsSafe

\* A size multiplier brings a weight down (meta_labeler.compute).
LEMMA SizeIsShare ==
    ASSUME NEW p \in [mu : Int, up : Int, tail : Int, confidence : Int]
    PROVE  SizeMultiplier(p, 100, 0) \in 0 .. 100
<1>1. Clip(100, 50, 100) \in Int /\ Clip(100 - 0, 50, 100) \in Int
  BY Clipped
<1> DEFINE x == (p.up - p.tail) * p.confidence * Clip(100, 50, 100) * Clip(100 - 0, 50, 100)
<1>2. x \in Int
  BY <1>1
<1>3. SizeMultiplier(p, 100, 0) = Clip(x \div 1000000, 0, 100)
  BY DEF SizeMultiplier
<1> DEFINE y == x \div 1000000
<1> HIDE DEF x
<1>4. y \in Int
  BY <1>2
<1> HIDE DEF y
<1>5. 0 \in Int /\ 100 \in Int /\ 0 <= 100
  OBVIOUS
<1>6. Clip(y, 0, 100) \in 0 .. 100
  BY <1>4, <1>5, Clipped, Zenon
<1> QED BY <1>3, <1>6 DEF x, y

LEMMA MultipliedShrinks ==
    ASSUME NEW U, NEW w, IsBook(w, U), NEW sz, \A s \in DOMAIN sz : sz[s] \in 0 .. 100
    PROVE  /\ IsBook(Multiplied(w, sz), U)
           /\ \A s \in U : Multiplied(w, sz)[s] <= w[s]
           /\ DOMAIN sz = {} => Multiplied(w, sz) = w
<1>1. w = [s \in U |-> w[s]] /\ DOMAIN w = U /\ \A s \in U : w[s] \in Nat
  BY DEF IsBook
<1>2. Multiplied(w, sz) = [s \in U |-> IF s \in DOMAIN sz THEN (w[s] * sz[s]) \div 100 ELSE w[s]]
  BY <1>1 DEF Multiplied
<1>3. ASSUME NEW a \in Nat, NEW b \in 0 .. 100
      PROVE  (a * b) \div 100 \in Nat /\ (a * b) \div 100 <= a
  <2>1. a * b <= a * 100 /\ a * b \in Nat
    BY ScaledOrder
  <2> DEFINE x == a * b
  <2> HIDE DEF x
  <2>2. x \in Nat /\ x <= a * 100
    BY <2>1 DEF x
  <2>3. x \div 100 \in Nat /\ x \div 100 <= a
    BY <2>2
  <2> QED BY <2>3 DEF x
<1>4. \A s \in U : Multiplied(w, sz)[s] \in Nat /\ Multiplied(w, sz)[s] <= w[s]
  BY <1>1, <1>2, <1>3
<1>5. DOMAIN sz = {} => Multiplied(w, sz) = w
  BY <1>1, <1>2
<1> QED BY <1>2, <1>4, <1>5 DEF IsBook

\* The book held before the cycle is a book of every universe.
LEMMA HeldIsBook ==
    ASSUME NEW book, \A s \in DOMAIN book : book[s] \in Nat, NEW U \in SUBSET Symbols
    PROVE  SumFunctionOnSet(Weights(book), U) \in Nat
<1>1. IsFiniteSet(U)
  BY CycleAssumption, FS_Subset
<1>2. \A s \in U : Weights(book)[s] \in Nat
  BY DEF Weights, Weight
<1> QED BY <1>1, <1>2, SumIsNat

\* STEP 9 from any book held, for any market and any sizes.
LEMMA MultipliedFits ==
    ASSUME NEW U \in SUBSET Symbols, NEW result, NEW limit \in Nat,
           FitsLimits(result, U, limit), IsRisk(result.risk),
           NEW sz, \A s \in DOMAIN sz : sz[s] \in 0 .. 100
    PROVE  LET m == Multiplied(result.weights, sz)
           IN  /\ IsBook(m, U)
               /\ 100 * Total(m) <= Whole * Lever
               /\ MaxPositionWeight >= CrisisWeight /\ ~result.relaxed /\ ~result.dusted =>
                     \A s \in U : 100 * m[s] <= MaxPositionWeight * Lever
               /\ DOMAIN sz = {} => TailWithin(m, result.risk, limit + Cardinality(Symbols))
               /\ result.risk.hedge \notin U => TailWithin(m, result.risk, limit)
<1> DEFINE w == result.weights
           m == Multiplied(w, sz)
<1>1. IsFiniteSet(U) /\ Cardinality(U) \in Nat /\ Cardinality(Symbols) \in Nat
      /\ Cardinality(U) <= Cardinality(Symbols)
  BY CycleAssumption, FS_Subset, FS_CardinalityType
<1>2. IsBook(w, U)
  BY DEF FitsLimits
<1>3. IsBook(m, U) /\ (\A s \in U : m[s] <= w[s]) /\ (DOMAIN sz = {} => m = w)
  BY <1>2, MultipliedShrinks
<1> HIDE DEF m
<1>4. Total(m) \in Nat /\ Total(w) \in Nat /\ Total(m) <= Total(w)
  BY <1>1, <1>2, <1>3, TotalOfBook, TotalCompares
<1>5. 100 * Total(m) <= Whole * Lever
  <2>1. Whole * Lever \in Int
    BY LeverIsLimit, WholeIsNatural
  <2>2. 100 * Total(w) <= Whole * Lever
    BY DEF FitsLimits
  <2> HIDE DEF w
  <2> QED BY <1>4, <2>1, <2>2, WholeIsNatural
<1>6. ASSUME MaxPositionWeight >= CrisisWeight, ~result.relaxed, ~result.dusted, NEW s \in U
      PROVE  100 * m[s] <= MaxPositionWeight * Lever
  <2>1. 100 * w[s] <= MaxPositionWeight * Lever
    BY <1>6 DEF FitsLimits
  <2>2. m[s] \in Nat /\ w[s] \in Nat /\ m[s] <= w[s]
    BY <1>2, <1>3 DEF IsBook
  <2>3. MaxPositionWeight * Lever \in Int
    BY LimitsAreNaturals, LeverIsLimit
  <2> HIDE DEF w
  <2> QED BY <2>1, <2>2, <2>3
<1>7. ASSUME DOMAIN sz = {}
      PROVE  TailWithin(m, result.risk, limit + Cardinality(Symbols))
  <2>1. TailWithin(w, result.risk, limit + Cardinality(U))
    BY DEF FitsLimits
  <2>2. Cvar(w, result.risk) \in Nat /\ Cvar(w, result.risk) <= limit + Cardinality(U)
    BY <1>1, <1>2, <2>1, CvarOfBook
  <2>3. Cvar(w, result.risk) <= limit + Cardinality(Symbols)
    BY <1>1, <2>2
  <2>4. limit + Cardinality(Symbols) \in Int
    BY <1>1
  <2>5. TailWithin(w, result.risk, limit + Cardinality(Symbols))
    BY <1>1, <1>2, <2>3, <2>4, CvarOfBook
  <2> QED BY <1>3, <1>7, <2>5
<1>8. ASSUME result.risk.hedge \notin U
      PROVE  TailWithin(m, result.risk, limit)
  <2>1. TailWithin(w, result.risk, limit)
    BY <1>8 DEF FitsLimits
  <2> QED BY <1>1, <1>2, <1>3, <1>8, <2>1, SmallerTail
<1> QED BY <1>3, <1>5, <1>6, <1>7, <1>8 DEF m
\* STEP 9 as a step of the cycle.
LEMMA OptimiseFits ==
    ASSUME Optimise, MarketIsSafe, SizesAreShares, signals.scored \subseteq Symbols
    PROVE  OptFits' /\ \A s \in DOMAIN held' : held'[s] \in Nat
<1> DEFINE route   == Route(sizes, signals, market)
           U       == route.names
           before  == Weights(held')
           scalars == CrisisScalars(market.severity)
           prev    == SumFunctionOnSet(before, U)
<1>1. held' \in Books /\ UNCHANGED <<market, signals, sizes>>
  BY DEF Optimise
<1>2. \A s \in DOMAIN held' : held'[s] \in Nat
  BY <1>1, BooksAssumption
<1>3. U \in SUBSET Symbols /\ (route.path = "none" \/ U # {})
      /\ (route.path = "baseline" => DOMAIN sizes = {} /\ ~market.defensive)
  BY DEF Route, SizesAreShares
<1>4. scalars.vol \in 0 .. 100 /\ scalars.cvar \in 0 .. 100
  BY ScalarsTighten
<1>5. Limit' = Limit /\ Limit \in Nat
  BY <1>1, LimitIsNatural DEF Limit
<1>6. CASE opt' = EmptyOpt
  <2>1. opt'.weights = NoBook /\ opt'.path = "none" /\ opt'.risk = [hedge |-> Unhedged, unit |-> 0]
        /\ opt'.cvar = 0 /\ DOMAIN opt'.weights = {}
    BY <1>6 DEF EmptyOpt, NoBook
  <2>2. IsBook(opt'.weights, {}) /\ IsFiniteSet({})
    BY <2>1, FS_EmptySet DEF IsBook, NoBook
  <2>3. Total(opt'.weights) = 0
    BY <2>2, TotalOfBook, SumOfNone
  <2>4. IsRisk(opt'.risk) /\ opt'.risk.hedge \notin {}
    BY <2>1 DEF IsRisk
  <2>5. TailWithin(opt'.weights, opt'.risk, Limit)
    <3>1. Net(opt'.weights, opt'.risk) = 0
      BY <2>2, <2>3, NetOfBook
    <3> QED BY <1>5, <2>1, <3>1 DEF TailWithin
  <2>6. 100 * 0 <= Whole * Lever
    BY LeverIsLimit, WholeIsNatural
  <2> QED BY <1>2, <1>5, <2>1, <2>2, <2>3, <2>4, <2>5, <2>6, LimitsAreNaturals DEF OptFits
<1>7. CASE opt' # EmptyOpt
  <2>1. /\ route.path # "none"
        /\ \E result \in OptimisedBooks(U, before, scalars, market.defensive, Vols, Risks) :
              opt' = [weights |-> Multiplied(result.weights, sizes), risk |-> result.risk,
                      cvar |-> result.cvar, relaxed |-> result.relaxed,
                      dusted |-> result.dusted, path |-> route.path]
    BY <1>7 DEF Optimise
  <2>2. PICK result \in OptimisedBooks(U, before, scalars, market.defensive, Vols, Risks) :
              opt' = [weights |-> Multiplied(result.weights, sizes), risk |-> result.risk,
                      cvar |-> result.cvar, relaxed |-> result.relaxed,
                      dusted |-> result.dusted, path |-> route.path]
    BY <2>1
  <2>3. IsFiniteSet(U) /\ U # {} /\ prev \in Nat
    BY <1>2, <1>3, <2>1, CycleAssumption, FS_Subset, HeldIsBook
  <2>4. FitsLimits(result, U, Limit) /\ IsRisk(result.risk)
    <3>1. PICK w \in Solutions(U, EffectiveCap(U, market.defensive)), vol \in Vols, risk \in Risks,
               step \in LeverUpSteps :
            result = Optimised(w, vol, risk, U, before, scalars, market.defensive, step)
      BY DEF OptimisedBooks
    <3>2. vol \in Nat /\ IsRisk(risk)
      BY CycleAssumption DEF IsRisk
    <3>3. market.defensive \in BOOLEAN
      BY DEF MarketIsSafe
    <3>4. result.risk = risk
      BY <3>1 DEF Optimised
    <3> HIDE DEF route, U, before, scalars
    <3>5. FitsLimits(Optimised(w, vol, risk, U, before, scalars, market.defensive, step), U,
                     CvarBound(scalars, market.defensive))
      BY <1>4, <2>3, <3>2, <3>3, OptimisedFits DEF prev
    <3> QED BY <3>1, <3>2, <3>4, <3>5 DEF prev, Limit, scalars
  <2> DEFINE m == Multiplied(result.weights, sizes)
  <2>5. \A s \in DOMAIN sizes : sizes[s] \in 0 .. 100
    BY DEF SizesAreShares
  <2>6. /\ opt'.weights = m /\ opt'.risk = result.risk /\ opt'.cvar = result.cvar
        /\ opt'.relaxed = result.relaxed /\ opt'.dusted = result.dusted /\ opt'.path = route.path
    BY <2>2
  <2>7. result.cvar \in Nat /\ result.cvar <= CvarLimit
    BY <2>4 DEF FitsLimits
  <2> HIDE DEF route, U, before, scalars, prev
  <2>8. /\ IsBook(m, U)
        /\ 100 * Total(m) <= Whole * Lever
        /\ MaxPositionWeight >= CrisisWeight /\ ~result.relaxed /\ ~result.dusted =>
              \A s \in U : 100 * m[s] <= MaxPositionWeight * Lever
        /\ DOMAIN sizes = {} => TailWithin(m, result.risk, Limit + Cardinality(Symbols))
        /\ result.risk.hedge \notin U => TailWithin(m, result.risk, Limit)
    BY <1>3, <1>5, <2>3, <2>4, <2>5, MultipliedFits
  <2> HIDE DEF m
  <2>9. DOMAIN m = U
    BY <2>8 DEF IsBook
  <2>10. OptFits'
    <3>1. opt'.path = "baseline" => ~market'.defensive /\ TailWithin(opt'.weights, opt'.risk, Limit' + Cardinality(Symbols))
      BY <1>1, <1>3, <1>5, <2>6, <2>8
    <3>2. opt'.risk.hedge \notin DOMAIN opt'.weights => TailWithin(opt'.weights, opt'.risk, Limit')
      BY <1>5, <2>6, <2>8, <2>9
    <3>3. MaxPositionWeight >= CrisisWeight /\ ~opt'.relaxed /\ ~opt'.dusted =>
             \A s \in DOMAIN opt'.weights : 100 * opt'.weights[s] <= MaxPositionWeight * Lever
      BY <2>6, <2>8, <2>9
    <3> QED BY <1>3, <2>4, <2>6, <2>7, <2>8, <2>9, <3>1, <3>2, <3>3 DEF OptFits
  <2> QED BY <1>2, <2>10
<1> QED BY <1>6, <1>7

\* The drawdown scale brings the book down, whatever the drawdown (_drawdown_scale).
LEMMA DrawdownScales ==
    ASSUME NEW level
    PROVE  DrawdownScale(level) \in 0 .. 100
  BY DEF DrawdownScale

\* STEP 10 as a step of the cycle: what it approves, it found within the hard limits.
LEMMA GateFits ==
    ASSUME PretradeRiskGate
    PROVE  TargetFits'
<1>1. PICK dd \in Drawdowns, ctx \in KillContexts :
        \E verdict \in {Gate(KillReasons(ctx, mode) # {}, dd, OverLimit(opt)), GateError} :
          /\ gate' = [approved |-> Approved(verdict), hardStop |-> verdict.hardStop,
                      breach |-> OverLimit(opt)]
          /\ target' = IF verdict.approved
                       THEN Times(opt.weights, DrawdownScale(DrawdownLevel(dd)), 100)
                       ELSE NoBook
  BY DEF PretradeRiskGate
<1>2. PICK verdict \in {Gate(KillReasons(ctx, mode) # {}, dd, OverLimit(opt)), GateError} :
          /\ gate' = [approved |-> Approved(verdict), hardStop |-> verdict.hardStop,
                      breach |-> OverLimit(opt)]
          /\ target' = IF verdict.approved
                       THEN Times(opt.weights, DrawdownScale(DrawdownLevel(dd)), 100)
                       ELSE NoBook
  BY <1>1
<1>3. opt' = opt /\ OverLimit(opt') = OverLimit(opt)
  BY DEF PretradeRiskGate
<1>4. gate'.approved = Approved(verdict) /\ gate'.breach = OverLimit(opt)
  BY <1>2
<1>5. Approved(verdict) => verdict.approved
  BY DEF Approved
<1>6. verdict.approved => ~OverLimit(opt)
  <2>1. CASE verdict = Gate(KillReasons(ctx, mode) # {}, dd, OverLimit(opt))
    BY <2>1 DEF Gate
  <2>2. CASE verdict = GateError
    BY <2>2 DEF GateError
  <2> QED BY <2>1, <2>2
<1>7. CASE verdict.approved
  <2>1. target' = Times(opt'.weights, DrawdownScale(DrawdownLevel(dd)), 100)
    BY <1>2, <1>3, <1>7
  <2>2. \E d \in 0 .. 100 : target' = Times(opt'.weights, d, 100)
    BY <2>1, DrawdownScales
  <2> QED BY <1>3, <1>4, <1>5, <1>6, <2>2 DEF TargetFits
<1>8. CASE ~verdict.approved
  <2>1. target' = NoBook /\ ~gate'.approved
    BY <1>2, <1>4, <1>5, <1>8
  <2> QED BY <1>3, <1>4, <2>1 DEF TargetFits
<1> QED BY <1>7, <1>8

\* The target is a book of the symbols, no larger than STEP 9's.
LEMMA TargetIsBook ==
    ASSUME OptFits, TargetFits
    PROVE  /\ DOMAIN target \subseteq Symbols /\ IsBook(target, DOMAIN target)
           /\ gate.approved => 100 * Total(target) <= 100 * Total(opt.weights)
<1>1. CASE target = NoBook /\ ~gate.approved
  BY <1>1 DEF IsBook, NoBook
<1>2. CASE \E d \in 0 .. 100 : target = Times(opt.weights, d, 100)
  <2>1. PICK d \in 0 .. 100 : target = Times(opt.weights, d, 100)
    BY <1>2
  <2> DEFINE U == DOMAIN opt.weights
             w == opt.weights
  <2>2. U \subseteq Symbols /\ IsBook(w, U) /\ IsFiniteSet(U)
    BY CycleAssumption, FS_Subset DEF OptFits
  <2>3. IsBook(target, U) /\ \A s \in U : target[s] <= w[s]
    <3>1. IsBook(Times(w, d, 100), U)
      BY <2>2, TimesOfBook
    <3>2. \A s \in U : Times(w, d, 100)[s] <= w[s]
      BY <2>2, TimesShrinks
    <3> QED BY <2>1, <3>1, <3>2
  <2>4. Total(target) <= Total(w) /\ Total(target) \in Nat /\ Total(w) \in Nat
    BY <2>2, <2>3, TotalOfBook, TotalCompares
  <2>5. DOMAIN target = U
    BY <2>3 DEF IsBook
  <2> HIDE DEF U, w
  <2>6. 100 * Total(target) <= 100 * Total(w)
    BY <2>4
  <2> QED BY <2>2, <2>3, <2>5, <2>6 DEF w
<1> QED BY <1>1, <1>2 DEF TargetFits
-----------------------------------------------------------------------------
(***************************************************************************)
(* STEP 12's fills are parts of what is ordered, which is part of what is  *)
(* missing of the target.                                                  *)
(***************************************************************************)

\* A fill of part of a purchase costs no less than nothing and no more than the purchase
\* with its slippage (_achieved_weights).
LEMMA BoughtWithin ==
    ASSUME NEW D \in Nat, NEW f \in 0 .. D, NEW slip \in 0 .. Slippage
    PROVE  /\ (f * (Whole + slip)) \div Whole \in Nat
           /\ (f * (Whole + slip)) \div Whole <= D + (D * Slippage) \div Whole
           /\ (D * Slippage) \div Whole \in Nat
<1> DEFINE p == f * (Whole + slip)
           q == D * Slippage
<1>1. Slippage \in Nat
  BY CycleAssumption, WholeIsNatural
<1>2. slip \in Nat /\ slip <= Slippage /\ f \in Nat /\ f <= D
  BY <1>1
<1>3. f * slip <= D * Slippage
  <2>1. f * slip <= D * slip
    BY <1>2, ScaledOrder
  <2>2. D * slip <= D * Slippage
    BY <1>1, <1>2, ScaledOrder
  <2>3. f * slip \in Int /\ D * slip \in Int /\ D * Slippage \in Int
    BY <1>1, <1>2
  <2> QED BY <2>1, <2>2, <2>3
<1>4. p = 10000 * f + f * slip
  BY <1>2 DEF Whole
<1>5. f * slip \in Nat /\ q \in Nat
  BY <1>1, <1>2
<1> DEFINE r == f * slip
<1> HIDE DEF p, q, r
<1>6. r \in Nat /\ r <= q /\ p = 10000 * f + r /\ q \in Nat
  BY <1>3, <1>4, <1>5 DEF r, q
<1>7. p \div 10000 \in Nat /\ p \div 10000 <= D + q \div 10000 /\ q \div 10000 \in Nat
  BY <1>2, <1>6
<1> QED BY <1>7 DEF p, q, Whole

\* A fill of part of a sale brings in no more than the sale.
LEMMA SoldWithin ==
    ASSUME NEW D \in Nat, NEW f \in 0 .. D, NEW slip \in 0 .. Slippage
    PROVE  (f * (Whole - slip)) \div Whole \in 0 .. D
<1> DEFINE p == f * (Whole - slip)
           r == f * slip
<1>1. slip \in Nat /\ slip <= 10000 /\ f \in Nat /\ f <= D
  BY CycleAssumption DEF Whole
<1>2. f * slip <= f * 10000 /\ f * slip \in Nat
  BY <1>1, ScaledOrder
<1>3. p = 10000 * f - r
  BY <1>1 DEF Whole
<1> HIDE DEF p, r
<1>4. r \in Nat /\ r <= 10000 * f
  BY <1>1, <1>2 DEF r
<1>5. p \div 10000 \in 0 .. D
  BY <1>1, <1>3, <1>4
<1> QED BY <1>5 DEF p, Whole

\* What is missing of a target, and what is ordered of it (schedule_order).
LEMMA DeltaIsSigned ==
    ASSUME NEW s, Weight(target, s) \in Int, Weight(held, s) \in Nat
    PROVE  /\ Delta(s) \in Int /\ Abs(Delta(s)) \in Nat
           /\ OrderSize(s) \in 0 .. Abs(Delta(s))
<1>1. Clip(Weight(target, s), -Whole, Whole) \in Int
  BY Clipped, WholeIsNatural
<1> DEFINE x == Delta(s)
<1>2. x \in Int
  BY <1>1 DEF Delta
<1> HIDE DEF x
<1>3. Abs(x) \in Nat
  BY <1>2 DEF Abs
<1> DEFINE y == Abs(x)
<1> HIDE DEF y
<1>4. OrderSize(s) = IF market.execution = "stressed_exec" THEN y \div 2 ELSE y
  BY DEF OrderSize, x, y
<1>5. y \in Nat
  BY <1>3 DEF y
<1>6. OrderSize(s) \in 0 .. y
  BY <1>4, <1>5
<1> QED BY <1>2, <1>5, <1>6 DEF x, y

\* PAPER fills no more of an order than was ordered, and LIVE all of it or half.
LEMMA FilledInPart ==
    ASSUME NEW s, OrderSize(s) \in Nat
    PROVE  /\ \A take \in PaperTakes : PaperFill(s, take) \in 0 .. OrderSize(s)
           /\ \A part \in {1, 2} : (OrderSize(s) * part) \div 2 \in 0 .. OrderSize(s)
<1> DEFINE o == OrderSize(s)
<1> HIDE DEF o
<1>0. o \in Nat
  BY DEF o
<1>1. Slices \in Nat
  <2> DEFINE m == (Min({Max({390, 1}), 2 * Max({60, 1})}) + 7) \div 15
  <2>1. Max({390, 1}) \in Int /\ Max({60, 1}) \in Int
    BY Largest
  <2>2. Min({Max({390, 1}), 2 * Max({60, 1})}) \in Int
    BY <2>1, Smallest
  <2>3. m \in Int
    BY <2>2
  <2>4. Slices = Clip(m, 1, 12)
    BY DEF Slices, NSlices
  <2>5. 1 \in Int /\ 12 \in Int /\ 1 <= 12
    OBVIOUS
  <2> HIDE DEF m
  <2>6. Slices \in 1 .. 12
    BY <2>3, <2>4, <2>5, Clipped, Zenon
  <2> QED BY <2>6
<1>2. ASSUME NEW take \in PaperTakes
      PROVE  PaperFill(s, take) \in 0 .. o
  <2>1. take \in Nat /\ Slices * take \in Nat
    BY <1>1, CycleAssumption
  <2>2. PaperFill(s, take) = Min({o, Slices * take})
    BY DEF PaperFill, o
  <2> DEFINE z == Slices * take
  <2> HIDE DEF z
  <2>3. z \in Nat /\ PaperFill(s, take) = IF o <= z THEN o ELSE z
    BY <1>0, <2>1, <2>2, Smallest DEF z
  <2> QED BY <1>0, <2>3
<1>3. \A part \in {1, 2} : (o * part) \div 2 \in 0 .. o
  BY <1>0
<1> QED BY <1>2, <1>3 DEF o

\* The range NeverTradesThrough allows a name.
Reach(s) ==
    LET from == Weight(held, s)
        to   == from + Delta(s)
        slip == (Abs(to - from) * Slippage) \div Whole + 1
    IN  Min({from, to}) - 1 .. Max({from, to}) + slip

LEMMA ReachIs ==
    ASSUME NEW s, Weight(held, s) \in Nat, Delta(s) \in Int
    PROVE  \A n \in Int : n \in Reach(s) <=>
              /\ (IF Delta(s) >= 0 THEN Weight(held, s) ELSE Weight(held, s) + Delta(s)) - 1 <= n
              /\ n <= (IF Delta(s) >= 0 THEN Weight(held, s) + Delta(s) ELSE Weight(held, s))
                        + ((Abs(Delta(s)) * Slippage) \div Whole + 1)
<1> DEFINE from == Weight(held, s)
           D    == Delta(s)
<1>1. from \in Int /\ D \in Int
  OBVIOUS
<1> HIDE DEF from, D
<1>2. (from + D) - from = D /\ from + D \in Int
  BY <1>1
<1>3. /\ Min({from, from + D}) = IF from <= from + D THEN from ELSE from + D
      /\ Max({from, from + D}) = IF from >= from + D THEN from ELSE from + D
  BY <1>1, <1>2, Smallest, Largest
<1>4. /\ Min({from, from + D}) = IF D >= 0 THEN from ELSE from + D
      /\ Max({from, from + D}) = IF D >= 0 THEN from + D ELSE from
  BY <1>1, <1>3
<1> DEFINE slip == (Abs(D) * Slippage) \div Whole + 1
<1>5. slip \in Int
  <2>1. Abs(D) \in Nat /\ Slippage \in Nat
    BY <1>1, CycleAssumption, WholeIsNatural DEF Abs
  <2>2. Abs(D) * Slippage \in Int
    BY <2>1
  <2> QED BY <2>2, WholeIsNatural
<1>6. Reach(s) = (Min({from, from + D}) - 1) .. (Max({from, from + D}) + slip)
  BY <1>2 DEF Reach, from, D
<1> HIDE DEF slip
<1>7. ASSUME NEW n \in Int
      PROVE  n \in Reach(s) <=> /\ (IF D >= 0 THEN from ELSE from + D) - 1 <= n
                                /\ n <= (IF D >= 0 THEN from + D ELSE from) + slip
  BY <1>1, <1>4, <1>5, <1>6
<1> QED BY <1>7 DEF from, D, slip

\* A book whose fills are parts of its orders is within reach of every name.
LEMMA AchievedWithin ==
    ASSUME NEW s, Weight(target, s) \in Int, Weight(held, s) \in Nat,
           NEW filled, s \in Universe => filled[s] \in 0 .. Abs(Delta(s)),
           NEW slip \in 0 .. Slippage
    PROVE  Weight(AchievedFrom(filled, slip), s) \in Reach(s)
<1> DEFINE from == Weight(held, s)
           D    == Delta(s)
           a    == Weight(AchievedFrom(filled, slip), s)
           N    == Notional(s, filled[s], slip)
           bound == (Abs(D) * Slippage) \div Whole
<1>1. D \in Int /\ Abs(D) \in Nat /\ from \in Nat
  BY DeltaIsSigned
<1>2. bound \in Nat
  <2>1. 0 \in 0 .. Abs(D) /\ 0 \in 0 .. Slippage
    BY <1>1, CycleAssumption
  <2> QED BY <1>1, <2>1, BoughtWithin
<1>3. CASE s \notin Universe
  <2>1. a = 0 /\ from = 0 /\ D = 0
    <3>1. a = 0
      BY <1>3 DEF AchievedFrom, Restrict, Weight
    <3>2. s \notin DOMAIN target /\ s \notin DOMAIN held
      BY <1>3 DEF Universe
    <3> QED BY <3>1, <3>2, ClipOfNothing DEF Delta, Weight
  <2> HIDE DEF a, D, from, bound
  <2> QED BY <1>1, <1>2, <2>1, ReachIs DEF a, D, from, bound
<1>4. CASE s \in Universe
  <2>1. N \in Int /\ (IF D >= 0 THEN 0 <= N /\ N <= D + bound ELSE D <= N /\ N <= 0)
    <3>1. CASE D > 0
      <4>1. Abs(D) = D
        BY <1>1, <3>1 DEF Abs
      <4>2. N = (filled[s] * (Whole + slip)) \div Whole
        BY <3>1 DEF Notional
      <4>3. D \in Nat /\ filled[s] \in 0 .. D
        BY <1>1, <1>4, <3>1, <4>1
      <4> HIDE DEF D, N
      <4>4. N \in Nat /\ N <= D + bound
        BY <4>1, <4>2, <4>3, BoughtWithin
      <4> QED BY <1>1, <1>2, <3>1, <4>4
    <3>2. CASE ~(D > 0)
      <4> DEFINE m == (filled[s] * (Whole - slip)) \div Whole
      <4>1. Abs(D) = 0 - D
        BY <1>1, <3>2 DEF Abs
      <4>2. N = -m
        BY <3>2 DEF Notional
      <4>3. 0 - D \in Nat /\ filled[s] \in 0 .. (0 - D)
        BY <1>1, <1>4, <3>2, <4>1
      <4> HIDE DEF D, N
      <4>4. m \in 0 .. (0 - D)
        BY <4>3, SoldWithin
      <4> HIDE DEF m, bound
      <4> QED BY <1>1, <1>2, <3>2, <4>2, <4>4
    <3> QED BY <3>1, <3>2
  <2>2. a = from + N
    <3> DEFINE book == [x \in Universe |-> Weight(held, x) + Notional(x, filled[x], slip)]
    <3>1. AchievedFrom(filled, slip) = [x \in {y \in Universe : Abs(book[y]) >= 1} |-> book[x]]
      BY DEF AchievedFrom, Restrict
    <3>2. book[s] = from + N
      BY <1>4
    <3> HIDE DEF N, from, book
    <3>3. from + N \in Int
      BY <1>1, <2>1
    <3>4. CASE Abs(book[s]) >= 1
      <4>1. s \in DOMAIN AchievedFrom(filled, slip) /\ AchievedFrom(filled, slip)[s] = book[s]
        BY <1>4, <3>1, <3>4
      <4> QED BY <3>2, <4>1 DEF Weight
    <3>5. CASE ~(Abs(book[s]) >= 1)
      <4>1. s \notin DOMAIN AchievedFrom(filled, slip)
        BY <3>1, <3>5
      <4>2. from + N = 0
        BY <3>2, <3>3, <3>5 DEF Abs
      <4> QED BY <4>1, <4>2 DEF Weight
    <3> QED BY <3>4, <3>5
  <2> HIDE DEF a, D, from, N, bound
  <2>3. a \in Int
    BY <1>1, <2>1, <2>2
  <2>4. /\ (IF D >= 0 THEN from ELSE from + D) - 1 <= a
        /\ a <= (IF D >= 0 THEN from + D ELSE from) + (bound + 1)
    BY <1>1, <1>2, <2>1, <2>2
  <2> QED BY <1>1, <2>3, <2>4, ReachIs DEF a, D, from, bound
<1> QED BY <1>3, <1>4
\* STEP 12 as a step of the cycle.
LEMMA ExecuteReaches ==
    ASSUME Execute, OptFits, TargetFits, \A s \in DOMAIN held : held[s] \in Nat
    PROVE  NeverTradesThrough'
<1>1. UNCHANGED <<held, gate, target>>
  BY DEF Execute
<1>2. ASSUME NEW s
      PROVE  Weight(held, s) \in Nat /\ Weight(target, s) \in Int
  <2>1. IsBook(target, DOMAIN target)
    BY TargetIsBook
  <2> QED BY <2>1 DEF IsBook, Weight
<1>3. ASSUME NEW s
      PROVE  /\ Delta(s) \in Int /\ Abs(Delta(s)) \in Nat
             /\ OrderSize(s) \in 0 .. Abs(Delta(s))
  BY <1>2, DeltaIsSigned
<1>4. ASSUME NEW s
      PROVE  Weight(held, s) \in Reach(s)
  <2> DEFINE from == Weight(held, s)
             D    == Delta(s)
             bound == (Abs(D) * Slippage) \div Whole
  <2>1. bound \in Nat
    <3>1. 0 \in 0 .. Abs(D) /\ 0 \in 0 .. Slippage /\ Abs(D) \in Nat
      BY <1>3, CycleAssumption
    <3> QED BY <3>1, BoughtWithin
  <2>2. from \in Nat /\ D \in Int
    BY <1>2, <1>3
  <2> HIDE DEF from, D, bound
  <2>3. /\ (IF D >= 0 THEN from ELSE from + D) - 1 <= from
        /\ from <= (IF D >= 0 THEN from + D ELSE from) + (bound + 1)
    BY <2>1, <2>2
  <2> QED BY <2>2, <2>3, ReachIs DEF from, D, bound
<1>5. ASSUME NEW s
      PROVE  gate.approved => Weight(achieved', s) \in Reach(s)
  <2>1. CASE ExecuteNothing
    BY <1>4, <2>1 DEF ExecuteNothing
  <2>2. CASE ExecutePaper
    <3>1. PICK take \in [Planned -> PaperTakes] :
            achieved' = AchievedFrom([x \in Universe |->
                IF x \in Planned THEN PaperFill(x, take[x]) ELSE 0], Slippage)
      BY <2>2 DEF ExecutePaper
    <3> DEFINE filled == [x \in Universe |-> IF x \in Planned THEN PaperFill(x, take[x]) ELSE 0]
    <3>2. s \in Universe => filled[s] \in 0 .. Abs(Delta(s))
      <4>1. CASE s \in Planned
        <5>1. take[s] \in PaperTakes /\ OrderSize(s) \in Nat
          BY <1>3, <4>1
        <5>2. PaperFill(s, take[s]) \in 0 .. OrderSize(s)
          BY <5>1, FilledInPart
        <5>3. PaperFill(s, take[s]) \in 0 .. Abs(Delta(s))
          BY <1>3, <5>2
        <5>4. s \in Universe => filled[s] = PaperFill(s, take[s])
          BY <4>1
        <5> QED BY <5>3, <5>4
      <4>2. CASE s \notin Planned
        <5>1. s \in Universe => filled[s] = 0
          BY <4>2
        <5> QED BY <1>3, <5>1
      <4> QED BY <4>1, <4>2
    <3>3. achieved' = AchievedFrom(filled, Slippage) /\ Slippage \in 0 .. Slippage
      BY <3>1, CycleAssumption
    <3> HIDE DEF filled
    <3>4. Weight(AchievedFrom(filled, Slippage), s) \in Reach(s)
      BY <1>2, <3>2, <3>3, AchievedWithin
    <3> QED BY <3>3, <3>4
  <2>3. CASE ExecuteLive
    <3>1. PICK part \in [Planned -> {1, 2}] :
            achieved' = AchievedFrom([x \in Universe |->
                IF x \in Planned THEN (OrderSize(x) * part[x]) \div 2 ELSE 0], 0)
      BY <2>3 DEF ExecuteLive
    <3> DEFINE filled == [x \in Universe |->
                IF x \in Planned THEN (OrderSize(x) * part[x]) \div 2 ELSE 0]
    <3>2. s \in Universe => filled[s] \in 0 .. Abs(Delta(s))
      <4>1. CASE s \in Planned
        <5>1. part[s] \in {1, 2} /\ OrderSize(s) \in Nat
          BY <1>3, <4>1
        <5>2. (OrderSize(s) * part[s]) \div 2 \in 0 .. OrderSize(s)
          BY <5>1, FilledInPart
        <5>3. (OrderSize(s) * part[s]) \div 2 \in 0 .. Abs(Delta(s))
          BY <1>3, <5>2
        <5>4. s \in Universe => filled[s] = (OrderSize(s) * part[s]) \div 2
          BY <4>1
        <5> QED BY <5>3, <5>4
      <4>2. CASE s \notin Planned
        <5>1. s \in Universe => filled[s] = 0
          BY <4>2
        <5> QED BY <1>3, <5>1
      <4> QED BY <4>1, <4>2
    <3>3. achieved' = AchievedFrom(filled, 0) /\ 0 \in 0 .. Slippage
      BY <3>1, CycleAssumption
    <3> HIDE DEF filled
    <3>4. Weight(AchievedFrom(filled, 0), s) \in Reach(s)
      BY <1>2, <3>2, <3>3, AchievedWithin
    <3> QED BY <3>3, <3>4
  <2> QED BY <2>1, <2>2, <2>3 DEF Execute
<1>6. ASSUME NEW s, ~gate.approved
      PROVE  LET from == Weight(held, s)
                 to   == from + 0
                 slip == (Abs(to - from) * Slippage) \div Whole + 1
             IN  Weight(achieved', s) \in Min({from, to}) - 1 .. Max({from, to}) + slip
  <2>1. achieved' = held
    BY <1>6 DEF Execute, ExecuteNothing, ExecutePaper, ExecuteLive
  <2> DEFINE from == Weight(held, s)
  <2>2. from \in Nat /\ Weight(achieved', s) = from
    BY <1>2, <2>1
  <2> HIDE DEF from
  <2>3. from + 0 = from /\ from - from = 0
    BY <2>2
  <2>4. Min({from, from}) = from /\ Max({from, from}) = from
    BY <2>2, Smallest, Largest
  <2>5. (Abs(0) * Slippage) \div Whole = 0
    BY CycleAssumption DEF Abs, Whole
  <2>6. from \in from - 1 .. from + (0 + 1)
    BY <2>2
  <2> QED BY <2>2, <2>3, <2>4, <2>5, <2>6 DEF from
<1>7. CASE gate.approved
  <2>1. \A s : Weight(achieved', s) \in Reach(s)
    BY <1>5, <1>7
  <2> QED BY <1>1, <1>7, <2>1 DEF NeverTradesThrough, Reach, Delta, Weight
<1>8. CASE ~gate.approved
  BY <1>1, <1>6, <1>8 DEF NeverTradesThrough, Weight
<1> QED BY <1>7, <1>8

\* STEP 2 leaves a market that is safe to size by: an assessment that raised is the worst.
LEMMA MarketBecomesSafe ==
    ASSUME BuildMarketState
    PROVE  MarketIsSafe'
<1>1. PICK r \in Readings, measurable \in BOOLEAN, stressed \in {40, 66}, trending \in BOOLEAN :
        \E regime \in {DetectRegime(measurable, stressed, trending), "mean_reverting"} :
          \E assessed \in BOOLEAN :
            LET crisis == IF assessed THEN Assess(r, regime) ELSE AssessmentFailed
            IN  market'.severity = crisis.severity /\ market'.defensive = crisis.defensive
                /\ market'.assessed = assessed
  BY DEF BuildMarketState
<1>2. PICK regime \in {DetectRegime(measurable, stressed, trending), "mean_reverting"} :
        \E assessed \in BOOLEAN :
          LET crisis == IF assessed THEN Assess(r, regime) ELSE AssessmentFailed
          IN  market'.severity = crisis.severity /\ market'.defensive = crisis.defensive
              /\ market'.assessed = assessed
  BY <1>1
<1>3. PICK assessed \in BOOLEAN :
        LET crisis == IF assessed THEN Assess(r, regime) ELSE AssessmentFailed
        IN  market'.severity = crisis.severity /\ market'.defensive = crisis.defensive
            /\ market'.assessed = assessed
  BY <1>2
<1>4. CASE assessed
  <2>1. market'.assessed /\ market'.defensive = Assess(r, regime).defensive
    BY <1>3, <1>4
  <2>2. Assess(r, regime).defensive \in BOOLEAN
    BY DEF Assess
  <2> QED BY <2>1, <2>2 DEF MarketIsSafe
<1>5. CASE ~assessed
  BY <1>3, <1>5 DEF MarketIsSafe, AssessmentFailed
<1> QED BY <1>4, <1>5

\* STEP 8 sizes the symbols, each by a share.
LEMMA AdmitSizes ==
    ASSUME Admit
    PROVE  SizesAreShares'
<1>1. PICK fitted \in BOOLEAN, cost \in Costs \cup {10} :
        \E predicted \in [Symbols -> IF fitted THEN Predictions ELSE {SafeFallback}] :
        sizes' = [s \in Admitted(predicted, cost, market.execution)
                    |-> SizeMultiplier(predicted[s], 100, 0)]
  BY DEF Admit
<1>2. PICK predicted \in [Symbols -> IF fitted THEN Predictions ELSE {SafeFallback}] :
        sizes' = [s \in Admitted(predicted, cost, market.execution)
                    |-> SizeMultiplier(predicted[s], 100, 0)]
  BY <1>1
<1>3. \A s \in Symbols : predicted[s] \in [mu : Int, up : Int, tail : Int, confidence : Int]
  BY CycleAssumption DEF SafeFallback
<1>4. Admitted(predicted, cost, market.execution) \subseteq Symbols
  BY DEF Admitted
<1>5. \A s \in DOMAIN sizes' : sizes'[s] \in 0 .. 100
  BY <1>2, <1>3, <1>4, SizeIsShare
<1> QED BY <1>2, <1>4, <1>5 DEF SizesAreShares

\* The budget invariant holds at the start of a cycle and is kept by each of its steps.
LEMMA BudgetStarts == CycleInit => BudgetInv
<1> SUFFICES ASSUME CycleInit PROVE BudgetInv
  OBVIOUS
<1>1. /\ pc = "ingest" /\ market = Calm /\ signals = NoSignals /\ sizes = NoBook
      /\ held = NoBook /\ gate = NoGate
  BY DEF CycleInit
<1>2. MarketIsSafe
  BY <1>1 DEF MarketIsSafe, Calm
<1>3. SizesAreShares /\ signals.scored \subseteq Symbols
  BY <1>1 DEF SizesAreShares, NoBook, NoSignals
<1>4. \A s \in DOMAIN held : held[s] \in Nat
  BY <1>1 DEF NoBook
<1> QED BY <1>1, <1>2, <1>3, <1>4 DEF BudgetInv, Undecided, NeverTradesThrough, Done

LEMMA BudgetInductive == CycleSpec => []BudgetInv
<1>1. ASSUME BudgetInv, [CycleNext]_cycleVars  PROVE BudgetInv'
  <2> USE <1>1
  <2>1. CASE IngestAndValidate
    <3>1. pc' = "market" /\ pc = "ingest" /\ UNCHANGED <<market, signals, sizes, held, gate>>
      BY <2>1 DEF IngestAndValidate
    <3> QED BY <3>1 DEF BudgetInv, Undecided, MarketIsSafe, SizesAreShares, NeverTradesThrough, Done
  <2>2. CASE BuildMarketState
    <3>1. pc' = "signals" /\ pc = "market" /\ UNCHANGED <<signals, sizes, held, gate>>
      BY <2>2 DEF BuildMarketState
    <3>2. MarketIsSafe'
      BY <2>2, MarketBecomesSafe
    <3> QED BY <3>1, <3>2 DEF BudgetInv, Undecided, SizesAreShares, NeverTradesThrough, Done
  <2>3. CASE ScoreSignals
    <3>1. pc' = "admit" /\ pc = "signals" /\ UNCHANGED <<market, sizes, held, gate>>
      BY <2>3 DEF ScoreSignals
    <3>2. signals'.scored \subseteq Symbols
      <4>1. PICK said \in [Sleeves -> Signals], validation \in [Sleeves -> Validations], ofi \in Flows :
              signals'.scored = Scored(said, validation, ofi, mode)
        BY <2>3 DEF ScoreSignals
      <4> QED BY <4>1, FlowsAssumption DEF Scored
    <3> QED BY <3>1, <3>2 DEF BudgetInv, Undecided, MarketIsSafe, SizesAreShares, NeverTradesThrough, Done
  <2>4. CASE Admit
    <3>1. pc' = "optimise" /\ pc = "admit" /\ UNCHANGED <<market, held, gate>>
      BY <2>4 DEF Admit
    <3>2. SizesAreShares'
      BY <2>4, AdmitSizes
    <3>3. signals'.scored \subseteq Symbols
      BY <2>4 DEF Admit, BudgetInv, NoSignals
    <3> QED BY <3>1, <3>2, <3>3 DEF BudgetInv, Undecided, MarketIsSafe, NeverTradesThrough, Done
  <2>5. CASE Optimise
    <3>1. pc' = "gate" /\ pc = "optimise" /\ UNCHANGED <<market, signals, sizes, gate>>
      BY <2>5 DEF Optimise
    <3>2. OptFits' /\ \A s \in DOMAIN held' : held'[s] \in Nat
      BY <2>5, OptimiseFits DEF BudgetInv
    <3> QED BY <3>1, <3>2 DEF BudgetInv, Undecided, MarketIsSafe, SizesAreShares, NeverTradesThrough, Done
  <2>6. CASE PretradeRiskGate
    <3>1. pc' = "execute" /\ pc = "gate" /\ UNCHANGED <<market, signals, sizes, held, opt>>
      BY <2>6 DEF PretradeRiskGate
    <3>2. TargetFits'
      BY <2>6, GateFits
    <3>3. OptFits'
      BY <3>1 DEF BudgetInv, OptFits, Limit
    <3> QED BY <3>1, <3>2, <3>3 DEF BudgetInv, Undecided, MarketIsSafe, SizesAreShares, NeverTradesThrough, Done
  <2>7. CASE Execute
    <3>1. pc' = "done" /\ pc = "execute" /\ UNCHANGED <<market, signals, sizes, held, opt, gate, target>>
      BY <2>7 DEF Execute, ExecuteNothing, ExecutePaper, ExecuteLive
    <3>2. OptFits /\ TargetFits /\ \A s \in DOMAIN held : held[s] \in Nat
      BY <3>1 DEF BudgetInv
    <3>3. NeverTradesThrough'
      BY <2>7, <3>2, ExecuteReaches
    <3>4. OptFits' /\ TargetFits'
      BY <3>1, <3>2 DEF OptFits, TargetFits, Limit, OverLimit
    <3>5. MarketIsSafe' /\ SizesAreShares' /\ signals'.scored \subseteq Symbols
      BY <3>1 DEF BudgetInv, MarketIsSafe, SizesAreShares
    <3> QED BY <3>1, <3>2, <3>3, <3>4, <3>5 DEF BudgetInv, Undecided
  <2>8. CASE UNCHANGED cycleVars
    <3>1. UNCHANGED <<pc, market, signals, sizes, held, opt, gate, target, achieved>>
      BY <2>8 DEF cycleVars
    <3>2. (OptFits => OptFits') /\ (TargetFits => TargetFits')
      BY <3>1 DEF OptFits, TargetFits, Limit, OverLimit
    <3>3. NeverTradesThrough => NeverTradesThrough'
      <4>1. \A s : /\ Delta(s)' = Delta(s) /\ Weight(held, s)' = Weight(held, s)
                   /\ Weight(achieved, s)' = Weight(achieved, s)
        BY <3>1 DEF Delta, Weight
      <4> QED BY <3>1, <4>1 DEF NeverTradesThrough, Done
    <3>4. (MarketIsSafe => MarketIsSafe') /\ (SizesAreShares => SizesAreShares')
      BY <3>1 DEF MarketIsSafe, SizesAreShares
    <3> QED BY <3>1, <3>2, <3>3, <3>4 DEF BudgetInv
  <2> QED BY <2>1, <2>2, <2>3, <2>4, <2>5, <2>6, <2>7, <2>8 DEF CycleNext
<1> QED BY <1>1, BudgetStarts, PTL DEF CycleSpec

\* A cycle never trades a name beyond its target, slippage apart (_run_cycle STEPs 11 and 12,
\* _simulate_fills, _achieved_weights).
THEOREM TargetsAreNeverPassed == CycleSpec => []NeverTradesThrough
<1>1. BudgetInv => NeverTradesThrough
  BY DEF BudgetInv
<1> QED BY <1>1, BudgetInductive, PTL

\* What the gate approves is within the budget of the market the cycle saw (_run_cycle
\* STEPs 2, 9 and 10).
LEMMA EnvelopeIsLimit ==
    ASSUME MarketIsSafe
    PROVE  Envelope = Limit
<1>1. CASE market.assessed
  BY <1>1 DEF Envelope, Limit
<1>2. CASE ~market.assessed
  <2> DEFINE scalars == CrisisScalars(market.severity)
  <2>1. scalars.cvar = 50
    BY <1>2 DEF MarketIsSafe, CrisisScalars
  <2>2. Min({50, 50}) = 50
    BY Smallest
  <2> HIDE DEF scalars
  <2>3. CvarBound(scalars, TRUE) = (CvarLimit * 50) \div 100
    BY <2>1, <2>2 DEF CvarBound
  <2>4. market.defensive = TRUE
    BY <1>2 DEF MarketIsSafe
  <2>5. Limit = CvarBound(scalars, TRUE)
    BY <2>4, Zenon DEF Limit, scalars
  <2>6. Envelope = (CvarLimit * 50) \div 100
    BY <1>2, Zenon DEF Envelope
  <2> QED BY <2>3, <2>5, <2>6, Zenon
<1> QED BY <1>1, <1>2

THEOREM TargetsKeepTheEnvelope == CycleSpec => []WithinEnvelope
<1>1. ASSUME BudgetInv, Done, gate.approved
      PROVE  /\ \A s \in DOMAIN target : target[s] >= 0
             /\ 100 * Total(target) <= Whole * MaxLeverage
             /\ opt.path = "baseline" => market.assessed /\ ~market.defensive
             /\ opt.risk.hedge = Unhedged \/ opt.path = "baseline" =>
                   Cvar(target, opt.risk) <= Envelope + 2 * Cardinality(Symbols)
  <2> DEFINE U == DOMAIN opt.weights
             k == Cardinality(Symbols)
  <2>1. MarketIsSafe /\ OptFits /\ TargetFits
    BY <1>1 DEF BudgetInv, Done
  <2>2. /\ IsFiniteSet(U) /\ U \subseteq Symbols /\ IsBook(opt.weights, U) /\ IsRisk(opt.risk)
        /\ Cardinality(U) \in Nat /\ k \in Nat /\ Cardinality(U) <= k
    BY <2>1, CycleAssumption, FS_Subset, FS_CardinalityType DEF OptFits
  <2>3. \A s \in DOMAIN target : target[s] >= 0
    BY <2>1, TargetIsBook DEF IsBook
  <2>4. 100 * Total(target) <= Whole * MaxLeverage
    <3> DEFINE T == Total(opt.weights)
               V == Total(target)
    <3>1. ~(100 * T > Whole * MaxLeverage)
      BY <1>1, <2>1 DEF TargetFits, OverLimit
    <3>2. 100 * V <= 100 * T
      BY <1>1, <2>1, TargetIsBook
    <3>3. T \in Nat /\ V \in Nat
      <4>1. IsBook(target, DOMAIN target) /\ DOMAIN target \subseteq Symbols
        BY <2>1, TargetIsBook
      <4> QED BY <2>2, <4>1, CycleAssumption, FS_Subset, TotalOfBook
    <3>4. Whole * MaxLeverage \in Int
      BY LimitsAreNaturals, WholeIsNatural
    <3> HIDE DEF T, V
    <3>5. 100 * V <= Whole * MaxLeverage
      BY <3>1, <3>2, <3>3, <3>4
    <3> QED BY <3>5 DEF V
  <2>5. opt.path = "baseline" => market.assessed /\ ~market.defensive
    BY <2>1 DEF OptFits, MarketIsSafe
  <2>6. PICK d \in 0 .. 100 : target = Times(opt.weights, d, 100)
    BY <1>1, <2>1 DEF TargetFits
  <2>7. IsBook(target, U)
    BY <2>2, <2>6, TimesOfBook
  <2>8. Limit \in Nat /\ Envelope = Limit
    BY <2>1, LimitIsNatural, EnvelopeIsLimit
  <2>9. CASE opt.path = "baseline"
    <3>1. TailWithin(opt.weights, opt.risk, Limit + k) /\ Limit + k \in Nat
      BY <2>1, <2>2, <2>8, <2>9 DEF OptFits
    <3>2. TailWithin(target, opt.risk, (Limit + k) + Cardinality(U))
      BY <2>2, <2>6, <3>1, ScaledTail
    <3> HIDE DEF U, k
    <3>3. (Limit + k) + Cardinality(U) \in Int
      BY <2>2, <2>8
    <3>4. Cvar(target, opt.risk) \in Nat /\ Cvar(target, opt.risk) <= (Limit + k) + Cardinality(U)
      BY <2>2, <2>7, <3>2, <3>3, CvarOfBook
    <3>5. Cvar(target, opt.risk) <= Envelope + 2 * k
      BY <2>2, <2>8, <3>4
    <3> QED BY <2>3, <2>4, <2>5, <3>5 DEF k
  <2>10. CASE opt.risk.hedge = Unhedged
    <3>1. opt.risk.hedge \notin U
      BY <2>2, <2>10, CycleAssumption
    <3>2. TailWithin(opt.weights, opt.risk, Limit)
      BY <2>1, <3>1 DEF OptFits
    <3>3. TailWithin(target, opt.risk, Limit)
      BY <2>2, <2>6, <2>8, <3>1, <3>2, ScaledTail
    <3> HIDE DEF U, k
    <3>4. Cvar(target, opt.risk) \in Nat /\ Cvar(target, opt.risk) <= Limit
      BY <2>2, <2>7, <2>8, <3>3, CvarOfBook
    <3>5. Cvar(target, opt.risk) <= Envelope + 2 * k
      BY <2>2, <2>8, <3>4
    <3> QED BY <2>3, <2>4, <2>5, <3>5 DEF k
  <2>11. CASE ~(opt.risk.hedge = Unhedged \/ opt.path = "baseline")
    BY <2>3, <2>4, <2>5, <2>11
  <2> QED BY <2>9, <2>10, <2>11
<1>2. BudgetInv => WithinEnvelope
  BY <1>1 DEF WithinEnvelope
<1> QED BY <1>2, BudgetInductive, PTL

(***************************************************************************)
(* The gate reads the limits as they are configured, STEP 9 as it raises   *)
(* them: a leverage limit under one, or a crisis weight over the limit on  *)
(* positions (config validates neither), are two ways to a breach that     *)
(* nothing explains.                                                       *)
(***************************************************************************)
LimitsAgree == MaxLeverage >= 100 /\ MaxPositionWeight >= CrisisWeight

\* Under limits that agree the gate stops a book of STEP 9 only where STEP 9 exceeded its
\* own cap (check_pretrade's hard limits against optimise_portfolio's).
THEOREM BreachesAreExplained ==
    ASSUME LimitsAgree
    PROVE  CycleSpec => []BreachIsExplained
<1>1. ASSUME BudgetInv
      PROVE  BreachIsExplained
  <2> SUFFICES ASSUME gate.breach, ~opt.relaxed, ~opt.dusted
               PROVE  FALSE
    BY DEF BreachIsExplained
  <2>1. pc \in {"execute", "done"}
    BY <1>1 DEF BudgetInv, NoGate
  <2>2. OptFits /\ OverLimit(opt)
    BY <1>1, <2>1 DEF BudgetInv, TargetFits
  <2>3. IsBook(opt.weights, DOMAIN opt.weights) /\ Total(opt.weights) \in Nat
    <3>1. DOMAIN opt.weights \subseteq Symbols /\ IsBook(opt.weights, DOMAIN opt.weights)
      BY <2>2 DEF OptFits
    <3> QED BY <3>1, CycleAssumption, FS_Subset, TotalOfBook
  <2>4. Lever = MaxLeverage /\ MaxLeverage \in Nat /\ MaxPositionWeight \in Nat
    BY LeverIsLimit, LimitsAreNaturals DEF LimitsAgree
  <2>5. CASE \E s \in DOMAIN opt.weights : 100 * opt.weights[s] > MaxPositionWeight * Lever
    <3>1. PICK s \in DOMAIN opt.weights : 100 * opt.weights[s] > MaxPositionWeight * Lever
      BY <2>5
    <3>2. 100 * opt.weights[s] <= MaxPositionWeight * Lever
      BY <2>2 DEF OptFits, LimitsAgree
    <3>3. opt.weights[s] \in Nat /\ MaxPositionWeight * Lever \in Int
      BY <2>3, <2>4 DEF IsBook
    <3> QED BY <3>1, <3>2, <3>3
  <2>6. CASE 100 * Total(opt.weights) > Whole * MaxLeverage
    <3>1. 100 * Total(opt.weights) <= Whole * MaxLeverage
      BY <2>2, <2>4 DEF OptFits
    <3>2. Whole * MaxLeverage \in Int
      BY <2>4, WholeIsNatural
    <3> QED BY <2>3, <2>6, <3>1, <3>2
  <2>7. CASE opt.cvar > CvarLimit
    BY <2>2, <2>7, LimitsAreNaturals DEF OptFits
  <2> QED BY <2>2, <2>5, <2>6, <2>7 DEF OverLimit, Lever
<1> QED BY <1>1, BudgetInductive, PTL
==============================================================================
