---------------------------- MODULE LearningProofs ----------------------------
(***************************************************************************)
(* The learning loop, proved for any horizons, any bars, cap, retention    *)
(* and number of cycles, fits and crashes.                                 *)
(*                                                                         *)
(* The invariant has three parts.  DataInv: nothing was predicted or       *)
(* learned ahead of time and everything was learned once, in the tracker,  *)
(* in what is saved of it (a restart swaps one for the other) and in the   *)
(* training buffer, whose rows are of predictions that are marked or gone. *)
(* FitInv: how far the fit under way has replaced the parts of the model.  *)
(* ReadInv: what the fit under way has read, of a buffer that below its    *)
(* cap only grows.                                                         *)
(***************************************************************************)
EXTENDS Learning, SumLemmas, FiniteSetTheorems, SequenceTheorems, TLAPS

-----------------------------------------------------------------------------
(* Greatest elements, and predictions in order                             *)

LEMMA MaxIsGreatest ==
  ASSUME NEW S, IsFiniteSet(S), S \subseteq Int, S # {}
  PROVE  Max(S) \in S /\ \A y \in S : Max(S) >= y
<1> DEFINE G == {T \in SUBSET S : T # {} => \E x \in T : \A y \in T : x >= y}
<1>1. ASSUME NEW T \in SUBSET S, \A U \in SUBSET T : U # T => U \in G
      PROVE  T \in G
  <2>1. SUFFICES ASSUME T # {} PROVE \E x \in T : \A y \in T : x >= y
    OBVIOUS
  <2>2. PICK m \in T : TRUE
    BY <2>1
  <2>3. T \ {m} \in G
    BY <1>1, <2>2
  <2>4. CASE T \ {m} = {}
    BY <2>2, <2>4
  <2>5. CASE T \ {m} # {}
    <3>1. PICK x \in T \ {m} : \A y \in T \ {m} : x >= y
      BY <2>3, <2>5
    <3>2. m \in Int /\ x \in Int /\ T \subseteq Int
      OBVIOUS
    <3>3. CASE x >= m
      BY <3>1, <3>3
    <3>4. CASE m > x
      BY <3>1, <3>2, <3>4
    <3> QED BY <3>2, <3>3, <3>4
  <2> QED BY <2>4, <2>5
<1>2. S \in G
  <2> HIDE DEF G
  <2> QED BY <1>1, SubsetInduction
<1> QED BY <1>2 DEF Max

IsOrdered(order, preds) ==
  /\ order \in [1 .. Cardinality(preds) -> preds]
  /\ \A i, j \in 1 .. Cardinality(preds) : i < j => order[i].anchor < order[j].anchor

LEMMA OrderExists ==
  ASSUME NEW S, IsFiniteSet(S), \A p \in S : p.anchor \in Int,
         \A p, q \in S : p.anchor = q.anchor => p = q
  PROVE  \E order : IsOrdered(order, S)
<1> DEFINE G == {T \in SUBSET S : \E order : IsOrdered(order, T)}
<1>1. ASSUME NEW T \in SUBSET S, \A U \in SUBSET T : U # T => U \in G
      PROVE  T \in G
  <2>0. IsFiniteSet(T)
    BY FS_Subset
  <2>1. CASE T = {}
    <3>1. Cardinality(T) = 0
      BY <2>1, FS_EmptySet
    <3>2. IsOrdered([i \in 1 .. 0 |-> 0], T)
      BY <2>1, <3>1 DEF IsOrdered
    <3> QED BY <3>2
  <2>2. CASE T # {}
    <3> DEFINE A == {p.anchor : p \in T}
    <3>1. IsFiniteSet(A) /\ A \subseteq Int /\ A # {}
      <4>1. IsFiniteSet(A)
        <5> DEFINE f == [p \in T |-> p.anchor]
        <5>1. f \in Surjection(T, A)
          BY DEF Surjection
        <5> HIDE DEF f, A
        <5> QED BY <2>0, <5>1, FS_Surjection
      <4> QED BY <2>2, <4>1
    <3>2. PICK m \in T : \A p \in T : m.anchor >= p.anchor
      <4>1. Max(A) \in A /\ \A y \in A : Max(A) >= y
        BY <3>1, MaxIsGreatest
      <4> QED BY <4>1
    <3> HIDE DEF A
    <3>3. T \ {m} \in G
      BY <1>1
    <3>4. PICK order : IsOrdered(order, T \ {m})
      BY <3>3
    <3>5. /\ IsFiniteSet(T \ {m}) /\ Cardinality(T \ {m}) = Cardinality(T) - 1
          /\ Cardinality(T) \in Nat /\ Cardinality(T \ {m}) \in Nat
      BY <2>0, FS_RemoveElement, FS_CardinalityType
    <3> DEFINE n    == Cardinality(T)
               more == [i \in 1 .. n |-> IF i = n THEN m ELSE order[i]]
    <3>6. \A p \in T \ {m} : p.anchor < m.anchor
      BY <3>2
    <3>7. order \in [1 .. n - 1 -> T \ {m}]
          /\ \A i, j \in 1 .. n - 1 : i < j => order[i].anchor < order[j].anchor
      BY <3>4, <3>5 DEF IsOrdered
    <3>8. n \in Nat
      BY <3>5
    <3> HIDE DEF n
    <3>9. more \in [1 .. n -> T]
      BY <3>7, <3>8
    <3>10. ASSUME NEW i \in 1 .. n, NEW j \in 1 .. n, i < j
           PROVE  more[i].anchor < more[j].anchor
      <4>1. i \in 1 .. n - 1
        BY <3>8, <3>10
      <4>2. CASE j = n
        BY <3>6, <3>7, <4>1, <4>2, <3>8
      <4>3. CASE j # n
        BY <3>7, <4>1, <4>3, <3>8, <3>10
      <4> QED BY <4>2, <4>3
    <3>11. IsOrdered(more, T)
      BY <3>9, <3>10 DEF IsOrdered, n
    <3> QED BY <3>11
  <2> QED BY <2>1, <2>2
<1>2. S \in G
  <2> HIDE DEF G
  <2> QED BY <1>1, SubsetInduction
<1> QED BY <1>2

LEMMA InOrderIsOrdered ==
  ASSUME NEW S, IsFiniteSet(S), \A p \in S : p.anchor \in Int,
         \A p, q \in S : p.anchor = q.anchor => p = q
  PROVE  IsOrdered(InOrder(S), S)
<1>1. PICK order : IsOrdered(order, S)
  BY OrderExists
<1> QED BY <1>1 DEF IsOrdered, InOrder
-----------------------------------------------------------------------------
(* The tracker: what each of its operations keeps                          *)

Predictions == [anchor : Times, x : Features, resolved : SUBSET Horizons]

Trackers == [preds : SUBSET Predictions, bars : SUBSET Times, outcomes : [Times \X Horizons -> Nat]]

\* A tracker as it is before the prediction of time next is recorded.
TrackerInv(t, next) ==
  /\ t \in Trackers
  /\ \A p \in t.preds : p.anchor < next
  /\ \A p, q \in t.preds : p.anchor = q.anchor => p = q
  /\ LearnedOnce(t)
  /\ \A u \in Times, h \in Horizons : u >= next => t.outcomes[<<u, h>>] = 0

LEMMA TimesAreFinite == IsFiniteSet(Times) /\ Times \subseteq Nat \ {0}
<1>1. MaxTime \in Int /\ 1 \in Int
  BY TrackerAssumption
<1>2. IsFiniteSet(Times)
  BY <1>1, FS_Interval DEF Times
<1>3. Times \subseteq Nat \ {0}
  BY <1>1 DEF Times
<1> QED BY <1>2, <1>3

LEMMA EmptyTrackerKeeps == ASSUME NEW next \in Nat PROVE TrackerInv(EmptyTracker, next)
<1>1. EmptyTracker \in Trackers
  BY DEF EmptyTracker, Trackers
<1> QED BY <1>1 DEF TrackerInv, EmptyTracker, LearnedOnce

LEMMA TimeGoesOn ==
  ASSUME NEW t, NEW next \in Nat, NEW later \in Nat, next <= later, TrackerInv(t, next)
  PROVE  TrackerInv(t, later)
<1>1. Times \subseteq Int /\ \A p \in t.preds : p.anchor \in Times
  BY TimesAreFinite DEF TrackerInv, Trackers, Predictions
<1> QED BY <1>1 DEF TrackerInv

LEMMA TrackerShape ==
  ASSUME NEW t \in Trackers
  PROVE  /\ t = [preds |-> t.preds, bars |-> t.bars, outcomes |-> t.outcomes]
         /\ t.preds \in SUBSET Predictions /\ t.bars \in SUBSET Times
         /\ t.outcomes \in [Times \X Horizons -> Nat]
  BY DEF Trackers

LEMMA TrackerUpdates ==
  ASSUME NEW a, NEW b, NEW c, NEW x, NEW y
  PROVE  LET t == [preds |-> a, bars |-> b, outcomes |-> c]
         IN  /\ [t EXCEPT !.preds = x] = [preds |-> x, bars |-> b, outcomes |-> c]
             /\ [t EXCEPT !.bars = x] = [preds |-> a, bars |-> x, outcomes |-> c]
             /\ [t EXCEPT !.preds = x, !.outcomes = y] = [preds |-> x, bars |-> b, outcomes |-> y]
<1> DEFINE t == [preds |-> a, bars |-> b, outcomes |-> c]
<1>1. [t EXCEPT !.preds = x] = [preds |-> x, bars |-> b, outcomes |-> c]
  OBVIOUS
<1>2. [t EXCEPT !.bars = x] = [preds |-> a, bars |-> x, outcomes |-> c]
  OBVIOUS
<1>3. [t EXCEPT !.preds = x, !.outcomes = y] = [preds |-> x, bars |-> b, outcomes |-> y]
  <2> DEFINE v == [t EXCEPT !.preds = x, !.outcomes = y]
  <2>1. DOMAIN v = {"preds", "bars", "outcomes"} /\ v.preds = x /\ v.bars = b /\ v.outcomes = y
    OBVIOUS
  <2>2. v = [f \in {"preds", "bars", "outcomes"} |-> v[f]]
    OBVIOUS
  <2> DEFINE w == [preds |-> x, bars |-> b, outcomes |-> y]
  <2>3. w = [f \in {"preds", "bars", "outcomes"} |-> w[f]]
    OBVIOUS
  <2>4. w.preds = x /\ w.bars = b /\ w.outcomes = y
    OBVIOUS
  <2> HIDE DEF v, w
  <2>5. v = w
    BY <2>1, <2>2, <2>3, <2>4
  <2> QED BY <2>5 DEF v, w
<1> QED BY <1>1, <1>2, <1>3

LEMMA TrackerTypes ==
  ASSUME NEW preds \in SUBSET Predictions, NEW bars \in SUBSET Times,
         NEW outcomes \in [Times \X Horizons -> Nat]
  PROVE  [preds |-> preds, bars |-> bars, outcomes |-> outcomes] \in Trackers
  BY DEF Trackers

LEMMA RecordPriceKeeps ==
  ASSUME NEW t, NEW next \in Nat, TrackerInv(t, next), NEW bar \in Times
  PROVE  TrackerInv(RecordPrice(t, bar), next)
<1> DEFINE u == RecordPrice(t, bar)
<1>1. u = [preds |-> t.preds, bars |-> t.bars \union {bar}, outcomes |-> t.outcomes]
  <2>1. t \in Trackers
    BY DEF TrackerInv
  <2>2. t = [preds |-> t.preds, bars |-> t.bars, outcomes |-> t.outcomes]
    BY <2>1, TrackerShape
  <2>3. u = [t EXCEPT !.bars = t.bars \union {bar}]
    BY DEF RecordPrice
  <2> QED BY <2>2, <2>3, TrackerUpdates
<1>2. u \in Trackers
  <2>1. t \in Trackers
    BY DEF TrackerInv
  <2>2. t.preds \in SUBSET Predictions /\ t.bars \union {bar} \in SUBSET Times
        /\ t.outcomes \in [Times \X Horizons -> Nat]
    BY <2>1, TrackerShape
  <2> HIDE DEF u
  <2> QED BY <1>1, <2>2, TrackerTypes
<1>3. u.preds = t.preds /\ u.outcomes = t.outcomes
  BY <1>1
<1> HIDE DEF u
<1>4. LearnedOnce(u)
  BY <1>3 DEF LearnedOnce, TrackerInv
<1>5. TrackerInv(u, next)
  BY <1>2, <1>3, <1>4 DEF TrackerInv
<1> QED BY <1>5 DEF u

LEMMA RecordPredictionKeeps ==
  ASSUME NEW t, NEW now_ \in Times, TrackerInv(t, now_), NEW x \in Features
  PROVE  TrackerInv(RecordPrediction(t, now_, x), now_ + 1)
<1> DEFINE p == [anchor |-> now_, x |-> x, resolved |-> {}]
           u == RecordPrediction(t, now_, x)
<1>1. u = [preds |-> t.preds \union {p}, bars |-> t.bars, outcomes |-> t.outcomes]
  <2>1. t \in Trackers
    BY DEF TrackerInv
  <2>2. t = [preds |-> t.preds, bars |-> t.bars, outcomes |-> t.outcomes]
    BY <2>1, TrackerShape
  <2>3. u = [t EXCEPT !.preds = t.preds \union {p}]
    BY DEF RecordPrediction
  <2> HIDE DEF p
  <2> QED BY <2>2, <2>3, TrackerUpdates
<1>2. p \in Predictions
  BY DEF Predictions
<1>3. p.anchor = now_ /\ p.resolved = {}
  OBVIOUS
<1>4. u.preds = t.preds \union {p} /\ u.outcomes = t.outcomes
  BY <1>1
<1>5. u \in Trackers
  <2> HIDE DEF p, u
  <2>1. t.preds \union {p} \in SUBSET Predictions
    BY <1>2, TrackerShape DEF TrackerInv
  <2> QED BY <1>1, <2>1, TrackerShape, TrackerTypes DEF TrackerInv
<1> HIDE DEF p, u
<1>6. Times \subseteq Nat /\ \A q \in t.preds : q.anchor \in Times
  BY TimesAreFinite DEF TrackerInv, Trackers, Predictions
<1>7. \A q \in u.preds : q.anchor < now_ + 1
  <2>1. now_ \in Nat /\ \A q \in t.preds : q.anchor \in Nat /\ q.anchor < now_
    BY <1>6 DEF TrackerInv
  <2> QED BY <1>3, <1>4, <2>1
<1>8. \A q, r \in u.preds : q.anchor = r.anchor => q = r
  BY <1>3, <1>4, <1>6 DEF TrackerInv
<1>9. \A h \in Horizons : t.outcomes[<<now_, h>>] = 0
  BY <1>6 DEF TrackerInv
<1>10. LearnedOnce(u)
  BY <1>3, <1>4, <1>9 DEF TrackerInv, LearnedOnce
<1>11. \A w \in Times, h \in Horizons : w >= now_ + 1 => u.outcomes[<<w, h>>] = 0
  BY <1>4, <1>6 DEF TrackerInv
<1>12. TrackerInv(u, now_ + 1)
  BY <1>5, <1>7, <1>8, <1>10, <1>11 DEF TrackerInv
<1> QED BY <1>12 DEF u

LEMMA EvaluateSignalKeeps ==
  ASSUME NEW t, NEW next \in Nat, TrackerInv(t, next)
  PROVE  TrackerInv(EvaluateSignal(t), next)
<1> DEFINE u      == EvaluateSignal(t)
           After(p) == [p EXCEPT !.resolved = @ \union Resolvable(t, p)]
           Told(o) == {p \in t.preds : p.anchor = o[1] /\ o[2] \in Resolvable(t, p)}
<1>1. u = [preds    |-> {After(p) : p \in t.preds}, bars |-> t.bars,
           outcomes |-> [o \in Times \X Horizons |-> t.outcomes[o] + Cardinality(Told(o))]]
  <2>1. /\ t = [preds |-> t.preds, bars |-> t.bars, outcomes |-> t.outcomes]
        /\ DOMAIN t.outcomes = Times \X Horizons
    BY TrackerShape DEF TrackerInv
  <2>2. u = [preds    |-> {After(p) : p \in t.preds}, bars |-> t.bars,
             outcomes |-> [o \in DOMAIN t.outcomes |-> t.outcomes[o] + Cardinality(Told(o))]]
    <3>1. u = [t EXCEPT !.preds = {After(p) : p \in t.preds},
                        !.outcomes = [o \in DOMAIN t.outcomes |-> t.outcomes[o] + Cardinality(Told(o))]]
      BY DEF EvaluateSignal
    <3> HIDE DEF After, Told, u
    <3> QED BY <2>1, <3>1, TrackerUpdates
  <2> QED BY <2>1, <2>2
<1>2. \A p \in t.preds : /\ After(p) \in Predictions /\ After(p).anchor = p.anchor
                         /\ After(p).resolved = p.resolved \union Resolvable(t, p)
  BY DEF TrackerInv, Trackers, Predictions, Resolvable
<1>3. /\ \A p \in t.preds : p.anchor \in Times /\ p.resolved \subseteq Horizons
      /\ t.outcomes \in [Times \X Horizons -> Nat] /\ t.bars \in SUBSET Times
  BY DEF TrackerInv, Trackers, Predictions
<1>4. \A p \in t.preds : Resolvable(t, p) \cap p.resolved = {}
  BY DEF Resolvable
<1>5. \A p \in t.preds, h \in Horizons :
         Cardinality(Told(<<p.anchor, h>>)) = IF h \in Resolvable(t, p) THEN 1 ELSE 0
  <2>1. SUFFICES ASSUME NEW p \in t.preds, NEW h \in Horizons
                 PROVE  Told(<<p.anchor, h>>) = IF h \in Resolvable(t, p) THEN {p} ELSE {}
    BY FS_Singleton, FS_EmptySet
  <2>2. \A q \in t.preds : q.anchor = p.anchor => q = p
    BY DEF TrackerInv
  <2> QED BY <2>2
<1>6. ASSUME NEW o \in Times \X Horizons, o[1] >= next PROVE Told(o) = {}
  <2>1. SUFFICES ASSUME NEW p \in t.preds, p.anchor = o[1] PROVE FALSE
    OBVIOUS
  <2>2. o[1] \in Int
    <3>1. o[1] \in Times
      OBVIOUS
    <3>2. Times \subseteq Int
      BY TimesAreFinite
    <3> HIDE DEF Told
    <3> QED BY <3>1, <3>2
  <2>3. p.anchor < next
    BY DEF TrackerInv
  <2> QED BY <1>6, <2>1, <2>2, <2>3
<1>7. \A o \in Times \X Horizons : Cardinality(Told(o)) \in Nat
  <2>1. SUFFICES ASSUME NEW o \in Times \X Horizons PROVE Cardinality(Told(o)) \in Nat
    OBVIOUS
  <2>2. CASE Told(o) = {}
    <3>1. Cardinality(Told(o)) = 0
      BY <2>2, FS_EmptySet
    <3> QED BY <3>1
  <2>3. CASE Told(o) # {}
    <3>1. PICK p : p \in Told(o)
      BY <2>3
    <3>2. \A q \in t.preds : q.anchor = p.anchor => q = p
      BY <3>1 DEF TrackerInv
    <3>3. Told(o) = {p}
      BY <3>1, <3>2
    <3>4. Cardinality(Told(o)) = 1
      BY <3>3, FS_Singleton
    <3> QED BY <3>4
  <2> QED BY <2>2, <2>3
<1> HIDE DEF After, Told, u
<1>8. /\ u.preds = {After(p) : p \in t.preds}
      /\ \A o \in Times \X Horizons : u.outcomes[o] = t.outcomes[o] + Cardinality(Told(o))
  BY <1>1
<1>9. u \in Trackers
  BY <1>1, <1>2, <1>3, <1>7 DEF Trackers
<1>10. LearnedOnce(u)
  <2>1. SUFFICES ASSUME NEW p \in t.preds, NEW h \in Horizons
                 PROVE  u.outcomes[<<After(p).anchor, h>>] = IF h \in After(p).resolved THEN 1 ELSE 0
    BY <1>8 DEF LearnedOnce
  <2>2. u.outcomes[<<p.anchor, h>>] = t.outcomes[<<p.anchor, h>>] + Cardinality(Told(<<p.anchor, h>>))
    BY <1>3, <1>8
  <2>3. t.outcomes[<<p.anchor, h>>] = IF h \in p.resolved THEN 1 ELSE 0
    BY DEF TrackerInv, LearnedOnce
  <2> QED BY <1>2, <1>4, <1>5, <2>2, <2>3
<1>11. \A p \in u.preds : p.anchor < next
  BY <1>2, <1>8 DEF TrackerInv
<1>12. \A p, q \in u.preds : p.anchor = q.anchor => p = q
  BY <1>2, <1>8 DEF TrackerInv
<1>13. ASSUME NEW w \in Times, NEW h \in Horizons, w >= next
       PROVE  u.outcomes[<<w, h>>] = 0
  <2>1. Cardinality(Told(<<w, h>>)) = 0
    BY <1>6, <1>13, FS_EmptySet
  <2>2. t.outcomes[<<w, h>>] = 0
    BY <1>13 DEF TrackerInv
  <2> QED BY <1>8, <2>1, <2>2
<1>14. TrackerInv(u, next)
  BY <1>9, <1>10, <1>11, <1>12, <1>13 DEF TrackerInv
<1> QED BY <1>14 DEF u

LEMMA NewestIsATime ==
  ASSUME NEW t \in Trackers
  PROVE  NewestTimestamp(t) \in Nat
<1> DEFINE A == {p.anchor : p \in t.preds}
           O == {o \in Times \X Horizons : t.outcomes[o] > 0}
           B == {o[1] + o[2] : o \in O}
           S == {0} \union t.bars \union A \union B
<1>1. IsFiniteSet(A) /\ A \subseteq Nat
  <2>1. A \subseteq Times
    BY DEF Trackers, Predictions
  <2> QED BY <2>1, TimesAreFinite, FS_Subset
<1>2. IsFiniteSet(B) /\ B \subseteq Nat
  <2>1. IsFiniteSet(Times \X Horizons)
    BY TimesAreFinite, TrackerAssumption, FS_Product
  <2>2. IsFiniteSet(O)
    BY <2>1, FS_Subset
  <2> DEFINE f == [o \in O |-> o[1] + o[2]]
  <2>3. f \in Surjection(O, B)
    BY DEF Surjection
  <2>4. B \subseteq Nat
    <3>1. SUFFICES ASSUME NEW o \in Times \X Horizons PROVE o[1] + o[2] \in Nat
      OBVIOUS
    <3>2. o[1] \in Nat /\ o[2] \in Nat
      BY TimesAreFinite, TrackerAssumption
    <3> QED BY <3>2
  <2> HIDE DEF f, O, B
  <2> QED BY <2>2, <2>3, <2>4, FS_Surjection
<1>3. IsFiniteSet(t.bars) /\ t.bars \subseteq Nat
  BY TimesAreFinite, FS_Subset DEF Trackers
<1>4. IsFiniteSet(S)
  <2> HIDE DEF A, B
  <2> QED BY <1>1, <1>2, <1>3, FS_Singleton, FS_Union
<1>5. S \subseteq Nat /\ S # {}
  BY <1>1, <1>2, <1>3
<1>6. NewestTimestamp(t) = Max(S)
  BY DEF NewestTimestamp, Trackers
<1> HIDE DEF S
<1>7. Max(S) \in S
  <2>1. S \subseteq Int
    BY <1>5
  <2> QED BY <1>4, <1>5, <2>1, MaxIsGreatest
<1> QED BY <1>5, <1>6, <1>7

LEMMA DumpTrackerKeeps ==
  ASSUME NEW t, NEW next \in Nat, TrackerInv(t, next)
  PROVE  TrackerInv(DumpTracker(t, Retention), next)
<1> DEFINE u == DumpTracker(t, Retention)
           n == NewestTimestamp(t)
<1>1. n \in Nat
  BY NewestIsATime DEF TrackerInv
<1>2. u = [preds    |-> {p \in t.preds : p.anchor + Retention >= n},
           bars     |-> {b \in t.bars : b + Retention >= n},
           outcomes |-> [o \in Times \X Horizons |->
                           IF o[1] + o[2] + Retention >= n THEN t.outcomes[o] ELSE 0]]
  BY DEF DumpTracker, TrackerInv, Trackers
<1> HIDE DEF n
<1>3. u \in Trackers
  BY <1>2 DEF TrackerInv, Trackers
<1>4. /\ u.preds = {p \in t.preds : p.anchor + Retention >= n}
      /\ \A w \in Times, h \in Horizons :
            u.outcomes[<<w, h>>] = IF w + h + Retention >= n THEN t.outcomes[<<w, h>>] ELSE 0
  BY <1>2
<1> HIDE DEF u
<1>5. \A p \in t.preds : p.anchor \in Times
  BY DEF TrackerInv, Trackers, Predictions
<1>6. LearnedOnce(u)
  <2>1. SUFFICES ASSUME NEW p \in t.preds, p.anchor + Retention >= n, NEW h \in Horizons
                 PROVE  u.outcomes[<<p.anchor, h>>] = IF h \in p.resolved THEN 1 ELSE 0
    BY <1>4 DEF LearnedOnce
  <2>2. p.anchor + h + Retention >= n
    <3>1. p.anchor \in Nat /\ h \in Nat /\ Retention \in Nat
      BY <1>5, TimesAreFinite, TrackerAssumption, LearningAssumption
    <3> QED BY <1>1, <2>1, <3>1
  <2> QED BY <1>4, <1>5, <2>2 DEF TrackerInv, LearnedOnce
<1>7. TrackerInv(u, next)
  BY <1>3, <1>4, <1>6 DEF TrackerInv
<1> QED BY <1>7 DEF u
-----------------------------------------------------------------------------
(* The training buffer                                                     *)

Rows == [anchor : Times, x : Features, base : Times, future : Times, seen : Times]

Spans(row) ==
  /\ row.base <= row.anchor
  /\ row.base <= row.future
  /\ row.future <= row.anchor + 1
  /\ row.anchor + 1 <= row.seen

Distinct(rows) == \A i, j \in DOMAIN rows : rows[i].anchor = rows[j].anchor => i = j

\* Every row was taught once, by a prediction that is marked or gone.
BufferInv(buffer, preds, next) ==
  /\ buffer \in Seq(Rows) /\ Len(buffer) <= BufferMax
  /\ Distinct(buffer)
  /\ \A i \in DOMAIN buffer :
        /\ Spans(buffer[i])
        /\ buffer[i].anchor < next
        /\ \A p \in preds : p.anchor = buffer[i].anchor => 1 \in p.resolved

LEMMA ExampleSpans ==
  ASSUME NEW t \in Trackers, NEW p \in t.preds, 1 \in Resolvable(t, p)
  PROVE  Example(t, p) \in Rows /\ Spans(Example(t, p)) /\ Example(t, p).anchor = p.anchor
<1> DEFINE A == BarsUpTo(t, p.anchor)
           B == BarsUpTo(t, p.anchor + 1)
<1>1. p \in Predictions /\ t.bars \in SUBSET Times
  BY DEF Trackers
<1>2. p.anchor \in Times /\ p.x \in Features
  BY <1>1 DEF Predictions
<1>3. Times \subseteq Nat
  BY TimesAreFinite
<1>4. A # {} /\ \E b \in t.bars : b >= p.anchor + 1
  BY DEF Resolvable, PriceAsof, HasElapsed
<1>5. /\ A \subseteq t.bars /\ B \subseteq t.bars /\ A \subseteq B
      /\ \A b \in A : b <= p.anchor
      /\ \A b \in B : b <= p.anchor + 1
  <2>1. \A b \in t.bars : b \in Nat
    BY <1>1, <1>3
  <2>2. p.anchor \in Nat
    BY <1>2, <1>3
  <2> QED BY <2>1, <2>2 DEF BarsUpTo
<1>6. IsFiniteSet(t.bars) /\ IsFiniteSet(A) /\ IsFiniteSet(B)
  <2> HIDE DEF A, B
  <2> QED BY <1>1, <1>5, TimesAreFinite, FS_Subset
<1>7. t.bars \subseteq Int /\ A \subseteq Int /\ B \subseteq Int /\ B # {} /\ t.bars # {}
  <2>1. \A b \in t.bars : b \in Int
    <3>1. \A n \in Nat : n \in Int
      OBVIOUS
    <3>2. \A b \in t.bars : b \in Nat
      BY <1>1, <1>3
    <3> HIDE DEF A, B
    <3> QED BY <3>1, <3>2
  <2>2. A \subseteq Int /\ B \subseteq Int
    BY <1>5, <2>1
  <2> QED BY <1>4, <1>5, <2>1, <2>2
<1>8. PriceAsof(t, p.anchor) = Max(A) /\ PriceAsof(t, p.anchor + 1) = Max(B)
  BY <1>4, <1>7 DEF PriceAsof
<1> HIDE DEF A, B
<1>9. /\ Max(A) \in A /\ Max(B) \in B /\ Max(t.bars) \in t.bars
      /\ \A b \in B : Max(B) >= b
      /\ \A b \in t.bars : Max(t.bars) >= b
  BY <1>4, <1>6, <1>7, MaxIsGreatest
<1>10. Max(A) <= p.anchor /\ Max(A) <= Max(B) /\ Max(B) <= p.anchor + 1
  BY <1>5, <1>7, <1>9
<1>11. p.anchor + 1 <= Max(t.bars)
  <2>1. PICK b \in t.bars : b >= p.anchor + 1
    BY <1>4
  <2>2. b \in Int /\ Max(t.bars) \in Int /\ Max(t.bars) >= b
    BY <1>7, <1>9
  <2>3. p.anchor \in Int
    <3>1. p.anchor \in Nat
      BY <1>2, <1>3
    <3> QED BY <3>1
  <2> QED BY <2>1, <2>2, <2>3
<1>12. Example(t, p) = [anchor |-> p.anchor, x |-> p.x, base |-> Max(A), future |-> Max(B), seen |-> Max(t.bars)]
  BY <1>8 DEF Example
<1>13. Max(A) \in Times /\ Max(B) \in Times /\ Max(t.bars) \in Times
  BY <1>1, <1>5, <1>9
<1>14. Example(t, p) \in Rows
  BY <1>2, <1>12, <1>13 DEF Rows
<1> QED BY <1>10, <1>11, <1>12, <1>14 DEF Spans

LEMMA NewExamplesAreTaught ==
  ASSUME NEW t, NEW next \in Nat, TrackerInv(t, next)
  PROVE  /\ NewExamples(t) \in Seq(Rows)
         /\ Distinct(NewExamples(t))
         /\ \A i \in DOMAIN NewExamples(t) :
               /\ Spans(NewExamples(t)[i])
               /\ \E p \in t.preds : p.anchor = NewExamples(t)[i].anchor /\ 1 \in Resolvable(t, p)
<1> DEFINE taught == {p \in t.preds : 1 \in Resolvable(t, p) /\ p.x # "none"}
           order  == InOrder(taught)
           n      == Cardinality(taught)
           rows   == NewExamples(t)
<1>1. t \in Trackers /\ t.preds \in SUBSET Predictions
  BY DEF TrackerInv, Trackers
<1>2. \A p \in taught : p.anchor \in Times
  BY <1>1 DEF Predictions
<1>3. IsFiniteSet(taught)
  <2> DEFINE f == [p \in taught |-> p.anchor]
  <2>1. f \in Injection(taught, Times)
    BY <1>2 DEF TrackerInv, Injection, IsInjective
  <2> HIDE DEF f, taught
  <2> QED BY <2>1, TimesAreFinite, FS_Injection
<1>4. n \in Nat
  BY <1>3, FS_CardinalityType
<1>5. \A p, q \in taught : p.anchor = q.anchor => p = q
  BY DEF TrackerInv
<1>6. \A p \in taught : p.anchor \in Int
  <2>1. \A a \in Times : a \in Int
    BY TimesAreFinite
  <2> HIDE DEF taught
  <2> QED BY <1>2, <2>1
<1>7. rows = [i \in DOMAIN order |-> Example(t, order[i])]
  BY DEF NewExamples
<1>8. \A p \in taught : p \in t.preds /\ 1 \in Resolvable(t, p)
  OBVIOUS
<1> HIDE DEF taught
<1>9. IsOrdered(order, taught)
  BY <1>3, <1>5, <1>6, InOrderIsOrdered
<1> HIDE DEF order, rows
<1>10. /\ order \in [1 .. n -> taught]
       /\ \A i, j \in 1 .. n : i < j => order[i].anchor < order[j].anchor
  BY <1>9 DEF IsOrdered
<1> HIDE DEF n
<1>11. rows = [i \in 1 .. n |-> Example(t, order[i])]
  BY <1>7, <1>10
<1>12. \A i \in 1 .. n : /\ rows[i] = Example(t, order[i]) /\ order[i] \in taught
  BY <1>10, <1>11
<1>13. \A i \in 1 .. n : rows[i] \in Rows /\ Spans(rows[i]) /\ rows[i].anchor = order[i].anchor
  BY <1>1, <1>8, <1>12, ExampleSpans
<1>14. rows \in Seq(Rows) /\ DOMAIN rows = 1 .. n
  BY <1>4, <1>11, <1>13, IsASeq
<1>15. Distinct(rows)
  <2>1. SUFFICES ASSUME NEW i \in 1 .. n, NEW j \in 1 .. n, rows[i].anchor = rows[j].anchor PROVE i = j
    BY <1>14 DEF Distinct
  <2>2. order[i].anchor = order[j].anchor /\ order[i].anchor \in Int
    BY <1>6, <1>12, <1>13, <2>1
  <2>3. i \in Int /\ j \in Int
    BY <1>4
  <2> QED BY <1>10, <2>2, <2>3
<1>16. \A i \in DOMAIN rows : \E p \in t.preds : p.anchor = rows[i].anchor /\ 1 \in Resolvable(t, p)
  BY <1>8, <1>12, <1>13, <1>14
<1>17. /\ rows \in Seq(Rows) /\ Distinct(rows)
       /\ \A i \in DOMAIN rows :
             /\ Spans(rows[i])
             /\ \E p \in t.preds : p.anchor = rows[i].anchor /\ 1 \in Resolvable(t, p)
  BY <1>13, <1>14, <1>15, <1>16
<1> QED BY <1>17 DEF rows

\* What Remember keeps of the rows it has and is given.
Newest(all) == SubSeq(all, IF Len(all) > BufferMax THEN Len(all) - BufferMax + 1 ELSE 1, Len(all))

LEMMA NewestAreLast ==
  ASSUME NEW S, NEW all \in Seq(S)
  PROVE  LET skipped == IF Len(all) > BufferMax THEN Len(all) - BufferMax ELSE 0
         IN  /\ Newest(all) \in Seq(S)
             /\ Len(Newest(all)) = Len(all) - skipped
             /\ skipped \in 0 .. Len(all)
             /\ \A i \in 1 .. Len(all) - skipped : Newest(all)[i] = all[i + skipped]
<1> DEFINE skipped == IF Len(all) > BufferMax THEN Len(all) - BufferMax ELSE 0
<1>1. Len(all) \in Nat /\ BufferMax \in Nat \ {0}
  BY ModelAssumption
<1>2. skipped \in 0 .. Len(all)
  BY <1>1
<1>3. Newest(all) = SubSeq(all, skipped + 1, Len(all))
  BY <1>1 DEF Newest
<1> HIDE DEF skipped
<1>4. Newest(all) = [i \in 1 .. Len(all) - skipped |-> all[i + skipped]]
  BY <1>1, <1>2, <1>3 DEF SubSeq
<1>5. \A i \in 1 .. Len(all) - skipped : all[i + skipped] \in S
  BY <1>1, <1>2
<1>6. Newest(all) \in Seq(S) /\ Len(Newest(all)) = Len(all) - skipped
  BY <1>1, <1>2, <1>4, <1>5, IsASeq
<1> QED BY <1>2, <1>4, <1>6 DEF skipped

LEMMA LearnedRowsAreDistinct ==
  ASSUME NEW t, NEW next \in Nat, TrackerInv(t, next), NEW buffer, BufferInv(buffer, t.preds, next)
  PROVE  BufferInv(Newest(buffer \o NewExamples(t)), EvaluateSignal(t).preds, next)
<1> DEFINE rows    == NewExamples(t)
           all     == buffer \o rows
           m       == Len(buffer)
           skipped == IF Len(all) > BufferMax THEN Len(all) - BufferMax ELSE 0
           kept    == Newest(all)
           After(p) == [p EXCEPT !.resolved = @ \union Resolvable(t, p)]
<1>1. /\ rows \in Seq(Rows) /\ Distinct(rows)
      /\ \A i \in DOMAIN rows :
            /\ Spans(rows[i])
            /\ \E p \in t.preds : p.anchor = rows[i].anchor /\ 1 \in Resolvable(t, p)
  BY NewExamplesAreTaught
<1> HIDE DEF rows
<1>2. /\ buffer \in Seq(Rows) /\ Distinct(buffer)
      /\ \A i \in DOMAIN buffer : Spans(buffer[i]) /\ buffer[i].anchor < next
      /\ \A i \in DOMAIN buffer, p \in t.preds : p.anchor = buffer[i].anchor => 1 \in p.resolved
  BY DEF BufferInv
<1>3. /\ \A p \in t.preds : p \in Predictions /\ p.anchor < next
      /\ \A p, q \in t.preds : p.anchor = q.anchor => p = q
  BY DEF TrackerInv, Trackers
<1>4. /\ all \in Seq(Rows) /\ Len(all) = m + Len(rows) /\ m \in Nat /\ Len(rows) \in Nat
      /\ DOMAIN buffer = 1 .. m /\ DOMAIN rows = 1 .. Len(rows)
      /\ \A i \in 1 .. Len(all) : all[i] = IF i <= m THEN buffer[i] ELSE rows[i - m]
  BY <1>1, <1>2
<1> HIDE DEF m
<1>5. \A i \in 1 .. Len(all) : i <= m => i \in DOMAIN buffer
  BY <1>4
<1>6. \A i \in 1 .. Len(all) : ~(i <= m) => i - m \in DOMAIN rows
  BY <1>4
<1> HIDE DEF all
<1>7. \A i \in 1 .. Len(all) : Spans(all[i]) /\ all[i].anchor < next
  <2>1. SUFFICES ASSUME NEW i \in 1 .. Len(all) PROVE Spans(all[i]) /\ all[i].anchor < next
    OBVIOUS
  <2>2. CASE i <= m
    <3>1. all[i] = buffer[i] /\ i \in DOMAIN buffer
      BY <1>4, <1>5, <2>2
    <3> QED BY <1>2, <3>1
  <2>3. CASE ~(i <= m)
    <3>1. all[i] = rows[i - m] /\ i - m \in DOMAIN rows
      BY <1>4, <1>6, <2>3
    <3> QED BY <1>1, <1>3, <3>1
  <2> QED BY <2>2, <2>3
<1>8. ASSUME NEW i \in 1 .. Len(all), NEW j \in 1 .. Len(all), i <= m, ~(j <= m)
      PROVE  all[i].anchor # all[j].anchor
  <2>1. PICK p \in t.preds : p.anchor = all[j].anchor /\ 1 \in Resolvable(t, p)
    BY <1>1, <1>4, <1>6, <1>8
  <2>2. 1 \notin p.resolved
    BY <2>1 DEF Resolvable
  <2>3. all[i] = buffer[i] /\ i \in DOMAIN buffer
    BY <1>4, <1>5, <1>8
  <2> QED BY <1>2, <2>1, <2>2, <2>3
<1>9. ASSUME NEW i \in 1 .. Len(all), NEW j \in 1 .. Len(all), all[i].anchor = all[j].anchor
      PROVE  i = j
  <2>1. CASE i <= m /\ j <= m
    BY <1>2, <1>4, <1>5, <1>9, <2>1 DEF Distinct
  <2>2. CASE ~(i <= m) /\ ~(j <= m)
    <3>1. all[i] = rows[i - m] /\ all[j] = rows[j - m]
      BY <1>4, <2>2
    <3>2. i - m \in DOMAIN rows /\ j - m \in DOMAIN rows
      BY <1>6, <2>2
    <3>3. i - m = j - m
      BY <1>1, <1>9, <3>1, <3>2 DEF Distinct
    <3> QED BY <1>4, <3>3
  <2> QED BY <1>8, <1>9, <2>1, <2>2
<1>10. ASSUME NEW i \in 1 .. Len(all), NEW p \in t.preds, p.anchor = all[i].anchor
       PROVE  1 \in p.resolved \union Resolvable(t, p)
  <2>1. CASE i <= m
    BY <1>2, <1>4, <1>5, <1>10, <2>1
  <2>2. CASE ~(i <= m)
    BY <1>1, <1>3, <1>4, <1>6, <1>10, <2>2
  <2> QED BY <2>1, <2>2
<1>11. /\ EvaluateSignal(t).preds = {After(p) : p \in t.preds}
       /\ \A p \in t.preds : /\ After(p).anchor = p.anchor
                             /\ After(p).resolved = p.resolved \union Resolvable(t, p)
  <2>1. t \in Trackers
    BY DEF TrackerInv
  <2>2. EvaluateSignal(t).preds = {After(p) : p \in t.preds}
    BY <2>1 DEF EvaluateSignal, Trackers
  <2> QED BY <1>3, <2>2 DEF Predictions
<1>12. \A i \in 1 .. Len(all), q \in EvaluateSignal(t).preds : q.anchor = all[i].anchor => 1 \in q.resolved
  <2> HIDE DEF After
  <2> QED BY <1>10, <1>11
<1>13. /\ kept \in Seq(Rows) /\ Len(kept) = Len(all) - skipped /\ skipped \in 0 .. Len(all)
       /\ \A i \in 1 .. Len(all) - skipped : kept[i] = all[i + skipped]
  BY <1>4, NewestAreLast
<1>14. Len(kept) <= BufferMax
  BY <1>4, <1>13, ModelAssumption
<1>15. Len(all) \in Nat
  BY <1>4
<1> HIDE DEF kept, skipped
<1>16. DOMAIN kept = 1 .. Len(all) - skipped
  BY <1>13, <1>15
<1>17. \A i \in DOMAIN kept : i + skipped \in 1 .. Len(all) /\ i \in Int
  BY <1>13, <1>15, <1>16
<1>18. skipped \in Int
  BY <1>13, <1>15
<1>19. Distinct(kept)
  <2>1. SUFFICES ASSUME NEW i \in DOMAIN kept, NEW j \in DOMAIN kept, kept[i].anchor = kept[j].anchor PROVE i = j
    BY DEF Distinct
  <2>2. kept[i] = all[i + skipped] /\ kept[j] = all[j + skipped]
    BY <1>13, <1>16
  <2>3. i + skipped \in 1 .. Len(all) /\ j + skipped \in 1 .. Len(all)
    BY <1>17
  <2>4. i + skipped = j + skipped
    BY <1>9, <2>1, <2>2, <2>3
  <2> QED BY <1>17, <1>18, <2>4
<1>20. \A i \in DOMAIN kept :
         /\ Spans(kept[i]) /\ kept[i].anchor < next
         /\ \A q \in EvaluateSignal(t).preds : q.anchor = kept[i].anchor => 1 \in q.resolved
  BY <1>7, <1>12, <1>13, <1>16, <1>17
<1>21. BufferInv(kept, EvaluateSignal(t).preds, next)
  BY <1>13, <1>14, <1>19, <1>20 DEF BufferInv
<1> QED BY <1>21 DEF kept, all, rows
-----------------------------------------------------------------------------
(* The model: what each step of a fit changes                              *)

Parts == [fit : Nat, ok : BOOLEAN]

Models == [ens : Parts, vol : Parts, hit : Nat, tail : Nat, fitted : BOOLEAN,
           fitTime : Nat, prior : Nat, buffer : Seq(Rows)]

\* n has the parts of m but those of the fields.
SameBut(m, n, fields) ==
  \A f \in {"ens", "vol", "hit", "tail", "fitted", "fitTime", "prior", "buffer"} \ fields : n[f] = m[f]

LEMMA FreshModelIsEmpty ==
  FreshModel \in Models /\ FreshModel.buffer = << >> /\ ~FreshModel.ens.ok /\ ~FreshModel.fitted
  BY DEF FreshModel, Unfitted, Models, Parts


LEMMA InstallEnsembleSets ==
  ASSUME NEW m \in Models, NEW id \in Nat
  PROVE  LET n == InstallEnsemble(m, id) IN n \in Models /\ SameBut(m, n, {"ens"}) /\ n.ens = [fit |-> id, ok |-> FALSE]
  BY DEF InstallEnsemble, Models, Parts, SameBut

LEMMA TrainEnsembleSets ==
  ASSUME NEW m \in Models
  PROVE  LET n == TrainEnsemble(m) IN n \in Models /\ SameBut(m, n, {"ens"}) /\ n.ens = [fit |-> m.ens.fit, ok |-> TRUE]
  BY DEF TrainEnsemble, Models, Parts, SameBut

LEMMA InstallVolSets ==
  ASSUME NEW m \in Models, NEW id \in Nat
  PROVE  LET n == InstallVol(m, id) IN n \in Models /\ SameBut(m, n, {"vol"}) /\ n.vol = [fit |-> id, ok |-> FALSE]
  BY DEF InstallVol, Models, Parts, SameBut

LEMMA TrainVolSets ==
  ASSUME NEW m \in Models, NEW id \in Nat
  PROVE  LET n == TrainVol(m, id) IN n \in Models /\ SameBut(m, n, {"vol"}) /\ n.vol = [fit |-> id, ok |-> TRUE]
  BY DEF TrainVol, Models, Parts, SameBut

LEMMA CalibrateHitSets ==
  ASSUME NEW m \in Models, NEW id \in Nat
  PROVE  LET n == CalibrateHit(m, id) IN n \in Models /\ SameBut(m, n, {"hit"}) /\ n.hit = id
  BY DEF CalibrateHit, Models, Parts, SameBut

LEMMA PublishSets ==
  ASSUME NEW m \in Models, NEW id \in Nat, NEW time \in Nat
  PROVE  LET n == Publish(m, id, time) IN n \in Models /\ SameBut(m, n, {"tail", "fitted", "fitTime"}) /\ n.tail = id /\ n.fitted
  BY DEF Publish, Models, Parts, SameBut

\* No part of a fit touches the buffer (ReturnModel's fit and its parts).
LEMMA PartsKeepTheBuffer ==
  ASSUME NEW m \in Models, NEW id \in Nat, NEW time \in Nat
  PROVE  /\ InstallEnsemble(m, id).buffer = m.buffer /\ TrainEnsemble(m).buffer = m.buffer
         /\ InstallVol(m, id).buffer = m.buffer /\ TrainVol(m, id).buffer = m.buffer
         /\ CalibrateHit(m, id).buffer = m.buffer /\ Publish(m, id, time).buffer = m.buffer
  BY DEF InstallEnsemble, TrainEnsemble, InstallVol, TrainVol, CalibrateHit, Publish, Models

LEMMA SetPriorSets ==
  ASSUME NEW m \in Models
  PROVE  LET n == SetPrior(m)
         IN  n \in Models /\ SameBut(m, n, {"prior"}) /\ (m.fitted /\ m.ens.ok => n.prior = m.ens.fit)
  BY DEF SetPrior, Models, Parts, SameBut

LEMMA RememberSets ==
  ASSUME NEW m \in Models, NEW rows \in Seq(Rows)
  PROVE  LET n == Remember(m, rows)
         IN  n \in Models /\ SameBut(m, n, {"buffer"}) /\ n.buffer = Newest(m.buffer \o rows)
<1>1. m.buffer \o rows \in Seq(Rows)
  BY DEF Models
<1>2. Newest(m.buffer \o rows) \in Seq(Rows)
  BY <1>1, NewestAreLast
<1>3. Remember(m, rows) = [m EXCEPT !.buffer = Newest(m.buffer \o rows)]
  BY DEF Remember, Newest
<1> QED BY <1>2, <1>3 DEF Models, SameBut

\* A refit in one thread leaves the model alone, or unable to answer, or whole.
LEMMA RefitNowSets ==
  ASSUME NEW m \in Models, NEW id \in Nat, NEW time \in Nat
  PROVE  LET n == RefitNow(m, id, time)
         IN  /\ n \in Models /\ SameBut(m, n, {"ens", "vol", "hit", "tail", "fitted", "fitTime"})
             /\ n = m \/ ~n.ens.ok \/ IsWhole(n)
<1> DEFINE a == InstallEnsemble(m, id)
           b == TrainEnsemble(a)
           c == TrainVol(b, id)
           d == CalibrateHit(c, id)
           e == Publish(d, id, time)
<1>1. a \in Models /\ SameBut(m, a, {"ens"}) /\ a.ens = [fit |-> id, ok |-> FALSE]
  BY InstallEnsembleSets
<1> HIDE DEF a
<1>2. b \in Models /\ SameBut(a, b, {"ens"}) /\ b.ens = [fit |-> a.ens.fit, ok |-> TRUE]
  BY <1>1, TrainEnsembleSets
<1> HIDE DEF b
<1>3. c \in Models /\ SameBut(b, c, {"vol"}) /\ c.vol = [fit |-> id, ok |-> TRUE]
  BY <1>2, TrainVolSets
<1> HIDE DEF c
<1>4. d \in Models /\ SameBut(c, d, {"hit"}) /\ d.hit = id
  BY <1>3, CalibrateHitSets
<1> HIDE DEF d
<1>5. e \in Models /\ SameBut(d, e, {"tail", "fitted", "fitTime"}) /\ e.tail = id
  BY <1>4, PublishSets
<1> HIDE DEF e
<1>6. e.buffer = m.buffer /\ e.prior = m.prior
  BY <1>1, <1>2, <1>3, <1>4, <1>5 DEF SameBut
<1>7. IsWhole(e)
  BY <1>1, <1>2, <1>3, <1>4, <1>5 DEF SameBut, IsWhole
<1>8. RefitNow(m, id, time) \in {m, a, e}
  BY DEF RefitNow, a, b, c, d, e
<1>9. CASE RefitNow(m, id, time) = m
  BY <1>9 DEF SameBut
<1>10. CASE RefitNow(m, id, time) = a
  BY <1>1, <1>10 DEF SameBut
<1>11. CASE RefitNow(m, id, time) = e
  BY <1>5, <1>6, <1>7, <1>11 DEF SameBut
<1> QED BY <1>8, <1>9, <1>10, <1>11
-----------------------------------------------------------------------------
(* The invariant of the loop, in three parts                               *)

Busy    == {"prior", "predict", "govern", "learn"}
Reading == {"none", "size", "readX", "readReturns", "readVols", "fit"}
Fitting == {"replaceVol", "trainVol", "calibrate", "publish"}

Places == Reading \union {"trainEns"} \union Fitting

Refits == [at : Places,
           xs : Seq(Rows), ys : Seq(Rows), vs : Seq(Rows)]

\* The time from which nothing has been predicted yet.
Ahead == IF pc \in Busy THEN now ELSE now + 1

LoopTypes ==
  /\ mode \in Modes /\ now \in Nat /\ now <= MaxTime
  /\ pc \in Busy \union {"idle", "save"}
  /\ pc \in Busy => now \in Times
  /\ model \in Models
  /\ refit \in Refits
  /\ fits \in Nat
  /\ (mode # "LIVE" => refit.at = "none")

\* What is learned: nothing ahead of time, everything once.
DataInv ==
  /\ TrackerInv(tracker, Ahead)
  /\ TrackerInv(disk, Ahead)
  /\ BufferInv(model.buffer, tracker.preds, Ahead)

\* How far the fit under way has replaced the model.
FitInv ==
  /\ refit.at \in Reading /\ Answers(model) => IsWhole(model)
  /\ refit.at = "trainEns" => ~model.ens.ok
  /\ refit.at \in Fitting \union {"trainEns"} => model.ens.fit = fits
  /\ refit.at = "trainVol" => ~model.vol.ok
  /\ refit.at \in {"calibrate", "publish"} => model.vol.fit = fits
  /\ refit.at = "publish" => model.hit = fits
  /\ mode # "LIVE" /\ pc = "predict" /\ model.fitted /\ model.ens.ok => model.prior = model.ens.fit
  /\ mode # "LIVE" /\ served.kind = "model"
       => {served.prior, served.vol, served.hit, served.tail} = {served.ens}

\* What the fit under way has read: below the cap the buffer only grows.
ReadInv ==
  /\ refit.at = "readReturns" =>
       /\ Len(refit.xs) <= Len(model.buffer)
       /\ Len(refit.xs) = Len(model.buffer) /\ Len(refit.xs) < BufferMax => refit.xs = model.buffer
  /\ refit.at \in {"readVols", "fit", "trainEns"} =>
       (Len(refit.xs) = Len(refit.ys) /\ Len(refit.xs) < BufferMax => refit.xs = refit.ys)
  /\ refit.at \in Fitting => (Len(refit.xs) < BufferMax => refit.xs = refit.ys)

LearningInv == LoopTypes /\ DataInv /\ FitInv /\ ReadInv

LEMMA LearningInitInv == LearningInit => LearningInv
<1> SUFFICES ASSUME LearningInit PROVE LearningInv
  OBVIOUS
<1> USE DEF LearningInit
<1>1. LoopTypes
  <2>1. NoThread \in Refits /\ NoThread.at = "none"
    BY DEF NoThread, Refits, Places, Reading
  <2>2. 0 \in Nat /\ 0 <= MaxTime
    BY TrackerAssumption
  <2> QED BY <2>1, <2>2, FreshModelIsEmpty DEF LoopTypes, Busy
<1>2. DataInv
  <2>1. Ahead \in Nat
    BY DEF Ahead, Busy
  <2>2. BufferInv(<< >>, EmptyTracker.preds, Ahead)
    BY ModelAssumption DEF BufferInv, Distinct
  <2> QED BY <2>1, <2>2, EmptyTrackerKeeps, FreshModelIsEmpty DEF DataInv
<1>3. FitInv
  BY FreshModelIsEmpty DEF FitInv, NoThread, Answers, Fitting, Fallback
<1>4. ReadInv
  BY DEF ReadInv, NoThread, Fitting
<1> QED BY <1>1, <1>2, <1>3, <1>4 DEF LearningInv

LEMMA NewExamplesAreRows ==
  ASSUME LearningInv, pc = "learn", NEW bar \in {0, now - 1, now}, NEW x \in Features
  PROVE  LET priced   == IF bar = 0 THEN tracker ELSE RecordPrice(tracker, bar)
             recorded == RecordPrediction(priced, now, x)
         IN  /\ TrackerInv(recorded, now + 1)
             /\ BufferInv(model.buffer, recorded.preds, now + 1)
<1> DEFINE priced   == IF bar = 0 THEN tracker ELSE RecordPrice(tracker, bar)
           recorded == RecordPrediction(priced, now, x)
           p        == [anchor |-> now, x |-> x, resolved |-> {}]
<1>1. Ahead = now /\ now \in Times /\ now \in Nat /\ TrackerInv(tracker, now)
      /\ BufferInv(model.buffer, tracker.preds, now)
  BY DEF LearningInv, LoopTypes, DataInv, Ahead, Busy
<1>2. TrackerInv(priced, now) /\ priced.preds = tracker.preds
  <2>1. CASE bar = 0
    BY <1>1, <2>1
  <2>2. CASE bar # 0
    <3>1. bar \in Times
      BY <1>1, <2>2, TrackerAssumption DEF Times
    <3>2. tracker = [preds |-> tracker.preds, bars |-> tracker.bars, outcomes |-> tracker.outcomes]
      BY <1>1, TrackerShape DEF TrackerInv
    <3> QED BY <1>1, <2>2, <3>1, <3>2, RecordPriceKeeps DEF RecordPrice
  <2> QED BY <2>1, <2>2
<1> HIDE DEF priced
<1>3. TrackerInv(recorded, now + 1)
  BY <1>1, <1>2, RecordPredictionKeeps
<1>4. recorded.preds = priced.preds \union {p}
  <2>1. priced = [preds |-> priced.preds, bars |-> priced.bars, outcomes |-> priced.outcomes]
    BY <1>2, TrackerShape DEF TrackerInv
  <2> QED BY <2>1 DEF RecordPrediction
<1>5. p.anchor = now
  OBVIOUS
<1> HIDE DEF recorded, p
<1>6. BufferInv(model.buffer, recorded.preds, now + 1)
  <2>1. SUFFICES ASSUME NEW i \in DOMAIN model.buffer
                 PROVE  /\ model.buffer[i].anchor < now + 1
                        /\ \A q \in recorded.preds : q.anchor = model.buffer[i].anchor => 1 \in q.resolved
    BY <1>1 DEF BufferInv
  <2>2. model.buffer[i] \in Rows /\ model.buffer[i].anchor < now
    BY <1>1 DEF BufferInv
  <2>3. model.buffer[i].anchor \in Times
    BY <2>2 DEF Rows
  <2>4. model.buffer[i].anchor \in Nat
    BY <2>3, TimesAreFinite
  <2>5. \A q \in tracker.preds : q.anchor = model.buffer[i].anchor => 1 \in q.resolved
    BY <1>1 DEF BufferInv
  <2> QED BY <1>1, <1>2, <1>4, <1>5, <2>2, <2>4, <2>5
<1> QED BY <1>3, <1>6 DEF recorded, priced
-----------------------------------------------------------------------------
(* Types                                                                   *)

LEMMA RefitMoves ==
  ASSUME NEW r \in Refits, NEW at \in Places
  PROVE  [r EXCEPT !.at = at] \in Refits
  BY DEF Refits

LEMMA NoThreadIsIdle ==
  NoThread \in Refits /\ NoThread.at = "none" /\ [NoThread EXCEPT !.at = "size"] \in Refits
<1>1. << >> \in Seq(Rows)
  OBVIOUS
<1>2. NoThread \in Refits
  BY <1>1 DEF NoThread, Refits, Places, Reading
<1>3. [NoThread EXCEPT !.at = "size"] \in Refits
  BY <1>2, RefitMoves DEF Places, Reading
<1>4. NoThread.at = "none"
  BY DEF NoThread
<1> QED BY <1>2, <1>3, <1>4

\* The refit thread leaves the cycle its own state (Learning's RefitThread).
LEMMA ThreadGoesOn ==
  ASSUME LoopTypes, CycleGoesOn, refit.at # "none", model' \in Models, refit' \in Refits
  PROVE  LoopTypes'
<1>1. UNCHANGED <<mode, now, pc, fits>>
  BY DEF CycleGoesOn
<1>2. mode = "LIVE"
  BY DEF LoopTypes
<1>3. /\ mode' \in Modes /\ now' \in Nat /\ now' <= MaxTime /\ fits' \in Nat
      /\ pc' \in Busy \union {"idle", "save"} /\ (pc' \in Busy => now' \in Times)
  BY <1>1, Zenon DEF LoopTypes
<1> QED BY <1>1, <1>2, <1>3, Zenon DEF LoopTypes

LEMMA ThreadMoves ==
  ASSUME refit \in Refits, NEW from \in Places, from # "none", NEW to \in Places, Thread(from, to)
  PROVE  refit' \in Refits /\ refit.at # "none"
  BY RefitMoves DEF Thread

LEMMA RefitReads ==
  ASSUME NEW r \in Refits, NEW at \in Places, NEW field \in {"xs", "ys", "vs"}, NEW rows \in Seq(Rows)
  PROVE  [r EXCEPT !.at = at, ![field] = rows] \in Refits
<1>1. [r EXCEPT !.at = at, !["xs"] = rows] \in Refits
  BY DEF Refits
<1>2. [r EXCEPT !.at = at, !["ys"] = rows] \in Refits
  BY DEF Refits
<1>3. [r EXCEPT !.at = at, !["vs"] = rows] \in Refits
  BY DEF Refits
<1> QED BY <1>1, <1>2, <1>3

LEMMA LoopTypesStep ==
  ASSUME LearningInv, LearningNext
  PROVE  LoopTypes'
<1> USE DEF LearningInv, LoopTypes
<1>0. model.buffer \in Seq(Rows)
  BY DEF Models
<1>1. ASSUME NEW elapsed \in 1 .. 2, StartCycle(elapsed) PROVE LoopTypes'
  BY <1>1, TrackerAssumption DEF StartCycle, Busy, Times
<1>2. CASE AnchorPrior
  BY <1>2, SetPriorSets DEF AnchorPrior, Busy
<1>3. CASE PredictStep
  BY <1>3 DEF PredictStep, Busy
<1>4. CASE NoRefit
  BY <1>4 DEF NoRefit, Busy
<1>5. CASE SpawnRefit
  <2>1. CASE mode = "LIVE"
    <3>1. /\ refit' = [NoThread EXCEPT !.at = "size"] /\ fits' = fits + 1
          /\ pc = "govern" /\ pc' = "learn" /\ UNCHANGED <<mode, now, model>>
      BY <1>5, <2>1 DEF SpawnRefit
    <3>2. refit' \in Refits
      BY <3>1, NoThreadIsIdle
    <3> QED BY <2>1, <3>1, <3>2 DEF Busy
  <2>2. CASE mode # "LIVE"
    <3>1. RefitNow(model, fits + 1, now) \in Models
      BY RefitNowSets
    <3> QED BY <1>5, <2>2, <3>1 DEF SpawnRefit, Busy
  <2> QED BY <2>1, <2>2
<1>6. ASSUME NEW bar \in {0, now - 1, now}, NEW x \in Features, PostTradeLearning(bar, x) PROVE LoopTypes'
  <2> DEFINE recorded == RecordPrediction(IF bar = 0 THEN tracker ELSE RecordPrice(tracker, bar), now, x)
  <2>1. TrackerInv(recorded, now + 1) /\ now + 1 \in Nat
    BY <1>6, NewExamplesAreRows DEF PostTradeLearning
  <2>2. model' = Remember(model, NewExamples(recorded))
    BY <1>6 DEF PostTradeLearning
  <2> HIDE DEF recorded
  <2>3. NewExamples(recorded) \in Seq(Rows)
    BY <2>1, NewExamplesAreTaught
  <2>4. model' \in Models
    BY <2>2, <2>3, RememberSets
  <2> QED BY <1>6, <2>4 DEF PostTradeLearning, Busy
<1>7. CASE SaveTracker
  BY <1>7 DEF SaveTracker, Busy
<1>8. CASE CrashRestart
  <2>1. /\ model' = FreshModel /\ refit' = NoThread /\ pc' = "idle" /\ UNCHANGED <<mode, now, fits>>
    BY <1>8 DEF CrashRestart
  <2> QED BY <2>1, FreshModelIsEmpty, NoThreadIsIdle DEF Busy
<1>9. CASE CheckSize
  <2>1. \E to \in {"none", "readX"} : Thread("size", to) /\ model' = model /\ CycleGoesOn
    BY <1>9 DEF CheckSize
  <2> QED BY <2>1, ThreadMoves, ThreadGoesOn DEF Places, Reading
<1>10. CASE ReadRows("readX", "readReturns", "xs")
  <2>1. refit.at = "readX" /\ model' = model /\ CycleGoesOn
        /\ refit' = [refit EXCEPT !.at = "readReturns", !["xs"] = model.buffer] /\ "readReturns" \in Places
    BY <1>10 DEF ReadRows, Places, Reading
  <2>2. refit' \in Refits
    BY <1>0, <2>1, RefitReads
  <2> QED BY <2>1, <2>2, ThreadGoesOn
<1>11. CASE ReadRows("readReturns", "readVols", "ys")
  <2>1. refit.at = "readReturns" /\ model' = model /\ CycleGoesOn
        /\ refit' = [refit EXCEPT !.at = "readVols", !["ys"] = model.buffer] /\ "readVols" \in Places
    BY <1>11 DEF ReadRows, Places, Reading
  <2>2. refit' \in Refits
    BY <1>0, <2>1, RefitReads
  <2> QED BY <2>1, <2>2, ThreadGoesOn
<1>12. CASE ReadRows("readVols", "fit", "vs")
  <2>1. refit.at = "readVols" /\ model' = model /\ CycleGoesOn
        /\ refit' = [refit EXCEPT !.at = "fit", !["vs"] = model.buffer] /\ "fit" \in Places
    BY <1>12 DEF ReadRows, Places, Reading
  <2>2. refit' \in Refits
    BY <1>0, <2>1, RefitReads
  <2> QED BY <2>1, <2>2, ThreadGoesOn
<1>13. CASE ReplaceEnsemble
  <2>1. Thread("fit", "trainEns") /\ model' = InstallEnsemble(model, fits) /\ CycleGoesOn
    BY <1>13 DEF ReplaceEnsemble
  <2>2. model' \in Models
    BY <2>1, InstallEnsembleSets
  <2> QED BY <2>1, <2>2, ThreadMoves, ThreadGoesOn DEF Places, Reading, Fitting
<1>14. CASE TrainEnsembleStep
  <2>1. refit.at = "trainEns" /\ CycleGoesOn
        /\ \/ refit' = NoThread /\ model' = model
           \/ Thread("trainEns", "replaceVol") /\ model' = TrainEnsemble(model)
    BY <1>14 DEF TrainEnsembleStep
  <2>2. model' \in Models
    BY <2>1, TrainEnsembleSets
  <2>3. refit' \in Refits
    BY <2>1, NoThreadIsIdle, ThreadMoves DEF Places, Reading, Fitting
  <2> QED BY <2>1, <2>2, <2>3, ThreadGoesOn
<1>15. CASE ReplaceVol
  <2>1. Thread("replaceVol", "trainVol") /\ model' = InstallVol(model, fits) /\ CycleGoesOn
    BY <1>15 DEF ReplaceVol
  <2>2. model' \in Models
    BY <2>1, InstallVolSets
  <2> QED BY <2>1, <2>2, ThreadMoves, ThreadGoesOn DEF Places, Reading, Fitting
<1>16. CASE TrainVolStep
  <2>1. refit.at = "trainVol" /\ CycleGoesOn
        /\ \/ refit' = NoThread /\ model' = model
           \/ Thread("trainVol", "calibrate") /\ model' = TrainVol(model, fits)
    BY <1>16 DEF TrainVolStep
  <2>2. model' \in Models
    BY <2>1, TrainVolSets
  <2>3. refit' \in Refits
    BY <2>1, NoThreadIsIdle, ThreadMoves DEF Places, Reading, Fitting
  <2> QED BY <2>1, <2>2, <2>3, ThreadGoesOn
<1>17. CASE CalibrateStep
  <2>1. Thread("calibrate", "publish") /\ model' = CalibrateHit(model, fits) /\ CycleGoesOn
    BY <1>17 DEF CalibrateStep
  <2>2. model' \in Models
    BY <2>1, CalibrateHitSets
  <2> QED BY <2>1, <2>2, ThreadMoves, ThreadGoesOn DEF Places, Reading, Fitting
<1>18. CASE PublishStep
  <2>1. refit.at = "publish" /\ model' = Publish(model, fits, now) /\ refit' = NoThread /\ CycleGoesOn
    BY <1>18 DEF PublishStep
  <2>2. model' \in Models
    BY <2>1, PublishSets
  <2> QED BY <2>1, <2>2, NoThreadIsIdle, ThreadGoesOn
<1> QED BY <1>1, <1>2, <1>3, <1>4, <1>5, <1>6, <1>7, <1>8, <1>9, <1>10, <1>11, <1>12, <1>13, <1>14, <1>15, <1>16, <1>17, <1>18 DEF LearningNext, RefitThread
-----------------------------------------------------------------------------
(* What is learned                                                         *)

LEMMA BufferGoesOn ==
  ASSUME NEW buffer, NEW preds, NEW next \in Nat, NEW later \in Nat, next <= later,
         BufferInv(buffer, preds, next)
  PROVE  BufferInv(buffer, preds, later)
<1>1. \A i \in DOMAIN buffer : buffer[i].anchor \in Nat
  <2>1. \A i \in DOMAIN buffer : buffer[i] \in Rows
    BY DEF BufferInv
  <2>2. \A i \in DOMAIN buffer : buffer[i].anchor \in Times
    BY <2>1 DEF Rows
  <2> QED BY <2>2, TimesAreFinite
<1>2. \A i \in DOMAIN buffer : buffer[i].anchor < later
  BY <1>1 DEF BufferInv
<1> QED BY <1>2 DEF BufferInv

LEMMA DataIsKept ==
  ASSUME LearningInv, UNCHANGED <<tracker, disk>>, model'.buffer = model.buffer,
         Ahead' \in Nat, Ahead <= Ahead'
  PROVE  DataInv'
<1>1. Ahead \in Nat
  BY DEF LearningInv, LoopTypes, Ahead
<1>2. TrackerInv(tracker, Ahead') /\ TrackerInv(disk, Ahead')
  BY <1>1, TimeGoesOn DEF LearningInv, DataInv
<1>3. BufferInv(model.buffer, tracker.preds, Ahead')
  BY <1>1, BufferGoesOn DEF LearningInv, DataInv
<1> QED BY <1>2, <1>3 DEF DataInv

LEMMA ThreadKeepsData ==
  ASSUME LearningInv, CycleGoesOn, model'.buffer = model.buffer
  PROVE  DataInv'
<1>1. UNCHANGED <<tracker, disk>> /\ Ahead' = Ahead
  BY DEF CycleGoesOn, Ahead
<1>2. Ahead \in Nat
  BY DEF LearningInv, LoopTypes, Ahead
<1> QED BY <1>1, <1>2, DataIsKept

LEMMA DataInvStep ==
  ASSUME LearningInv, LearningNext
  PROVE  DataInv'
<1> USE DEF LearningInv, LoopTypes
<1>0. Ahead \in Nat /\ now \in Nat
  BY DEF Ahead
<1>1. ASSUME NEW elapsed \in 1 .. 2, StartCycle(elapsed) PROVE DataInv'
  BY <1>1, <1>0, DataIsKept DEF StartCycle, Busy, Ahead
<1>2. CASE AnchorPrior
  BY <1>2, <1>0, SetPriorSets, DataIsKept DEF AnchorPrior, Busy, Ahead, SameBut
<1>3. CASE PredictStep
  BY <1>3, <1>0, DataIsKept DEF PredictStep, Busy, Ahead
<1>4. CASE NoRefit
  BY <1>4, <1>0, DataIsKept DEF NoRefit, Busy, Ahead
<1>5. CASE SpawnRefit
  <2>1. model'.buffer = model.buffer
    <3>1. RefitNow(model, fits + 1, now).buffer = model.buffer
      BY RefitNowSets DEF SameBut
    <3> QED BY <1>5, <3>1 DEF SpawnRefit
  <2> QED BY <1>5, <1>0, <2>1, DataIsKept DEF SpawnRefit, Busy, Ahead
<1>6. ASSUME NEW bar \in {0, now - 1, now}, NEW x \in Features, PostTradeLearning(bar, x) PROVE DataInv'
  <2> DEFINE recorded == RecordPrediction(IF bar = 0 THEN tracker ELSE RecordPrice(tracker, bar), now, x)
  <2>1. TrackerInv(recorded, now + 1) /\ BufferInv(model.buffer, recorded.preds, now + 1)
    BY <1>6, NewExamplesAreRows DEF PostTradeLearning
  <2>2. /\ model' = Remember(model, NewExamples(recorded)) /\ tracker' = EvaluateSignal(recorded)
        /\ pc = "learn" /\ pc' = "save" /\ UNCHANGED <<now, disk>>
    BY <1>6 DEF PostTradeLearning
  <2> HIDE DEF recorded
  <2>3. NewExamples(recorded) \in Seq(Rows)
    BY <1>0, <2>1, NewExamplesAreTaught
  <2>4. model'.buffer = Newest(model.buffer \o NewExamples(recorded))
    BY <2>2, <2>3, RememberSets
  <2>5. Ahead = now /\ Ahead' = now + 1
    BY <2>2 DEF Ahead, Busy
  <2>6. TrackerInv(disk, now + 1)
    BY <1>0, <2>5, TimeGoesOn DEF DataInv
  <2>7. TrackerInv(EvaluateSignal(recorded), now + 1)
    BY <1>0, <2>1, EvaluateSignalKeeps
  <2>8. BufferInv(Newest(model.buffer \o NewExamples(recorded)), EvaluateSignal(recorded).preds, now + 1)
    BY <1>0, <2>1, LearnedRowsAreDistinct
  <2> QED BY <2>2, <2>4, <2>5, <2>6, <2>7, <2>8 DEF DataInv
<1>7. CASE SaveTracker
  <2>1. TrackerInv(DumpTracker(tracker, Retention), Ahead)
    BY <1>0, DumpTrackerKeeps DEF DataInv
  <2>2. Ahead' = Ahead /\ disk' = DumpTracker(tracker, Retention) /\ UNCHANGED <<tracker, model>>
    BY <1>7 DEF SaveTracker, Ahead, Busy
  <2> QED BY <2>1, <2>2 DEF DataInv
<1>8. CASE CrashRestart
  <2>1. Ahead' = now + 1 /\ tracker' = disk /\ disk' = disk /\ model'.buffer = << >>
    BY <1>8, FreshModelIsEmpty DEF CrashRestart, Ahead, Busy
  <2>2. TrackerInv(disk, now + 1)
    BY <1>0, TimeGoesOn DEF DataInv, Ahead
  <2>3. BufferInv(<< >>, disk.preds, now + 1)
    BY ModelAssumption DEF BufferInv, Distinct
  <2> QED BY <2>1, <2>2, <2>3 DEF DataInv
<1>9. CASE CheckSize
  BY <1>9, ThreadKeepsData DEF CheckSize
<1>10. CASE ReadRows("readX", "readReturns", "xs")
  BY <1>10, ThreadKeepsData DEF ReadRows
<1>11. CASE ReadRows("readReturns", "readVols", "ys")
  BY <1>11, ThreadKeepsData DEF ReadRows
<1>12. CASE ReadRows("readVols", "fit", "vs")
  BY <1>12, ThreadKeepsData DEF ReadRows
<1>13. CASE ReplaceEnsemble
  <2>1. model'.buffer = model.buffer
    BY <1>13, <1>0, PartsKeepTheBuffer DEF ReplaceEnsemble
  <2> QED BY <1>13, <2>1, ThreadKeepsData DEF ReplaceEnsemble
<1>14. CASE TrainEnsembleStep
  <2>1. model'.buffer = model.buffer
    BY <1>14, <1>0, PartsKeepTheBuffer DEF TrainEnsembleStep
  <2> QED BY <1>14, <2>1, ThreadKeepsData DEF TrainEnsembleStep
<1>15. CASE ReplaceVol
  <2>1. model'.buffer = model.buffer
    BY <1>15, <1>0, PartsKeepTheBuffer DEF ReplaceVol
  <2> QED BY <1>15, <2>1, ThreadKeepsData DEF ReplaceVol
<1>16. CASE TrainVolStep
  <2>1. model'.buffer = model.buffer
    BY <1>16, <1>0, PartsKeepTheBuffer DEF TrainVolStep
  <2> QED BY <1>16, <2>1, ThreadKeepsData DEF TrainVolStep
<1>17. CASE CalibrateStep
  <2>1. model'.buffer = model.buffer
    BY <1>17, <1>0, PartsKeepTheBuffer DEF CalibrateStep
  <2> QED BY <1>17, <2>1, ThreadKeepsData DEF CalibrateStep
<1>18. CASE PublishStep
  <2>1. model'.buffer = model.buffer
    BY <1>18, <1>0, PartsKeepTheBuffer DEF PublishStep
  <2> QED BY <1>18, <2>1, ThreadKeepsData DEF PublishStep
<1> QED BY <1>1, <1>2, <1>3, <1>4, <1>5, <1>6, <1>7, <1>8, <1>9, <1>10, <1>11, <1>12, <1>13, <1>14, <1>15, <1>16, <1>17, <1>18 DEF LearningNext, RefitThread
-----------------------------------------------------------------------------
(* Which fit answers                                                       *)

LEMMA FitInvStep ==
  ASSUME LearningInv, LearningNext
  PROVE  FitInv'
<1> USE DEF LearningInv, LoopTypes
<1>0. \A part \in Parts : part = [fit |-> part.fit, ok |-> part.ok]
  BY DEF Parts
<1>1. ASSUME NEW elapsed \in 1 .. 2, StartCycle(elapsed) PROVE FitInv'
  BY <1>1 DEF StartCycle, FitInv, Answers, IsWhole, Reading, Fitting
<1>2. CASE AnchorPrior
  BY <1>2, SetPriorSets DEF AnchorPrior, SameBut, FitInv, Answers, IsWhole, Reading, Fitting
<1>3. CASE PredictStep
  BY <1>3 DEF PredictStep, Predict, Fallback, FitInv, Answers, IsWhole, Reading, Fitting
<1>4. CASE NoRefit
  BY <1>4 DEF NoRefit, FitInv, Answers, IsWhole, Reading, Fitting
<1>5. CASE SpawnRefit
  <2>1. CASE mode = "LIVE"
    BY <1>5, <2>1 DEF SpawnRefit, NoThread, FitInv, Answers, IsWhole, Reading, Fitting
  <2>2. CASE mode # "LIVE"
    <3> DEFINE n == RefitNow(model, fits + 1, now)
    <3>1. n = model \/ ~n.ens.ok \/ IsWhole(n)
      BY RefitNowSets
    <3>2. /\ model' = n /\ refit' = refit /\ served' = served /\ pc' = "learn" /\ refit.at = "none"
          /\ UNCHANGED mode
      BY <1>5, <2>2 DEF SpawnRefit
    <3> HIDE DEF n
    <3>3. ~Answers(n) \/ IsWhole(n)
      BY <3>1, <3>2 DEF FitInv, Reading, Answers
    <3>4. refit'.at \in Reading /\ Answers(model') => IsWhole(model')
      BY <3>2, <3>3
    <3> QED BY <2>2, <3>2, <3>4 DEF FitInv, Fitting
  <2> QED BY <2>1, <2>2
<1>6. ASSUME NEW bar \in {0, now - 1, now}, NEW x \in Features, PostTradeLearning(bar, x) PROVE FitInv'
  <2> DEFINE recorded == RecordPrediction(IF bar = 0 THEN tracker ELSE RecordPrice(tracker, bar), now, x)
  <2>1. TrackerInv(recorded, now + 1) /\ now + 1 \in Nat
    BY <1>6, NewExamplesAreRows DEF PostTradeLearning
  <2>2. /\ model' = Remember(model, NewExamples(recorded)) /\ pc' = "save"
        /\ UNCHANGED <<mode, refit, fits, served>>
    BY <1>6 DEF PostTradeLearning
  <2> HIDE DEF recorded
  <2>3. NewExamples(recorded) \in Seq(Rows)
    BY <2>1, NewExamplesAreTaught
  <2>4. SameBut(model, model', {"buffer"})
    BY <2>2, <2>3, RememberSets
  <2> QED BY <2>2, <2>4 DEF SameBut, FitInv, Answers, IsWhole, Reading, Fitting
<1>7. CASE SaveTracker
  BY <1>7 DEF SaveTracker, FitInv, Answers, IsWhole, Reading, Fitting
<1>8. CASE CrashRestart
  BY <1>8, FreshModelIsEmpty, NoThreadIsIdle DEF CrashRestart, Fallback, FitInv, Answers, IsWhole, Reading, Fitting
<1>9. CASE CheckSize
  BY <1>9, NoThreadIsIdle DEF CheckSize, Thread, CycleGoesOn, SameBut, Refits, Places, FitInv, Answers, IsWhole, Reading, Fitting
<1>10. CASE ReadRows("readX", "readReturns", "xs")
  BY <1>10 DEF ReadRows, CycleGoesOn, Refits, Places, FitInv, Answers, IsWhole, Reading, Fitting
<1>11. CASE ReadRows("readReturns", "readVols", "ys")
  BY <1>11 DEF ReadRows, CycleGoesOn, Refits, Places, FitInv, Answers, IsWhole, Reading, Fitting
<1>12. CASE ReadRows("readVols", "fit", "vs")
  BY <1>12 DEF ReadRows, CycleGoesOn, Refits, Places, FitInv, Answers, IsWhole, Reading, Fitting
<1>13. CASE ReplaceEnsemble
  <2>1. refit.at = "fit" /\ refit'.at = "trainEns" /\ mode = "LIVE" /\ UNCHANGED <<mode, fits>>
    BY <1>13 DEF ReplaceEnsemble, Thread, CycleGoesOn, NoThread, Refits, Places
  <2>2. model'.ens = [fit |-> fits, ok |-> FALSE] /\ model'.vol = model.vol /\ model'.hit = model.hit /\ model'.tail = model.tail
    BY <1>13, InstallEnsembleSets DEF ReplaceEnsemble, SameBut
  <2> QED BY <2>1, <2>2 DEF FitInv, Answers, IsWhole, Reading, Fitting
<1>14. CASE TrainEnsembleStep
  <2>1. refit.at = "trainEns" /\ mode = "LIVE" /\ UNCHANGED <<mode, fits>>
    BY <1>14 DEF TrainEnsembleStep, CycleGoesOn
  <2>2. CASE EnsembleRaises(refit.xs, refit.ys)
    <3>1. refit'.at = "none" /\ model' = model
      BY <1>14, <2>2 DEF TrainEnsembleStep, NoThread
    <3> QED BY <2>1, <3>1 DEF FitInv, Answers, IsWhole, Reading, Fitting
  <2>3. CASE ~EnsembleRaises(refit.xs, refit.ys)
    <3>1. refit'.at = "replaceVol" /\ model' = TrainEnsemble(model)
      BY <1>14, <2>3 DEF TrainEnsembleStep, Thread, Refits, Places
    <3>2. model'.ens.fit = fits
      <4>1. model.ens.fit = fits
        BY <2>1 DEF FitInv
      <4>2. model'.ens = [fit |-> model.ens.fit, ok |-> TRUE]
        BY <3>1, TrainEnsembleSets
      <4> QED BY <4>1, <4>2
    <3> QED BY <2>1, <3>1, <3>2 DEF FitInv, Answers, IsWhole, Reading, Fitting
  <2> QED BY <2>2, <2>3
<1>15. CASE ReplaceVol
  <2>1. refit.at = "replaceVol" /\ refit'.at = "trainVol" /\ mode = "LIVE" /\ UNCHANGED <<mode, fits>>
    BY <1>15 DEF ReplaceVol, Thread, CycleGoesOn, NoThread, Refits, Places
  <2>2. model'.vol = [fit |-> fits, ok |-> FALSE] /\ model'.ens = model.ens /\ model'.hit = model.hit /\ model'.tail = model.tail
    BY <1>15, InstallVolSets DEF ReplaceVol, SameBut
  <2> QED BY <2>1, <2>2 DEF FitInv, Answers, IsWhole, Reading, Fitting
<1>16. CASE TrainVolStep
  <2>1. refit.at = "trainVol" /\ mode = "LIVE" /\ UNCHANGED <<mode, fits>>
    BY <1>16 DEF TrainVolStep, CycleGoesOn
  <2>2. CASE VolRaises(refit.xs, refit.vs)
    <3>1. refit'.at = "none" /\ model' = model
      BY <1>16, <2>2 DEF TrainVolStep, NoThread
    <3> QED BY <2>1, <3>1 DEF FitInv, Answers, IsWhole, Reading, Fitting
  <2>3. CASE ~VolRaises(refit.xs, refit.vs)
    <3>1. refit'.at = "calibrate" /\ model' = TrainVol(model, fits)
      BY <1>16, <2>3 DEF TrainVolStep, Thread, Refits, Places
    <3>2. model'.vol = [fit |-> fits, ok |-> TRUE] /\ model'.ens = model.ens
      BY <3>1, TrainVolSets DEF SameBut
    <3> QED BY <2>1, <3>1, <3>2 DEF FitInv, Answers, IsWhole, Reading, Fitting
  <2> QED BY <2>2, <2>3
<1>17. CASE CalibrateStep
  <2>1. refit.at = "calibrate" /\ refit'.at = "publish" /\ mode = "LIVE" /\ UNCHANGED <<mode, fits>>
    BY <1>17 DEF CalibrateStep, Thread, CycleGoesOn, NoThread, Refits, Places
  <2>2. model'.hit = fits /\ model'.ens = model.ens /\ model'.vol = model.vol /\ model'.tail = model.tail
    BY <1>17, CalibrateHitSets DEF CalibrateStep, SameBut
  <2> QED BY <2>1, <2>2 DEF FitInv, Answers, IsWhole, Reading, Fitting
<1>18. CASE PublishStep
  <2>1. refit.at = "publish" /\ refit'.at = "none" /\ mode = "LIVE" /\ UNCHANGED <<mode, fits>>
    BY <1>18 DEF PublishStep, Thread, CycleGoesOn, NoThread, Refits, Places
  <2>2. model'.tail = fits /\ model'.ens = model.ens /\ model'.vol = model.vol /\ model'.hit = model.hit
    BY <1>18, PublishSets DEF PublishStep, SameBut
  <2> QED BY <2>1, <2>2 DEF FitInv, Answers, IsWhole, Reading, Fitting
<1> QED BY <1>1, <1>2, <1>3, <1>4, <1>5, <1>6, <1>7, <1>8, <1>9, <1>10, <1>11, <1>12, <1>13, <1>14, <1>15, <1>16, <1>17, <1>18 DEF LearningNext, RefitThread

-----------------------------------------------------------------------------
(* What a fit reads                                                        *)

LEMMA BufferGrows ==
  ASSUME NEW buffer \in Seq(Rows), Len(buffer) <= BufferMax, NEW rows \in Seq(Rows)
  PROVE  LET more == Newest(buffer \o rows)
         IN  Len(buffer) <= Len(more) /\ (Len(more) = Len(buffer) /\ Len(more) < BufferMax => more = buffer)
<1> DEFINE all  == buffer \o rows
           more == Newest(all)
<1>1. all \in Seq(Rows) /\ Len(all) = Len(buffer) + Len(rows) /\ Len(buffer) \in Nat /\ Len(rows) \in Nat
  OBVIOUS
<1>2. Len(more) = IF Len(all) > BufferMax THEN BufferMax ELSE Len(all)
  <2>1. Len(more) = Len(all) - (IF Len(all) > BufferMax THEN Len(all) - BufferMax ELSE 0)
    <3> HIDE DEF all
    <3> QED BY <1>1, NewestAreLast
  <2> HIDE DEF all, more
  <2>2. Len(all) \in Int /\ BufferMax \in Int
    BY <1>1, ModelAssumption
  <2> QED BY <2>1, <2>2
<1>3. ASSUME Len(more) = Len(buffer), Len(more) < BufferMax PROVE more = buffer
  <2>1. Len(rows) = 0 /\ Len(all) <= BufferMax
    BY <1>1, <1>2, <1>3, ModelAssumption
  <2>2. rows = << >>
    BY <2>1
  <2>3. all = buffer
    BY <2>2
  <2>4. more = SubSeq(all, 1, Len(all))
    <3>1. ~(Len(all) > BufferMax)
      BY <1>1, <2>1, ModelAssumption
    <3> HIDE DEF all
    <3> QED BY <3>1 DEF Newest
  <2> QED BY <2>3, <2>4
<1>4. Len(buffer) <= Len(more)
  BY <1>1, <1>2, ModelAssumption
<1> QED BY <1>3, <1>4

LEMMA ReadIsKept ==
  ASSUME LearningInv, UNCHANGED refit, model'.buffer = model.buffer PROVE ReadInv'
  BY DEF LearningInv, ReadInv

LEMMA ReadInvStep ==
  ASSUME LearningInv, LearningNext
  PROVE  ReadInv'
<1> USE DEF LearningInv, LoopTypes
<1>0. Len(model.buffer) <= BufferMax /\ model.buffer \in Seq(Rows)
  BY DEF DataInv, BufferInv
<1>1. ASSUME NEW elapsed \in 1 .. 2, StartCycle(elapsed) PROVE ReadInv'
  BY <1>1, ReadIsKept DEF StartCycle
<1>2. CASE AnchorPrior
  BY <1>2, SetPriorSets, ReadIsKept DEF AnchorPrior, SameBut
<1>3. CASE PredictStep
  BY <1>3, ReadIsKept DEF PredictStep
<1>4. CASE NoRefit
  BY <1>4, ReadIsKept DEF NoRefit
<1>5. CASE SpawnRefit
  BY <1>5 DEF SpawnRefit, NoThread, ReadInv, Reading, Fitting
<1>6. ASSUME NEW bar \in {0, now - 1, now}, NEW x \in Features, PostTradeLearning(bar, x) PROVE ReadInv'
  <2> DEFINE recorded == RecordPrediction(IF bar = 0 THEN tracker ELSE RecordPrice(tracker, bar), now, x)
  <2>1. TrackerInv(recorded, now + 1) /\ now + 1 \in Nat
    BY <1>6, NewExamplesAreRows DEF PostTradeLearning
  <2>2. model' = Remember(model, NewExamples(recorded)) /\ refit' = refit
    BY <1>6 DEF PostTradeLearning
  <2> HIDE DEF recorded
  <2> DEFINE rows == NewExamples(recorded)
             more == Newest(model.buffer \o rows)
  <2>3. rows \in Seq(Rows)
    BY <2>1, NewExamplesAreTaught
  <2>4. model'.buffer = more
    BY <2>2, <2>3, RememberSets
  <2>5. Len(model.buffer) <= Len(more)
        /\ (Len(more) = Len(model.buffer) /\ Len(more) < BufferMax => more = model.buffer)
    BY <1>0, <2>3, BufferGrows
  <2>6. more \in Seq(Rows) /\ refit.xs \in Seq(Rows)
    <3>1. model.buffer \o rows \in Seq(Rows)
      BY <1>0, <2>3
    <3> HIDE DEF rows
    <3> QED BY <3>1, NewestAreLast DEF Refits, Places
  <2> HIDE DEF more
  <2>7. Len(more) \in Nat /\ Len(refit.xs) \in Nat /\ Len(model.buffer) \in Nat
    BY <1>0, <2>6
  <2> QED BY <2>2, <2>4, <2>5, <2>7 DEF ReadInv
<1>7. CASE SaveTracker
  BY <1>7, ReadIsKept DEF SaveTracker
<1>8. CASE CrashRestart
  BY <1>8, NoThreadIsIdle DEF CrashRestart, ReadInv, Reading, Fitting
<1>9. CASE CheckSize
  BY <1>9, NoThreadIsIdle DEF CheckSize, Thread, Refits, Places, ReadInv, Reading, Fitting
<1>10. CASE ReadRows("readX", "readReturns", "xs")
  BY <1>10, <1>0 DEF ReadRows, Refits, Places, ReadInv, Reading, Fitting
<1>11. CASE ReadRows("readReturns", "readVols", "ys")
  BY <1>11, <1>0 DEF ReadRows, Refits, Places, ReadInv, Reading, Fitting
<1>12. CASE ReadRows("readVols", "fit", "vs")
  BY <1>12, <1>0 DEF ReadRows, Refits, Places, ReadInv, Reading, Fitting
<1>13. CASE ReplaceEnsemble
  BY <1>13, NoThreadIsIdle DEF ReplaceEnsemble, Thread, Refits, Places, ReadInv, Reading, Fitting
<1>14. CASE TrainEnsembleStep
  BY <1>14, NoThreadIsIdle DEF TrainEnsembleStep, Thread, EnsembleRaises, Refits, Places, ReadInv, Reading, Fitting
<1>15. CASE ReplaceVol
  BY <1>15, NoThreadIsIdle DEF ReplaceVol, Thread, Refits, Places, ReadInv, Reading, Fitting
<1>16. CASE TrainVolStep
  BY <1>16, NoThreadIsIdle DEF TrainVolStep, Thread, Refits, Places, ReadInv, Reading, Fitting
<1>17. CASE CalibrateStep
  BY <1>17, NoThreadIsIdle DEF CalibrateStep, Thread, Refits, Places, ReadInv, Reading, Fitting
<1>18. CASE PublishStep
  BY <1>18, NoThreadIsIdle DEF PublishStep, Thread, Refits, Places, ReadInv, Reading, Fitting
<1> QED BY <1>1, <1>2, <1>3, <1>4, <1>5, <1>6, <1>7, <1>8, <1>9, <1>10, <1>11, <1>12, <1>13, <1>14, <1>15, <1>16, <1>17, <1>18 DEF LearningNext, RefitThread
-----------------------------------------------------------------------------
(* Theorems                                                                *)

LEMMA LearningInvEver == LearningSpec => []LearningInv
<1>1. LearningInv /\ [LearningNext]_learning => LearningInv'
  <2>1. SUFFICES ASSUME LearningInv, [LearningNext]_learning PROVE LearningInv'
    OBVIOUS
  <2>2. CASE LearningNext
    BY <2>1, <2>2, LoopTypesStep, DataInvStep, FitInvStep, ReadInvStep DEF LearningInv
  <2>3. CASE UNCHANGED learning
    BY <2>1, <2>3 DEF learning, LearningInv, LoopTypes, DataInv, FitInv, ReadInv, Ahead
  <2> QED BY <2>1, <2>2, <2>3
<1> QED BY <1>1, LearningInitInv, PTL DEF LearningSpec

\* An outcome is learned once however cycles, saves, retention prunes, crashes and restores
\* interleave: as long as its prediction is kept it is counted once iff its horizon is marked, and no
\* row is twice in the training buffer (PerformanceTracker.evaluate_signal, _dump_tracker).
THEOREM OutcomesLearnedOnceEver == LearningSpec => []OutcomesLearnedOnce
<1>1. LearningInv => OutcomesLearnedOnce
  BY DEF LearningInv, DataInv, TrackerInv, BufferInv, Distinct, OutcomesLearnedOnce
<1> QED BY <1>1, LearningInvEver, PTL

\* No label is taken before its horizon or looks past it, for any bars that come late or not at all,
\* any horizons and any retention (_price_asof, _has_elapsed).
THEOREM LabelsSpanTheHorizonEver == LearningSpec => []LabelsSpanTheHorizon
<1>1. LearningInv => LabelsSpanTheHorizon
  BY DEF LearningInv, DataInv, BufferInv, Spans, LabelsSpanTheHorizon
<1> QED BY <1>1, LearningInvEver, PTL

\* Parts of two fits never answer together once the fit that replaces them is over, however it ended
\* and wherever the refit thread stood when the process died (MLReturnModel.fit).
THEOREM OneFitAnswersEver == LearningSpec => []OneFitAnswers
<1>1. LearningInv => OneFitAnswers
  BY DEF LearningInv, LoopTypes, FitInv, Reading, OneFitAnswers
<1> QED BY <1>1, LearningInvEver, PTL

\* A fit that completed paired every row with its own outcome unless the buffer was at its cap, for
\* every cap and every interleaving of cycles with the passes of the refit thread (refit).
THEOREM ShortBuffersFitAlignedEver == LearningSpec => []ShortBuffersFitAligned
<1>1. LearningInv => ShortBuffersFitAligned
  BY DEF LearningInv, ReadInv, Fitting, ShortBuffersFitAligned
<1> QED BY <1>1, LearningInvEver, PTL
==============================================================================
