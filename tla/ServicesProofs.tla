--------------------------- MODULE ServicesProofs ---------------------------
(***************************************************************************)
(* Proofs about the services around the engine: the audit trail and its    *)
(* reconciliation, the model registry, the refits of the regime model, the *)
(* purged walk-forward split, the alert trail and the rate limiter, the    *)
(* control API, the secrets vault and the walk-forward backtest.  Each is  *)
(* proved of its own specification; in the composition of MCServices the   *)
(* services share no variable.                                             *)
(***************************************************************************)
EXTENDS Governance, AuditTrail, RegimeFit, WalkForward, ApiGuard, Vault, Backtest,
        ControlApi, SumLemmas, SequenceTheorems

-----------------------------------------------------------------------------
(* Sequences without their first elements.                                 *)

LEMMA FromOn ==
  ASSUME NEW S, NEW s \in Seq(S), NEW d \in Nat, d <= Len(s)
  PROVE  /\ SubSeq(s, d + 1, Len(s)) \in Seq(S)
         /\ Len(SubSeq(s, d + 1, Len(s))) = Len(s) - d
         /\ \A k \in 1 .. Len(s) - d : SubSeq(s, d + 1, Len(s))[k] = s[d + k]
  OBVIOUS

-----------------------------------------------------------------------------
(* AuditTrail.  The ledger file is one verified chain, for every set of    *)
(* fills, whatever the two threads append and wherever the process dies.   *)

\* Only who holds the lock of a running service is in the middle of an append, and
\* a cycle in progress holds it.
OneWriter ==
    /\ writing = [t \in Threads |-> writing[t]]
    /\ \A t \in Threads : writing[t] # << >> => lock = t /\ process = "up"
    /\ stage # "idle" => lock = "loop"

\* The memory is the file and the line being written.
MemoryIsFile ==
    /\ (\A t \in Threads : writing[t] = << >>) => trail = file
    /\ \A t \in Threads : writing[t] # << >> =>
          \E line : writing[t] = <<line>> /\ trail = Append(file, line)

Chain(lines) == (\E S : lines \in Seq(S)) /\ Verify(lines)

ChainInv ==
    /\ raised \in Nat
    /\ OneWriter
    /\ raised = 0 => /\ Chain(file)
                     /\ process = "up" => Chain(trail) /\ MemoryIsFile

\* A line made by append continues a chain.
LEMMA ChainGrows ==
  ASSUME NEW lines, Chain(lines), NEW event
  PROVE  Chain(Append(lines, [seq |-> Len(lines), event |-> event, prev |-> Hash(lines)]))
<1> DEFINE line == [seq |-> Len(lines), event |-> event, prev |-> Hash(lines)]
           longer == Append(lines, line)
<1>1. PICK S : lines \in Seq(S)
  BY DEF Chain
<1>2. /\ lines \in Seq(S \union {line}) /\ longer \in Seq(S \union {line})
      /\ Len(longer) = Len(lines) + 1 /\ Len(lines) \in Nat
      /\ longer[Len(lines) + 1] = line
      /\ \A i \in 1 .. Len(lines) : longer[i] = lines[i]
  BY <1>1
<1>3. ASSUME NEW i \in 1 .. Len(lines) + 1
      PROVE  SubSeq(longer, 1, i - 1) = SubSeq(lines, 1, i - 1)
  BY <1>1, <1>2
<1>4. SubSeq(lines, 1, Len(lines)) = lines
  BY <1>1
<1>5. \A i \in 1 .. Len(lines) :
        lines[i].seq = i - 1 /\ lines[i].prev = Hash(SubSeq(lines, 1, i - 1))
  BY <1>1 DEF Chain, Verify
<1>6. line.seq = Len(lines) /\ line.prev = Hash(lines)
  OBVIOUS
<1>7. DOMAIN longer = 1 .. Len(lines) + 1
  BY <1>2
<1> HIDE DEF line, longer
<1>8. ASSUME NEW i \in DOMAIN longer
      PROVE  longer[i].seq = i - 1 /\ longer[i].prev = Hash(SubSeq(longer, 1, i - 1))
  <2>1. CASE i \in 1 .. Len(lines)
    <3>1. longer[i] = lines[i] /\ SubSeq(longer, 1, i - 1) = SubSeq(lines, 1, i - 1)
      BY <1>2, <1>3, <2>1
    <3> QED
      BY <1>5, <2>1, <3>1
  <2>2. CASE i = Len(lines) + 1
    <3>1. longer[i] = line /\ SubSeq(longer, 1, i - 1) = lines /\ i - 1 = Len(lines)
      BY <1>2, <1>3, <1>4, <2>2
    <3> QED
      BY <1>6, <3>1
  <2> QED
    BY <1>2, <1>7, <2>1, <2>2
<1>9. Chain(longer)
  BY <1>2, <1>8 DEF Chain, Verify
<1> QED
  BY <1>9 DEF longer, line

\* One step of any thread, of the broker or of a crash.
LEMMA ChainStep == ASSUME ChainInv, [AuditNext]_auditTrail PROVE ChainInv'
<1> USE DEF ChainInv
<1>1. ASSUME NEW t \in Threads, ChainEvent(t) PROVE ChainInv'
  <2> DEFINE line == Chained(Head(todo[t]))
  <2>1. /\ lock = t /\ process = "up" /\ trail' = Append(trail, line)
        /\ writing' = [writing EXCEPT ![t] = <<line>>]
        /\ UNCHANGED <<file, raised, process, lock, stage>>
    BY <1>1 DEF ChainEvent, MayAppend
  <2>2. \A u \in Threads : writing[u] = << >>
    BY <1>1, <2>1 DEF OneWriter, ChainEvent
  <2>3. OneWriter' /\ \A u \in Threads : writing'[u] = IF u = t THEN <<line>> ELSE << >>
    BY <2>1, <2>2 DEF OneWriter
  <2>4. ASSUME raised = 0 PROVE trail = file /\ Chain(trail')
    BY <2>1, <2>2, <2>4, ChainGrows DEF MemoryIsFile, Chained
  <2>5. ASSUME raised = 0 PROVE MemoryIsFile'
    BY <2>1, <2>3, <2>4, <2>5 DEF MemoryIsFile
  <2> QED
    BY <2>1, <2>3, <2>4, <2>5
<1>2. ASSUME NEW t \in Threads, PersistEvent(t) PROVE ChainInv'
  <2>1. /\ process = "up" /\ writing[t] # << >> /\ lock = t
        /\ writing' = [writing EXCEPT ![t] = << >>]
        /\ UNCHANGED <<trail, lock, stage, process>>
    BY <1>2 DEF PersistEvent, OneWriter
  <2>2. OneWriter' /\ \A u \in Threads : writing'[u] = << >>
    BY <2>1 DEF OneWriter
  <2>3. CASE raised' = raised + 1
    BY <2>2, <2>3
  <2>4. CASE file' = file \o writing[t] /\ raised' = raised
    <3>1. ASSUME raised = 0 PROVE trail' = file'
      <4>1. PICK line : writing[t] = <<line>> /\ trail = Append(file, line)
        BY <2>1, <3>1 DEF MemoryIsFile
      <4>2. PICK S : file \in Seq(S)
        BY <3>1 DEF Chain
      <4>3. file \in Seq(S \union {line})
        BY <4>2
      <4> QED
        BY <2>1, <2>4, <4>1, <4>3
    <3> QED
      BY <2>1, <2>2, <2>4, <3>1 DEF MemoryIsFile, Chain
  <2> QED
    BY <1>2, <2>3, <2>4 DEF PersistEvent
<1>3. CASE CrashService
  BY <1>3 DEF CrashService, OneWriter, Idle, Chain
<1>4. CASE LoadTrail
  BY <1>4 DEF LoadTrail, OneWriter, MemoryIsFile, Chain
<1>5. CASE BeginCycle
  <2>1. \A t \in Threads : writing[t] = << >>
    BY <1>5 DEF BeginCycle, OneWriter, Threads
  <2>2. OneWriter'
    BY <1>5, <2>1 DEF BeginCycle, OneWriter
  <2> QED
    BY <1>5, <2>2 DEF BeginCycle, MemoryIsFile, Chain
<1>6. CASE FillUnseen
  BY <1>6 DEF FillUnseen, OneWriter, MemoryIsFile, Chain
<1>7. CASE Reconcile
  BY <1>7 DEF Reconcile, OneWriter, MemoryIsFile, Chain
<1>8. CASE EndCycle
  BY <1>8 DEF EndCycle, Done, OneWriter, MemoryIsFile, Chain, Threads
<1>9. CASE OperatorAsks
  BY <1>9 DEF OperatorAsks, OneWriter, MemoryIsFile, Chain
<1>10. CASE OperatorEnters
  <2>1. \A t \in Threads : writing[t] = << >>
    BY <1>10 DEF OperatorEnters, OneWriter, Threads
  <2>2. OneWriter'
    BY <1>10, <2>1 DEF OperatorEnters, OneWriter
  <2> QED
    BY <1>10, <2>2 DEF OperatorEnters, MemoryIsFile, Chain
<1>11. CASE OperatorLeaves
  BY <1>11 DEF OperatorLeaves, Done, OneWriter, MemoryIsFile, Chain, Threads
<1>12. CASE UNCHANGED auditTrail
  BY <1>12 DEF auditTrail, OneWriter, MemoryIsFile, Chain
<1> QED
  BY <1>1, <1>2, <1>3, <1>4, <1>5, <1>6, <1>7, <1>8, <1>9, <1>10, <1>11, <1>12
  DEF AuditNext

LEMMA ChainStarts == AuditInit => ChainInv
<1>1. << >> \in Seq({})
  OBVIOUS
<1> QED
  BY <1>1 DEF AuditInit, ChainInv, OneWriter, MemoryIsFile, Chain, Verify, Idle

\* The trail is one verified chain on disk, and a running service holds all of it,
\* as long as no write raised (append, _persist, _load under the service lock).
THEOREM TrailIsOneChainEver == AuditSpec => []TrailIsOneChain
<1>1. AuditInit => ChainInv
  BY ChainStarts
<1>2. ChainInv /\ [AuditNext]_auditTrail => ChainInv'
  BY ChainStep
<1>3. ChainInv => TrailIsOneChain
  <2> SUFFICES ASSUME ChainInv, raised = 0, process = "up"
               PROVE  Len(file) <= Len(trail) /\ file = SubSeq(trail, 1, Len(file))
    BY DEF ChainInv, Chain, TrailIsOneChain
  <2>1. PICK S : file \in Seq(S)
    BY DEF ChainInv, Chain
  <2>2. CASE trail = file
    BY <2>1, <2>2
  <2>3. ASSUME NEW line, trail = Append(file, line)
        PROVE  Len(file) <= Len(trail) /\ file = SubSeq(trail, 1, Len(file))
    <3>1. file \in Seq(S \union {line})
      BY <2>1
    <3> QED
      BY <2>3, <3>1
  <2> QED
    BY <2>2, <2>3 DEF ChainInv, MemoryIsFile
<1> QED
  BY <1>1, <1>2, <1>3, PTL DEF AuditSpec

-----------------------------------------------------------------------------
(* AuditTrail, the reconciliation.  It reports a break exactly when what the *)
(* trail lacks amounts to more than the tolerance.                         *)

\* The sequences of one sequence after the other.
Flattens(seqs, k, g) ==
    g = [i \in 1 .. k |-> IF i = 1 THEN seqs[i] ELSE g[i - 1] \o seqs[i]]

LEMMA FlattenExists ==
  ASSUME NEW seqs, NEW n \in Nat
  PROVE  \E g : Flattens(seqs, n, g)
<1> DEFINE G == {k \in 0 .. n : \E g : Flattens(seqs, k, g)}
<1>1. 0 \in G
  <2> DEFINE g == [i \in 1 .. 0 |-> 0]
  <2>1. Flattens(seqs, 0, g)
    BY DEF Flattens
  <2> QED BY <2>1
<1>2. ASSUME NEW k \in 0 .. n - 1, k \in G PROVE k + 1 \in G
  <2>1. PICK g : Flattens(seqs, k, g)
    BY <1>2
  <2> DEFINE last == IF k = 0 THEN seqs[1] ELSE g[k] \o seqs[k + 1]
             h    == [i \in 1 .. k + 1 |-> IF i = k + 1 THEN last ELSE g[i]]
  <2>2. \A i \in 1 .. k : g[i] = IF i = 1 THEN seqs[i] ELSE g[i - 1] \o seqs[i]
    BY <2>1 DEF Flattens
  <2>3. ASSUME NEW i \in 1 .. k + 1
        PROVE  h[i] = IF i = 1 THEN seqs[i] ELSE h[i - 1] \o seqs[i]
    <3>1. CASE i = k + 1
      BY <3>1
    <3>2. CASE i \in 1 .. k
      <4>1. h[i] = g[i] /\ (i # 1 => h[i - 1] = g[i - 1])
        BY <3>2
      <4> QED BY <2>2, <3>2, <4>1
    <3> QED BY <3>1, <3>2
  <2>4. h = [i \in 1 .. k + 1 |-> h[i]]
    OBVIOUS
  <2> HIDE DEF h
  <2>5. Flattens(seqs, k + 1, h)
    BY <2>3, <2>4 DEF Flattens
  <2> QED BY <2>5
<1> HIDE DEF G
<1>3. n \in G
  BY <1>1, <1>2, UpTo
<1> QED BY <1>3 DEF G

LEMMA FlattenTypes ==
  ASSUME NEW S, NEW n \in Nat, NEW seqs, \A i \in 1 .. n : seqs[i] \in Seq(S),
         NEW g, Flattens(seqs, n, g)
  PROVE  \A i \in 1 .. n : g[i] \in Seq(S)
<1> DEFINE G == {k \in 0 .. n : k = 0 \/ g[k] \in Seq(S)}
<1>1. \A i \in 1 .. n : g[i] = IF i = 1 THEN seqs[i] ELSE g[i - 1] \o seqs[i]
  BY DEF Flattens
<1>2. 0 \in G
  OBVIOUS
<1>3. ASSUME NEW i \in 0 .. n - 1, i \in G PROVE i + 1 \in G
  <2>1. i + 1 \in 1 .. n /\ i + 1 \in 0 .. n /\ (i + 1) - 1 = i
    OBVIOUS
  <2>2. g[i + 1] = IF i = 0 THEN seqs[i + 1] ELSE g[i] \o seqs[i + 1]
    BY <1>1, <2>1
  <2>3. g[i + 1] \in Seq(S)
    BY <1>3, <2>1, <2>2
  <2> QED BY <2>1, <2>3
<1> HIDE DEF G
<1>4. \A i \in 0 .. n : i \in G
  BY <1>2, <1>3, UpTo
<1> QED BY <1>4 DEF G

\* It holds what the sequences hold.
LEMMA FlattenIn ==
  ASSUME NEW S, NEW seqs \in Seq(Seq(S))
  PROVE  FlattenSeq(seqs) \in Seq(S)
<1>1. Len(seqs) \in Nat /\ \A i \in 1 .. Len(seqs) : seqs[i] \in Seq(S)
  OBVIOUS
<1>2. CASE Len(seqs) = 0
  <2>1. seqs = << >> /\ << >> \in Seq(S)
    BY <1>2
  <2>2. FlattenSeq(seqs) = seqs
    BY <1>2 DEF FlattenSeq
  <2> QED BY <2>1, <2>2, Zenon
<1>3. CASE Len(seqs) # 0
  <2> DEFINE g == CHOOSE h : Flattens(seqs, Len(seqs), h)
  <2>1. FlattenSeq(seqs) = g[Len(seqs)]
    BY <1>3 DEF FlattenSeq, Flattens
  <2>2. Flattens(seqs, Len(seqs), g)
    BY <1>1, FlattenExists
  <2> HIDE DEF g
  <2>3. \A i \in 1 .. Len(seqs) : g[i] \in Seq(S)
    BY <1>1, <2>2, FlattenTypes
  <2> QED BY <1>1, <1>3, <2>1, <2>3
<1> QED BY <1>2, <1>3

\* What the reconciliation says about the fills ex, of which the trail has the
\* fills rec and the commissions paid.
Explained(says, withCash, ex, rec, paid) ==
    says = "breaks" <=>
        \/ \E s \in SymbolsOf(ex \ rec) : Gap(Shares(s, ex \ rec)) > ShareTol
        \/ withCash /\ Gap(SumFunctionOnSet(Traded, ex \ rec)
                           + SumFunctionOnSet(Charged, ex \ paid)) > CashTol

LEMMA FillTypes ==
  /\ IsFiniteSet(FillNumbers)
  /\ \A f \in FillNumbers : Signed[f] \in Int /\ Traded[f] \in Int /\ Charged[f] \in Int
<1>1. \A a, b \in Int : a * b \in Int
  OBVIOUS
<1> QED BY <1>1, FillsAssumption DEF FillNumbers, Signed, Traded, Charged

\* The legs of the reconciliation differ by what the trail lacks.
LEMMA PositionLeg ==
  ASSUME NEW ex \in SUBSET FillNumbers, NEW rec \in SUBSET ex
  PROVE  (\E s \in SymbolsOf(ex \cup rec) : Gap(Shares(s, rec) - Shares(s, ex)) > ShareTol)
         <=> \E s \in SymbolsOf(ex \ rec) : Gap(Shares(s, ex \ rec)) > ShareTol
<1>1. ASSUME NEW s
      PROVE  /\ Shares(s, ex \ rec) \in Int
             /\ Gap(Shares(s, rec) - Shares(s, ex)) = Gap(Shares(s, ex \ rec))
  <2>1. /\ FillsOf(s, ex) \in SUBSET FillNumbers
        /\ FillsOf(s, rec) \in SUBSET FillsOf(s, ex)
        /\ FillsOf(s, ex \ rec) = FillsOf(s, ex) \ FillsOf(s, rec)
    BY DEF FillsOf
  <2>2. IsFiniteSet(FillsOf(s, ex)) /\ \A f \in FillsOf(s, ex) : Signed[f] \in Int
    BY <2>1, FillTypes, FS_Subset
  <2> DEFINE all  == FillsOf(s, ex)
             part == FillsOf(s, rec)
             Sum(S) == SumFunctionOnSet(Signed, S)
  <2>3. IsFiniteSet(all) /\ part \in SUBSET all /\ \A f \in all : Signed[f] \in Int
    BY <2>1, <2>2
  <2> HIDE DEF all, part
  <2>4. Sum(all) = Sum(part) + Sum(all \ part) /\ Sum(part) \in Int /\ Sum(all \ part) \in Int
    BY <2>3, SumOfParts
  <2>5. /\ Shares(s, ex) = Sum(all) /\ Shares(s, rec) = Sum(part)
        /\ Shares(s, ex \ rec) = Sum(all \ part)
    BY <2>1 DEF Shares, all, part
  <2> HIDE DEF Sum
  <2> QED BY <2>4, <2>5 DEF Gap
<1>2. ASSUME NEW s, s \notin SymbolsOf(ex \ rec)
      PROVE  ~ (Gap(Shares(s, ex \ rec)) > ShareTol)
  <2>1. FillsOf(s, ex \ rec) = {}
    BY <1>2 DEF FillsOf, SymbolsOf
  <2>2. Shares(s, ex \ rec) = 0
    BY <2>1, SumOfNone DEF Shares
  <2> QED BY <2>2, TolerancesAssumption DEF Gap
<1>3. SymbolsOf(ex \ rec) \subseteq SymbolsOf(ex \cup rec)
  BY DEF SymbolsOf
<1>4. \A s : Gap(Shares(s, rec) - Shares(s, ex)) > ShareTol
             <=> Gap(Shares(s, ex \ rec)) > ShareTol
  BY <1>1
<1> QED BY <1>2, <1>3, <1>4, Zenon

LEMMA CashLeg ==
  ASSUME NEW ex \in SUBSET FillNumbers, NEW rec \in SUBSET ex, NEW paid \in SUBSET ex
  PROVE  Gap((- SumFunctionOnSet(Traded, rec) - SumFunctionOnSet(Charged, paid))
             - (- SumFunctionOnSet([f \in FillNumbers |-> Traded[f] + Charged[f]], ex)))
         = Gap(SumFunctionOnSet(Traded, ex \ rec) + SumFunctionOnSet(Charged, ex \ paid))
<1> DEFINE both == [f \in FillNumbers |-> Traded[f] + Charged[f]]
           T(s) == SumFunctionOnSet(Traded, s)
           C(s) == SumFunctionOnSet(Charged, s)
           B    == SumFunctionOnSet(both, ex)
<1>1. /\ IsFiniteSet(ex)
      /\ \A f \in ex : Traded[f] \in Int
      /\ \A f \in ex : Charged[f] \in Int
      /\ \A f \in ex : both[f] = Traded[f] + Charged[f]
  BY FillTypes, FS_Subset
<1>2. T(ex) = T(rec) + T(ex \ rec) /\ T(rec) \in Int /\ T(ex \ rec) \in Int
  BY <1>1, SumOfParts
<1>3. C(ex) = C(paid) + C(ex \ paid) /\ C(paid) \in Int /\ C(ex \ paid) \in Int
  BY <1>1, SumOfParts
<1> HIDE DEF both
<1>4. B = T(ex) + C(ex)
  BY <1>1, SumOfSums
<1> HIDE DEF T, C, B
<1>5. (- T(rec) - C(paid)) - (- B) = T(ex \ rec) + C(ex \ paid)
  BY <1>2, <1>3, <1>4
<1>6. Gap((- T(rec) - C(paid)) - (- B)) = Gap(T(ex \ rec) + C(ex \ paid))
  BY <1>5
<1> QED BY <1>6 DEF T, C, B, both

-----------------------------------------------------------------------------
Events(fs) == ({"CASH", "POSITION", "RECONCILIATION", "KILL_SWITCH"} \X {0})
              \cup ({"FILL", "COMMISSION"} \X fs)
Lines(fs)  == [seq : Nat, event : Events(fs), prev : Seq(Events(fs))]

\* Every event about a fill is about one the broker executed.
AuditTypes ==
    /\ executed \in SUBSET FillNumbers
    /\ trail \in Seq(Lines(executed)) /\ file \in Seq(Lines(executed))
    /\ writing \in [Threads -> Seq(Lines(executed))]
    /\ todo \in [Threads -> Seq(Events(executed))]

\* A cycle that has reconciled has at most the note of it left to append.
Reconciled ==
    stage = "reconciled" =>
        /\ process = "up"
        /\ todo["loop"] \in {<< >>, << <<"RECONCILIATION", 0>> >>}
        /\ report.says # "unread" =>
              Explained(report.says, report.cash /\ Recorded("CASH") # {}, executed,
                        Recorded("FILL"), Recorded("COMMISSION"))

\* The event being written is the first of those its thread has to append.
InHand == \A t \in Threads : writing[t] # << >> => todo[t] # << >>

AuditInv == OneWriter /\ AuditTypes /\ InHand /\ Reconciled

LEMMA MoreEvents ==
  ASSUME NEW fs, NEW gs, fs \subseteq gs
  PROVE  /\ Seq(Events(fs)) \subseteq Seq(Events(gs))
         /\ Seq(Lines(fs)) \subseteq Seq(Lines(gs))
<1>1. Events(fs) \subseteq Events(gs)
  BY DEF Events
<1>2. Seq(Events(fs)) \subseteq Seq(Events(gs))
  BY <1>1
<1>3. Lines(fs) \subseteq Lines(gs)
  BY <1>1, <1>2 DEF Lines
<1> QED BY <1>2, <1>3

\* What an appended line adds to the events of a type.
LEMMA RecordedGrows ==
  ASSUME NEW S, trail \in Seq(S), NEW line, trail' = Append(trail, line), NEW type,
         line.event[1] # type
  PROVE  Recorded(type)' = Recorded(type)
<1>1. trail \in Seq(S \cup {line}) /\ Len(trail) \in Nat
  OBVIOUS
<1>2. ToSet(trail') = ToSet(trail) \cup {line}
  <2>1. DOMAIN trail = 1 .. Len(trail) /\ DOMAIN trail' = 1 .. Len(trail) + 1
    BY <1>1
  <2>2. /\ \A i \in 1 .. Len(trail) : trail'[i] = trail[i]
        /\ trail'[Len(trail) + 1] = line
    BY <1>1
  <2>3. \A i \in 1 .. Len(trail) + 1 : i \in 1 .. Len(trail) \/ i = Len(trail) + 1
    BY <1>1
  <2>4. \A x : x \in ToSet(trail') <=> x \in ToSet(trail) \cup {line}
    BY <1>1, <2>1, <2>2, <2>3 DEF ToSet
  <2> QED BY <2>4
<1>3. {x \in ToSet(trail') : x.event[1] = type} = {x \in ToSet(trail) : x.event[1] = type}
  BY <1>2
<1> QED BY <1>3 DEF Recorded

\* The fills of the trail are executed ones.
LEMMA RecordedIn ==
  ASSUME AuditTypes, NEW type \in {"FILL", "COMMISSION"}
  PROVE  Recorded(type) \in SUBSET executed
<1>1. \A x \in ToSet(trail) : x \in Lines(executed)
  BY DEF AuditTypes, ToSet
<1>2. \A x \in Lines(executed) : x.event[1] = type => x.event[2] \in executed
  BY DEF Lines, Events
<1> QED BY <1>1, <1>2 DEF Recorded

\* What Reconcile computes.
LEMMA BreaksExplained ==
  ASSUME AuditTypes, NEW cash \in BOOLEAN
  PROVE  Explained(IF Breaks(cash) THEN "breaks" ELSE "clean", cash /\ Recorded("CASH") # {},
                   executed, Recorded("FILL"), Recorded("COMMISSION"))
<1> DEFINE rec == Recorded("FILL")
           paid == Recorded("COMMISSION")
           known == cash /\ Recorded("CASH") # {}
<1>1. executed \in SUBSET FillNumbers /\ rec \in SUBSET executed /\ paid \in SUBSET executed
  BY RecordedIn DEF AuditTypes
<1>2. Breaks(cash) <=>
        \/ \E s \in SymbolsOf(executed \cup rec) :
              Gap(Shares(s, rec) - Shares(s, executed)) > ShareTol
        \/ known /\ Gap((- SumFunctionOnSet(Traded, rec) - SumFunctionOnSet(Charged, paid))
                        - (- SumFunctionOnSet([f \in FillNumbers |-> Traded[f] + Charged[f]],
                                              executed))) > CashTol
  BY DEF Breaks, BrokerShares, ReplayedCash, BrokerCash, Shares
<1> HIDE DEF rec, paid, known
<1>3. Explained(IF Breaks(cash) THEN "breaks" ELSE "clean", known, executed, rec, paid)
  <2>1. Breaks(cash) <=>
          \/ \E s \in SymbolsOf(executed \ rec) : Gap(Shares(s, executed \ rec)) > ShareTol
          \/ known /\ Gap(SumFunctionOnSet(Traded, executed \ rec)
                          + SumFunctionOnSet(Charged, executed \ paid)) > CashTol
    BY <1>1, <1>2, PositionLeg, CashLeg
  <2>2. (IF Breaks(cash) THEN "breaks" ELSE "clean") = "breaks" <=> Breaks(cash)
    OBVIOUS
  <2> QED BY <2>1, <2>2, Zenon DEF Explained
<1> QED BY <1>3 DEF rec, paid, known

LEMMA BreaksAreRealIs ==
  BreaksAreReal <=>
    (stage = "reconciled" /\ report.says # "unread" =>
        Explained(report.says, report.cash /\ Recorded("CASH") # {}, executed,
                  Recorded("FILL"), Recorded("COMMISSION")))
<1>1. (report.says = "breaks" <=>
          \/ \E s \in SymbolsOf(executed \ Recorded("FILL")) :
                Gap(Shares(s, executed \ Recorded("FILL"))) > ShareTol
          \/ report.cash /\ Recorded("CASH") # {}
             /\ Gap(SumFunctionOnSet(Traded, executed \ Recorded("FILL"))
                    + SumFunctionOnSet(Charged, executed \ Recorded("COMMISSION"))) > CashTol)
      <=> Explained(report.says, report.cash /\ Recorded("CASH") # {}, executed,
                    Recorded("FILL"), Recorded("COMMISSION"))
  BY Zenon DEF Explained
<1> QED BY <1>1, Zenon DEF BreaksAreReal

\* The events of a cycle are about the fills it was told of.
LEMMA CycleEventsIn ==
  ASSUME NEW fs \in SUBSET FillNumbers, NEW gs, fs \subseteq gs
  PROVE  CycleEvents(fs) \in Seq(Events(gs))
<1> DEFINE n    == Cardinality(fs)
           some == [i \in 1 .. n |-> FillEvents(SetToSeq(fs)[i])]
<1>1. n \in Nat /\ \E order \in [1 .. n -> fs] : IsInjective(order)
  <2>1. IsFiniteSet(fs)
    BY FillTypes, FS_Subset
  <2>2. n \in Nat /\ ExistsBijection(1 .. n, fs)
    BY <2>1, FS_CardinalityType
  <2> QED BY <2>2 DEF ExistsBijection, Bijection, Injection, IsInjective
<1>2. SetToSeq(fs) \in [1 .. n -> fs]
  BY <1>1 DEF SetToSeq
<1>3. /\ << <<"CASH", 0>> >> \in Seq(Events(gs)) /\ << >> \in Seq(Events(gs))
      /\ << <<"POSITION", 0>> >> \in Seq(Events(gs))
      /\ \A f \in fs : FillEvents(f) \in Seq(Events(gs))
  <2> DEFINE All == Events(gs)
  <2>1. /\ <<"CASH", 0>> \in All /\ <<"POSITION", 0>> \in All
        /\ \A f \in fs : <<"FILL", f>> \in All /\ <<"COMMISSION", f>> \in All
    BY DEF Events
  <2> HIDE DEF All
  <2>2. /\ << <<"CASH", 0>> >> \in Seq(All) /\ << >> \in Seq(All)
        /\ << <<"POSITION", 0>> >> \in Seq(All)
    BY <2>1
  <2>3. ASSUME NEW f \in fs PROVE FillEvents(f) \in Seq(All)
    <3>1. << <<"FILL", f>> >> \in Seq(All) /\ << <<"COMMISSION", f>> >> \in Seq(All)
      BY <2>1
    <3> QED BY <2>2, <3>1 DEF FillEvents
  <2> QED BY <2>2, <2>3 DEF All
<1> HIDE DEF n
<1>4. some \in Seq(Seq(Events(gs)))
  BY <1>1, <1>2, <1>3
<1>5. FlattenSeq(some) \in Seq(Events(gs))
  <2> HIDE DEF some
  <2> QED BY <1>4, FlattenIn
<1>6. CycleEvents(fs) = (IF trail = << >> THEN << <<"CASH", 0>> >> ELSE << >>)
                        \o FlattenSeq(some) \o << <<"POSITION", 0>> >>
  BY DEF CycleEvents, n
<1> HIDE DEF some
<1> QED BY <1>3, <1>5, <1>6

\* Nothing that the reconciliation compared changes before the cycle is over.
LEMMA StillExplained ==
  ASSUME Reconciled, UNCHANGED <<stage, process, report, executed>>,
         stage = "reconciled" =>
           /\ \A type \in {"CASH", "FILL", "COMMISSION"} : Recorded(type)' = Recorded(type)
           /\ todo'["loop"] \in {<< >>, << <<"RECONCILIATION", 0>> >>}
  PROVE  Reconciled'
  BY DEF Reconciled

LEMMA AuditSteps ==
  ASSUME ChainInv, ChainInv', AuditInv, [AuditNext]_auditTrail
  PROVE  AuditInv'
<1> USE DEF AuditInv
<1>0. OneWriter'
  BY DEF ChainInv
<1>1. ASSUME NEW t \in Threads, ChainEvent(t) PROVE AuditInv'
  <2> DEFINE line == Chained(Head(todo[t]))
  <2>1. /\ lock = t /\ todo[t] # << >>
        /\ trail' = Append(trail, line)
        /\ writing' = [writing EXCEPT ![t] = <<line>>]
        /\ UNCHANGED <<file, todo, lock, stage, executed, report, process>>
    BY <1>1 DEF ChainEvent, MayAppend
  <2>2. Head(todo[t]) \in Events(executed)
    BY <2>1 DEF AuditTypes
  <2>3. Hash(trail) \in Seq(Events(executed)) /\ Len(trail) \in Nat
    <3>1. trail \in Seq(Lines(executed))
      BY DEF AuditTypes
    <3>2. /\ DOMAIN trail = 1 .. Len(trail) /\ Len(trail) \in Nat
          /\ \A i \in 1 .. Len(trail) : trail[i] \in Lines(executed)
      BY <3>1
    <3>3. \A x \in Lines(executed) : x.event \in Events(executed)
      BY DEF Lines
    <3>4. Hash(trail) = [i \in 1 .. Len(trail) |-> trail[i].event]
      BY <3>2 DEF Hash
    <3>5. \A i \in 1 .. Len(trail) : trail[i].event \in Events(executed)
      BY <3>2, <3>3
    <3> QED BY <3>2, <3>4, <3>5
  <2>4. line \in Lines(executed) /\ line.event = Head(todo[t])
    BY <2>2, <2>3 DEF Chained, Lines
  <2> HIDE DEF line
  <2>5. AuditTypes'
    BY <2>1, <2>4 DEF AuditTypes
  <2>6. ASSUME stage = "reconciled"
        PROVE  \A type \in {"CASH", "FILL", "COMMISSION"} : Recorded(type)' = Recorded(type)
    <3>1. t = "loop"
      BY <2>1, <2>6 DEF OneWriter
    <3>2. todo[t] = << <<"RECONCILIATION", 0>> >>
      BY <2>1, <2>6, <3>1 DEF Reconciled
    <3>3. line.event[1] = "RECONCILIATION"
      BY <2>4, <3>2
    <3>4. trail \in Seq(Lines(executed))
      BY DEF AuditTypes
    <3> QED BY <2>1, <3>3, <3>4, RecordedGrows
  <2>7. stage = "reconciled" => todo'["loop"] \in {<< >>, << <<"RECONCILIATION", 0>> >>}
    BY <2>1 DEF Reconciled
  <2>8. Reconciled'
    BY <2>1, <2>6, <2>7, StillExplained
  <2>9. InHand'
    BY <2>1 DEF InHand, AuditTypes
  <2> QED BY <1>0, <2>5, <2>8, <2>9
<1>2. ASSUME NEW t \in Threads, PersistEvent(t) PROVE AuditInv'
  <2>1. /\ lock = t /\ process = "up" /\ todo[t] # << >>
        /\ writing' = [writing EXCEPT ![t] = << >>]
        /\ UNCHANGED <<trail, lock, stage, executed, report, process>>
    BY <1>2 DEF PersistEvent, OneWriter, InHand
  <2>2. file' \in {file, file \o writing[t]}
        /\ \E rest \in {<< >>, Tail(todo[t])} : todo' = [todo EXCEPT ![t] = rest]
    BY <1>2 DEF PersistEvent
  <2>3. /\ writing \in [Threads -> Seq(Lines(executed))] /\ file \in Seq(Lines(executed))
        /\ todo \in [Threads -> Seq(Events(executed))]
    BY DEF AuditTypes
  <2>4. file' \in Seq(Lines(executed))
    <3>1. writing[t] \in Seq(Lines(executed))
      BY <2>3
    <3>2. file \o writing[t] \in Seq(Lines(executed))
      BY <2>3, <3>1, ConcatProperties
    <3> QED BY <2>2, <2>3, <3>2
  <2>5. PICK rest \in Seq(Events(executed)) :
          todo' = [todo EXCEPT ![t] = rest] /\ rest \in {<< >>, Tail(todo[t])}
    <3>1. Tail(todo[t]) \in Seq(Events(executed)) /\ << >> \in Seq(Events(executed))
      BY <2>1, <2>3
    <3> QED BY <2>2, <3>1
  <2>6. AuditTypes'
    BY <2>1, <2>3, <2>4, <2>5 DEF AuditTypes
  <2>7. \A type \in {"CASH", "FILL", "COMMISSION"} : Recorded(type)' = Recorded(type)
    BY <2>1 DEF Recorded
  <2>8. ASSUME stage = "reconciled"
        PROVE  todo'["loop"] \in {<< >>, << <<"RECONCILIATION", 0>> >>}
    <3>1. t = "loop"
      BY <2>1, <2>8 DEF OneWriter
    <3>2. todo[t] = << <<"RECONCILIATION", 0>> >>
      BY <2>1, <2>8, <3>1 DEF Reconciled
    <3>3. Tail(todo[t]) = << >>
      BY <3>2
    <3>4. todo'[t] = rest
      BY <2>3, <2>5
    <3> QED BY <2>5, <3>1, <3>3, <3>4
  <2>9. Reconciled'
    BY <2>1, <2>7, <2>8, StillExplained
  <2>10. InHand'
    BY <2>1, <2>3 DEF InHand, OneWriter
  <2> QED BY <1>0, <2>6, <2>9, <2>10
<1>3. CASE CrashService
  <2>1. /\ writing' = Idle /\ todo' = Idle /\ trail' = << >> /\ stage' = "idle"
        /\ UNCHANGED <<file, executed>>
    BY <1>3 DEF CrashService
  <2>2. AuditTypes'
    BY <2>1 DEF AuditTypes, Idle
  <2> QED BY <1>0, <2>1, <2>2 DEF InHand, Idle, Reconciled
<1>4. CASE LoadTrail
  <2>1. /\ trail' \in {trail, file} /\ process = "down"
        /\ UNCHANGED <<file, writing, todo, stage, executed, report>>
    BY <1>4 DEF LoadTrail
  <2> QED BY <1>0, <2>1 DEF AuditTypes, InHand, Reconciled
<1>5. CASE BeginCycle
  <2>1. PICK fs \in SUBSET (FillNumbers \ executed) :
          /\ executed' = executed \union fs
          /\ todo' = [todo EXCEPT !["loop"] = CycleEvents(fs)]
    BY <1>5 DEF BeginCycle
  <2>2. /\ stage' = "recording" /\ lock = "free"
        /\ UNCHANGED <<trail, file, writing>>
    BY <1>5 DEF BeginCycle
  <2>3. executed' \in SUBSET FillNumbers
    BY <2>1 DEF AuditTypes
  <2>4. /\ Seq(Events(executed)) \subseteq Seq(Events(executed'))
        /\ Seq(Lines(executed)) \subseteq Seq(Lines(executed'))
    BY <2>1, MoreEvents
  <2>5. CycleEvents(fs) \in Seq(Events(executed'))
    BY <2>1, CycleEventsIn
  <2>6. AuditTypes'
    BY <2>1, <2>2, <2>3, <2>4, <2>5 DEF AuditTypes
  <2>7. InHand' /\ Reconciled'
    BY <2>2 DEF InHand, Reconciled, OneWriter, Threads
  <2> QED BY <1>0, <2>6, <2>7
<1>6. CASE FillUnseen
  <2>1. /\ executed' \in SUBSET FillNumbers /\ executed \subseteq executed' /\ stage' = "idle"
        /\ UNCHANGED <<trail, file, writing, todo>>
    BY <1>6 DEF FillUnseen, AuditTypes
  <2>2. /\ Seq(Events(executed)) \subseteq Seq(Events(executed'))
        /\ Seq(Lines(executed)) \subseteq Seq(Lines(executed'))
    BY <2>1, MoreEvents
  <2>3. AuditTypes'
    BY <2>1, <2>2 DEF AuditTypes
  <2> QED BY <1>0, <2>1, <2>3 DEF InHand, Reconciled
<1>7. CASE Reconcile
  <2>1. PICK cash \in BOOLEAN :
          \/ report' = [says |-> "unread", cash |-> FALSE]
          \/ report' = [says |-> IF Breaks(cash) THEN "breaks" ELSE "clean", cash |-> cash]
    BY <1>7 DEF Reconcile
  <2>2. /\ process = "up" /\ Done("loop")
        /\ \/ todo' = [todo EXCEPT !["loop"] = << >>]
           \/ todo' = [todo EXCEPT !["loop"] = << <<"RECONCILIATION", 0>> >>]
        /\ UNCHANGED <<trail, file, writing, executed, process>>
    BY <1>7 DEF Reconcile
  <2>3. << <<"RECONCILIATION", 0>> >> \in Seq(Events(executed)) /\ << >> \in Seq(Events(executed))
    BY DEF Events
  <2>4. AuditTypes'
    BY <2>2, <2>3 DEF AuditTypes
  <2>5. InHand'
    BY <2>2 DEF InHand, Done, AuditTypes
  <2>6. \A type : Recorded(type)' = Recorded(type)
    BY <2>2 DEF Recorded
  <2>7. todo'["loop"] \in {<< >>, << <<"RECONCILIATION", 0>> >>}
    BY <2>2 DEF AuditTypes, Threads
  <2>8. Explained(IF Breaks(cash) THEN "breaks" ELSE "clean", cash /\ Recorded("CASH") # {},
                  executed, Recorded("FILL"), Recorded("COMMISSION"))
    BY BreaksExplained
  <2>9. ASSUME report'.says # "unread"
        PROVE  report' = [says |-> IF Breaks(cash) THEN "breaks" ELSE "clean", cash |-> cash]
    BY <2>1, <2>9
  <2>10. ASSUME report'.says # "unread"
         PROVE  Explained(report'.says, report'.cash /\ Recorded("CASH")' # {}, executed',
                          Recorded("FILL")', Recorded("COMMISSION")')
    <3>1. /\ report'.says = (IF Breaks(cash) THEN "breaks" ELSE "clean")
          /\ report'.cash = cash
      BY <2>9, <2>10
    <3>2. /\ Recorded("CASH")' = Recorded("CASH") /\ executed' = executed
          /\ Recorded("FILL")' = Recorded("FILL")
          /\ Recorded("COMMISSION")' = Recorded("COMMISSION")
      BY <2>2, <2>6
    <3> QED BY <2>8, <3>1, <3>2
  <2>11. Reconciled'
    BY <2>2, <2>7, <2>10 DEF Reconciled
  <2> QED BY <1>0, <2>4, <2>5, <2>11
<1>8. CASE EndCycle
  BY <1>0, <1>8 DEF EndCycle, AuditTypes, InHand, Reconciled
<1>9. CASE OperatorAsks
  <2>1. /\ Done("operator")
        /\ todo' = [todo EXCEPT !["operator"] = << <<"KILL_SWITCH", 0>> >>]
        /\ UNCHANGED <<trail, file, writing, stage, executed, report, process>>
    BY <1>9 DEF OperatorAsks
  <2>2. << <<"KILL_SWITCH", 0>> >> \in Seq(Events(executed))
    BY DEF Events
  <2>3. AuditTypes' /\ InHand'
    BY <2>1, <2>2 DEF AuditTypes, InHand, Done
  <2>4. todo'["loop"] = todo["loop"]
    BY <2>1 DEF AuditTypes, Threads
  <2>5. Reconciled'
    BY <2>1, <2>4 DEF Reconciled, Recorded
  <2> QED BY <1>0, <2>3, <2>5
<1>10. CASE OperatorEnters
  BY <1>0, <1>10 DEF OperatorEnters, AuditTypes, InHand, Reconciled, Recorded
<1>11. CASE OperatorLeaves
  BY <1>0, <1>11 DEF OperatorLeaves, AuditTypes, InHand, Reconciled, Recorded
<1>12. CASE UNCHANGED auditTrail
  BY <1>0, <1>12 DEF auditTrail, AuditTypes, InHand, Reconciled, Recorded
<1> QED
  BY <1>1, <1>2, <1>3, <1>4, <1>5, <1>6, <1>7, <1>8, <1>9, <1>10, <1>11, <1>12
  DEF AuditNext

\* A reconciliation reports a break exactly when the executions and commissions the
\* trail lacks amount to more than the tolerance, for every set of fills and every
\* tolerance (_reconcile, replay_ledger_to_positions, replay_ledger_to_balances).
THEOREM BreaksAreRealEver == AuditSpec => []BreaksAreReal
<1>1. AuditInit => ChainInv /\ AuditInv
  BY ChainStarts DEF AuditInit, AuditInv, OneWriter, AuditTypes, InHand, Reconciled, Idle
<1>2. ChainInv /\ AuditInv /\ [AuditNext]_auditTrail => (ChainInv /\ AuditInv)'
  BY ChainStep, AuditSteps
<1>3. AuditInv => BreaksAreReal
  BY BreaksAreRealIs DEF AuditInv, Reconciled
<1> QED BY <1>1, <1>2, <1>3, PTL DEF AuditSpec

-----------------------------------------------------------------------------
(* Governance.  The model registry through promotions, rollbacks, saves    *)
(* and restarts, for every set of models and every history length.         *)

Registries == [order : Seq(Models), promoted : SUBSET Models, retired : SUBSET Models,
               live : Models \union {NoModel}, history : Seq(Models)]

\* The flags, the live pointer and the stack agree, and no two models that were
\* live one after the other are the same (promote does nothing for the live model).
OneLive(r) ==
    /\ r.promoted = {r.live} \ {NoModel}
    /\ r.promoted \subseteq Registered(r) \cap Passing
    /\ r.promoted \cap r.retired = {}
    /\ ToSet(r.history) \subseteq r.retired \union r.promoted
    /\ r.history # << >> => r.live # NoModel

NeverTwice(r) ==
    /\ r.history # << >> => r.history[Len(r.history)] # r.live
    /\ \A i \in 2 .. Len(r.history) : r.history[i - 1] # r.history[i]

RegistryOK(r) ==
    /\ r \in Registries
    /\ OneLive(r)
    /\ r.retired \subseteq Registered(r) \cap Passing
    /\ NeverTwice(r)

GovernanceInv ==
    /\ RegistryOK(registry)
    /\ saved # << >> => \E r : RegistryOK(r) /\ saved = Dump(r)

-----------------------------------------------------------------------------
(* The operators of ModelRegistry keep a registry in order.                *)

\* A registry without models is in order.
LEMMA EmptyIsOK == RegistryOK(EmptyRegistry)
BY ModelsAssumption
DEF RegistryOK, Registries, EmptyRegistry, OneLive, NeverTwice, Registered, ToSet

\* A registration, refused or not, keeps a registry in order.
LEMMA RegisterKeepsOK ==
  ASSUME NEW r, RegistryOK(r), NEW m \in Models PROVE RegistryOK(Register(r, m))
<1>1. CASE m \in Registered(r)
  BY <1>1 DEF Register
<1>2. CASE m \notin Registered(r)
  <2>1. Register(r, m) = [r EXCEPT !.order = Append(@, m)]
    BY <1>2 DEF Register
  <2>2. r.order \in Seq(Models) /\ Append(r.order, m) \in Seq(Models)
    BY DEF RegistryOK, Registries
  <2>3. Registered(r) \subseteq Registered(Register(r, m))
    BY <2>1, <2>2 DEF Registered, ToSet, RegistryOK, Registries
  <2> QED
    BY <2>1, <2>2, <2>3 DEF RegistryOK, Registries, OneLive, NeverTwice
<1> QED
  BY <1>1, <1>2

\* So does a promotion, refused or not (selection_rule and the no-op for the live model).
LEMMA PromoteKeepsOK ==
  ASSUME NEW r, RegistryOK(r), NEW m \in Models PROVE RegistryOK(Promote(r, m))
<1>1. CASE m \notin Registered(r) \/ m = r.live \/ m \notin Passing
  BY <1>1 DEF Promote
<1>2. CASE ~(m \notin Registered(r) \/ m = r.live \/ m \notin Passing)
  <2> DEFINE p == Promote(r, m)
             stack == IF r.live = NoModel THEN r.history ELSE Append(r.history, r.live)
             out   == IF r.live = NoModel THEN r.retired ELSE r.retired \union {r.live}
  <2>1. /\ p \in Registries /\ p.order = r.order /\ p.live = m /\ p.history = stack
        /\ p.promoted = (r.promoted \ {r.live}) \union {m}
        /\ p.retired = out \ {m}
    <3>1. r \in Registries /\ stack \in Seq(Models) /\ out \in SUBSET Models
      BY DEF RegistryOK, Registries
    <3>2. Demote(r).history = r.history
      BY <3>1 DEF Demote, Registries
    <3>3. Demote(r) = [order |-> r.order, promoted |-> r.promoted \ {r.live},
                       retired |-> out, live |-> r.live, history |-> r.history]
      <4>1. CASE r.live = NoModel
        <5>1. r.promoted = r.promoted \ {r.live}
          BY <4>1, ModelsAssumption DEF RegistryOK, OneLive
        <5>2. Demote(r) = r /\ out = r.retired
          BY <4>1 DEF Demote
        <5> HIDE DEF out
        <5> QED
          BY <3>1, <5>1, <5>2 DEF Registries
      <4>2. CASE r.live # NoModel
        <5>1. out = r.retired \union {r.live}
          BY <4>2
        <5> HIDE DEF out
        <5> QED
          BY <3>1, <4>2, <5>1 DEF Demote, Registries
      <4> QED
        BY <4>1, <4>2
    <3> HIDE DEF out
    <3>4. p = MakeLive([Demote(r) EXCEPT !.history = stack], m)
      BY <1>2, <3>2 DEF Promote
    <3> HIDE DEF p, stack
    <3>5. p = [order |-> r.order, promoted |-> (r.promoted \ {r.live}) \union {m},
               retired |-> out \ {m}, live |-> m, history |-> stack]
      <4> DEFINE q == [order |-> r.order, promoted |-> r.promoted \ {r.live},
                       retired |-> out, live |-> r.live, history |-> stack]
      <4>1. [Demote(r) EXCEPT !.history = stack] = q
        BY <3>3
      <4>2. p = MakeLive(q, m)
        BY <3>4, <4>1
      <4> QED
        BY <4>2 DEF MakeLive
    <3> QED
      BY <3>1, <3>5 DEF Registries
  <2>2. Registered(p) = Registered(r)
    BY <2>1 DEF Registered
  <2>3. NeverTwice(p)
    BY <1>2, <2>1, ModelsAssumption DEF RegistryOK, Registries, NeverTwice, OneLive
  <2>4. ToSet(stack) \subseteq ToSet(r.history) \union ({r.live} \ {NoModel})
    BY DEF RegistryOK, Registries, ToSet
  <2>5. m \in Registered(r) /\ m \in Passing /\ m # NoModel
    BY <1>2, ModelsAssumption
  <2>6. OneLive(p)
    BY <2>1, <2>2, <2>4, <2>5 DEF OneLive, RegistryOK
  <2> QED
    BY <2>1, <2>2, <2>3, <2>6 DEF RegistryOK, OneLive
<1> QED
  BY <1>1, <1>2

\* So does a rollback, also one that finds another model live.
LEMMA RollbackKeepsOK ==
  ASSUME NEW r, RegistryOK(r), NEW m PROVE RegistryOK(Rollback(r, m))
<1>1. CASE (m # NoModel /\ r.live # m) \/ r.history = << >>
  BY <1>1 DEF Rollback
<1>2. CASE ~((m # NoModel /\ r.live # m) \/ r.history = << >>)
  <2> DEFINE p == Rollback(r, m)
             n == Len(r.history)
  <2>1. /\ r.history \in Seq(Models) /\ n \in Nat \ {0} /\ r.history[n] \in Models
        /\ r.live # NoModel /\ r.live \in Models
    BY <1>2 DEF RegistryOK, Registries, OneLive
  <2>2. /\ Front(r.history) \in Seq(Models) /\ Len(Front(r.history)) = n - 1
        /\ \A i \in 1 .. n - 1 : Front(r.history)[i] = r.history[i]
        /\ Last(r.history) = r.history[n]
    BY <2>1 DEF Front, Last
  <2>3. /\ p \in Registries /\ p.order = r.order /\ p.live = r.history[n]
        /\ p.history = Front(r.history)
        /\ p.promoted = (r.promoted \ {r.live}) \union {r.history[n]}
        /\ p.retired = (r.retired \union {r.live}) \ {r.history[n]}
    <3> DEFINE q == [Demote(r) EXCEPT !.history = Front(@)]
    <3>1. Demote(r) \in Registries /\ Demote(r).history = r.history /\ Demote(r).order = r.order
          /\ Demote(r).promoted = r.promoted \ {r.live} /\ Demote(r).retired = r.retired \union {r.live}
      BY <2>1 DEF Demote, RegistryOK, Registries
    <3>2. q \in Registries /\ q.history = Front(r.history) /\ q.order = r.order
          /\ q.promoted = r.promoted \ {r.live} /\ q.retired = r.retired \union {r.live}
      BY <2>2, <3>1 DEF Registries
    <3>3. p = MakeLive(q, r.history[n])
      BY <1>2, <2>2 DEF Rollback
    <3> HIDE DEF q
    <3> QED
      BY <2>1, <3>2, <3>3 DEF MakeLive, Registries
  <2>4. Registered(p) = Registered(r)
    BY <2>3 DEF Registered
  <2>5. NeverTwice(p)
    <3>1. \A i \in 2 .. n : r.history[i - 1] # r.history[i]
      BY DEF RegistryOK, NeverTwice
    <3>2. ASSUME p.history # << >> PROVE p.history[Len(p.history)] # p.live
      <4>1. n \in 2 .. n /\ n - 1 \in 1 .. n - 1
        BY <2>1, <2>2, <2>3, <3>2
      <4> QED
        BY <2>2, <2>3, <3>1, <4>1
    <3>3. ASSUME NEW i \in 2 .. Len(p.history) PROVE p.history[i - 1] # p.history[i]
      <4>1. i \in 2 .. n - 1 /\ i \in 1 .. n - 1 /\ i - 1 \in 1 .. n - 1 /\ i \in 2 .. n
        BY <2>1, <2>2, <2>3, <3>3
      <4> QED
        BY <2>2, <2>3, <3>1, <4>1
    <3> QED
      BY <3>2, <3>3 DEF NeverTwice
  <2>6. ToSet(Front(r.history)) \subseteq ToSet(r.history) /\ r.history[n] \in ToSet(r.history)
    BY <2>1, <2>2 DEF ToSet
  <2>7. r.history[n] \in Registered(r) \cap Passing /\ r.history[n] # NoModel
    BY <2>1, <2>6, ModelsAssumption DEF RegistryOK, OneLive
  <2>8. OneLive(p)
    BY <2>1, <2>3, <2>4, <2>6, <2>7 DEF OneLive, RegistryOK
  <2> QED
    BY <2>1, <2>3, <2>4, <2>5, <2>8 DEF RegistryOK, OneLive
<1> QED
  BY <1>1, <1>2

\* What _load_registry reads back is what _dump_registry was given.
LEMMA LoadOfDump == ASSUME NEW r, RegistryOK(r) PROVE Load(Dump(r)) = r
<1>1. /\ {m \in Registered(r) : m \in r.promoted} = r.promoted
      /\ {m \in Registered(r) : m \in r.retired} = r.retired
  BY DEF RegistryOK, OneLive
<1>2. Load(Dump(r)) = [order |-> r.order, promoted |-> r.promoted, retired |-> r.retired,
                       live |-> r.live, history |-> r.history]
  BY <1>1 DEF Load, Dump
<1> QED
  BY <1>2 DEF RegistryOK, Registries

-----------------------------------------------------------------------------
\* Every call, save, death and start keeps the registry and its file in order.
LEMMA GovernanceInductive == GovernanceSpec => []GovernanceInv
<1>1. GovernanceInit => GovernanceInv
  BY EmptyIsOK DEF GovernanceInit, GovernanceInv
<1>2. GovernanceInv /\ [GovernanceNext]_governance => GovernanceInv'
  <2> SUFFICES ASSUME GovernanceInv, [GovernanceNext]_governance PROVE GovernanceInv'
    OBVIOUS
  <2>1. CASE Operate
    <3>1. RegistryOK(registry')
      BY <2>1, RegisterKeepsOK, PromoteKeepsOK, RollbackKeepsOK DEF Operate, GovernanceInv
    <3> QED
      BY <2>1, <3>1 DEF Operate, GovernanceInv
  <2>2. CASE SaveState
    BY <2>2 DEF SaveState, GovernanceInv
  <2>3. CASE Die
    BY <2>3, EmptyIsOK DEF Die, GovernanceInv
  <2>4. CASE StartService
    BY <2>4, LoadOfDump DEF StartService, GovernanceInv
  <2>5. CASE UNCHANGED governance
    BY <2>5 DEF governance, GovernanceInv
  <2> QED
    BY <2>1, <2>2, <2>3, <2>4, <2>5 DEF GovernanceNext
<1> QED
  BY <1>1, <1>2, PTL DEF GovernanceSpec

\* One model is live, validated and consistently flagged, at any time, for every
\* set of models (promote, rollback, _dump_registry, _load_registry).
THEOREM OneLiveModelEver == GovernanceSpec => []OneLiveModel
<1>1. GovernanceInv => OneLiveModel
  BY DEF GovernanceInv, RegistryOK, OneLive, OneLiveModel
<1> QED
  BY <1>1, GovernanceInductive, PTL

\* A repeated rollback changes nothing, whatever led to it (rollback with
\* expect_current).
THEOREM RollbackTwice == GovernanceSpec => []RollbackIsRetrySafe
<1>1. GovernanceInv => RollbackIsRetrySafe
  <2> SUFFICES ASSUME RegistryOK(registry)
               PROVE  LET once == Rollback(registry, registry.live)
                      IN  Rollback(once, registry.live) = once
    BY DEF GovernanceInv, RollbackIsRetrySafe
  <2>1. CASE registry.history = << >>
    BY <2>1 DEF Rollback
  <2>2. CASE registry.history # << >>
    <3>1. registry.live # NoModel /\ Last(registry.history) # registry.live
      BY <2>2 DEF RegistryOK, OneLive, NeverTwice, Last
    <3>2. Rollback(registry, registry.live).live = Last(registry.history)
      BY <2>2 DEF Rollback, MakeLive, Demote, RegistryOK, Registries
    <3> QED
      BY <3>1, <3>2 DEF Rollback
  <2> QED
    BY <2>1, <2>2
<1> QED
  BY <1>1, GovernanceInductive, PTL

-----------------------------------------------------------------------------
(* RegimeFit.  The scaler may be newer than the model, but then the next   *)
(* answer fits again: while no fit is due, all three parts are of one.     *)

RegimeInv ==
    /\ scaler \in Nat /\ hmm \in Nat /\ stateMap \in Nat
    /\ cycle \in Nat /\ attempts \in Nat
    /\ ~Due => scaler = hmm /\ stateMap = hmm
    /\ answer = {} \/ \E fit \in Nat : answer = {fit}

\* The parts that answer are of one fit, at the start and after every call.
LEMMA RegimeInductive == RegimeSpec => []RegimeInv
<1>1. RegimeInit => RegimeInv
  BY RegimeAssumption DEF RegimeInit, RegimeInv, Due
<1>2. RegimeInv /\ [RegimeNext]_regime => RegimeInv'
  <2> SUFFICES ASSUME RegimeInv, [RegimeNext]_regime PROVE RegimeInv'
    OBVIOUS
  <2>1. CASE TooShort
    BY <2>1 DEF RegimeInv, TooShort, Due
  <2>2. CASE FitRaises
    BY <2>2 DEF RegimeInv, FitRaises, Due
  <2>3. CASE FitAndInfer
    BY <2>3 DEF RegimeInv, FitAndInfer, Answered, Due
  <2>4. CASE InferOnly
    BY <2>4, RegimeAssumption DEF RegimeInv, InferOnly, Answered, Due
  <2>5. CASE UNCHANGED regime
    BY <2>5 DEF RegimeInv, regime, Due
  <2> QED
    BY <2>1, <2>2, <2>3, <2>4, <2>5 DEF RegimeNext
<1> QED
  BY <1>1, <1>2, PTL DEF RegimeSpec

\* No answer of the regime model mixes the parts of two fits, for every refit
\* period and however long the engine runs (_maybe_fit, _fit).
THEOREM OneFitPerAnswer == RegimeSpec => []AnswersOfOneFit
<1>1. RegimeInv => AnswersOfOneFit
  <2>1. ASSUME answer = {} PROVE Cardinality(answer) <= 1
    BY <2>1, FS_EmptySet
  <2>2. ASSUME NEW fit, answer = {fit} PROVE Cardinality(answer) <= 1
    BY <2>2, FS_Singleton
  <2> QED
    BY <2>1, <2>2 DEF RegimeInv, AnswersOfOneFit
<1> QED
  BY <1>1, RegimeInductive, PTL

-----------------------------------------------------------------------------
(* WalkForward.  Every fold is the Fold of a window that lies before the   *)
(* next one; the windows move by the length of a test, so the tests of two *)
(* folds do not meet.                                                      *)

WindowSize == splitter.train + splitter.valid + splitter.test

Folds == [train : SUBSET Int, valid : SUBSET Int, test : SUBSET Int]

StudyTypes ==
    /\ splitter \in Splitters /\ bars \in Nat /\ start \in Nat
    /\ splits \in Seq(Folds)

FoldsAreWindows ==
    \A f \in DOMAIN splits : \E from \in Nat :
        /\ splits[f] = Fold(from)
        /\ from + splitter.test <= start /\ from + WindowSize <= bars

TestsApart ==
    \A f, g \in DOMAIN splits : f # g => splits[f].test \cap splits[g].test = {}

StudyInv == StudyTypes /\ FoldsAreWindows /\ TestsApart

\* What a fold trains on ends before what it evaluates on, by the horizon of the
\* labels and by the embargo; it evaluates inside its window.
LEMMA FoldIsClean ==
  ASSUME splitter \in Splitters, NEW from \in Nat
  PROVE  LET fold == Fold(from)
             evaluated == fold.valid \union fold.test
         IN  /\ \A i \in fold.train, b \in evaluated :
                   b \notin i .. i + splitter.horizon /\ i + splitter.embargo < b
             /\ \A b \in evaluated : b \in Nat /\ b < from + WindowSize
             /\ \A b \in fold.test :
                   /\ from + splitter.train + splitter.valid <= b
                   /\ b < from + WindowSize
<1>1. /\ splitter.train \in Nat \ {0} /\ splitter.valid \in Nat \ {0}
      /\ splitter.test \in Nat \ {0} /\ splitter.embargo \in Nat
      /\ splitter.horizon \in Nat \ {0}
  BY WalkForwardAssumption DEF Splitters
<1> QED
  BY <1>1 DEF Fold, Embargo, Purge, WindowSize

\* Every window that split visits keeps the folds apart.
LEMMA StudyInductive == StudySpec => []StudyInv
<1> USE DEF StudyInv
<1>1. StudyInit => StudyInv
  BY WalkForwardAssumption
  DEF StudyInit, StudyTypes, FoldsAreWindows, TestsApart
<1>2. StudyInv /\ [SplitNext]_study => StudyInv'
  <2> SUFFICES ASSUME StudyInv, [SplitNext]_study PROVE StudyInv'
    OBVIOUS
  <2>1. CASE UNCHANGED study
    BY <2>1 DEF StudyTypes, FoldsAreWindows, TestsApart, study, WindowSize, Fold, Embargo, Purge
  <2>2. CASE SplitNext
    <3>1. /\ splitter.train \in Nat \ {0} /\ splitter.valid \in Nat \ {0}
          /\ splitter.test \in Nat \ {0} /\ WindowSize \in Nat
          /\ splitter \in Splitters /\ bars \in Nat /\ start \in Nat
      BY WalkForwardAssumption DEF StudyTypes, Splitters, WindowSize
    <3>2. /\ splitter' = splitter /\ bars' = bars /\ start' = start + splitter.test
          /\ WindowSize' = WindowSize /\ start + WindowSize <= bars
      BY <2>2, <3>1 DEF SplitNext, WindowSize
    <3>3. \A from : Fold(from)' = Fold(from)
      BY <3>2 DEF Fold, Embargo, Purge
    <3>4. Fold(start) \in Folds
      BY <3>1 DEF Fold, Folds, Embargo, Purge
    <3>5. ASSUME NEW f \in DOMAIN splits, splits'[f] = splits[f]
          PROVE  \E from \in Nat :
                   /\ splits'[f] = Fold(from)'
                   /\ from + splitter'.test <= start' /\ from + WindowSize' <= bars'
      <4>1. PICK from \in Nat : /\ splits[f] = Fold(from)
                                /\ from + splitter.test <= start
                                /\ from + WindowSize <= bars
        BY DEF FoldsAreWindows
      <4>2. from + splitter.test <= start + splitter.test
        BY <4>1, <3>1
      <4>3. splits'[f] = Fold(from)'
        BY <3>3, <3>5, <4>1
      <4> QED
        BY <3>2, <4>1, <4>2, <4>3
    <3>6. CASE splits' = splits
      <4>1. StudyTypes'
        BY <3>1, <3>2, <3>6 DEF StudyTypes
      <4>2. FoldsAreWindows'
        BY <3>5, <3>6 DEF FoldsAreWindows
      <4>3. TestsApart'
        BY <3>6 DEF TestsApart
      <4> QED
        BY <4>1, <4>2, <4>3
    <3>7. CASE splits' = Append(splits, Fold(start))
      <4>1. /\ splits' \in Seq(Folds)
            /\ \A f \in DOMAIN splits : splits'[f] = splits[f]
            /\ splits'[Len(splits) + 1] = Fold(start)
            /\ DOMAIN splits' = DOMAIN splits \union {Len(splits) + 1}
        BY <3>4, <3>7 DEF StudyTypes
      <4>2. StudyTypes'
        BY <3>1, <3>2, <4>1 DEF StudyTypes
      <4>3. FoldsAreWindows'
        <5> SUFFICES ASSUME NEW f \in DOMAIN splits'
                     PROVE  \E from \in Nat :
                              /\ splits'[f] = Fold(from)'
                              /\ from + splitter'.test <= start'
                              /\ from + WindowSize' <= bars'
          BY DEF FoldsAreWindows
        <5>1. CASE f \in DOMAIN splits
          BY <3>5, <4>1, <5>1
        <5>2. CASE f = Len(splits) + 1
          BY <3>1, <3>2, <3>3, <4>1, <5>2
        <5> QED
          BY <4>1, <5>1, <5>2
      <4>4. ASSUME NEW f \in DOMAIN splits
            PROVE  splits[f].test \cap Fold(start).test = {}
        <5>1. PICK from \in Nat : splits[f] = Fold(from) /\ from + splitter.test <= start
          BY DEF FoldsAreWindows
        <5>2. \A b \in Fold(from).test : b \in Nat /\ b < from + WindowSize
          BY <3>1, FoldIsClean
        <5>3. \A b \in Fold(start).test : start + splitter.train + splitter.valid <= b
          BY <3>1, FoldIsClean
        <5>4. from + WindowSize <= start + splitter.train + splitter.valid
          BY <3>1, <5>1 DEF WindowSize
        <5> QED
          BY <3>1, <5>1, <5>2, <5>3, <5>4
      <4>5. TestsApart'
        BY <4>1, <4>4 DEF TestsApart
      <4> QED
        BY <4>2, <4>3, <4>5
    <3> QED
      BY <2>2, <3>6, <3>7 DEF SplitNext
  <2> QED
    BY <2>1, <2>2
<1> QED
  BY <1>1, <1>2, PTL DEF StudySpec

\* The walk-forward split leaks nothing, for every history, window, embargo and
\* label horizon (PurgedWalkForwardSplitter.split).
THEOREM SplitsNeverLeak == StudySpec => []FoldsNeverLeak
<1>1. StudyInv => FoldsNeverLeak
  <2> SUFFICES ASSUME StudyInv, NEW f \in DOMAIN splits
               PROVE  LET evaluated == splits[f].valid \union splits[f].test
                      IN  /\ \A i \in splits[f].train, b \in evaluated :
                                b \notin i .. i + splitter.horizon /\ i + splitter.embargo < b
                          /\ evaluated \subseteq 0 .. bars - 1
                          /\ \A g \in DOMAIN splits \ {f} :
                                splits[f].test \cap splits[g].test = {}
    BY DEF FoldsNeverLeak
  <2>1. PICK from \in Nat : splits[f] = Fold(from) /\ from + WindowSize <= bars
    BY DEF StudyInv, FoldsAreWindows
  <2>2. splitter \in Splitters /\ bars \in Nat /\ WindowSize \in Nat
    BY WalkForwardAssumption DEF StudyInv, StudyTypes, Splitters, WindowSize
  <2> QED
    BY <2>1, <2>2, FoldIsClean DEF StudyInv, TestsApart
<1> QED
  BY <1>1, StudyInductive, PTL

-----------------------------------------------------------------------------
(* ApiGuard, the alert trail.                                              *)

AlertsInv ==
    /\ clock \in Nat /\ DOMAIN aggregate \subseteq Kinds
    /\ \A k \in DOMAIN aggregate : aggregate[k].suppressed \in Nat
    /\ emitted \in [Kinds -> Nat] /\ told \in [Kinds -> Nat]
    /\ AlertsAreCounted

\* A record changes the counts of its own kind only, and together.
LEMMA AlertsInductive == GuardSpec => []AlertsInv
<1>1. GuardInit => AlertsInv
  BY DEF GuardInit, AlertsInv, AlertsAreCounted
<1>2. AlertsInv /\ [GuardNext]_guard => AlertsInv'
  <2> SUFFICES ASSUME AlertsInv, [GuardNext]_guard PROVE AlertsInv'
    OBVIOUS
  <2>1. ASSUME NEW c \in Callers, Check(c) PROVE AlertsInv'
    BY <2>1 DEF AlertsInv, AlertsAreCounted, Check
  <2>2. ASSUME NEW k \in Kinds, Alert(k) PROVE AlertsInv'
    <3>1. emitted' = [emitted EXCEPT ![k] = @ + 1] /\ clock' = clock
      BY <2>2 DEF Alert
    <3>2. CASE k \in DOMAIN aggregate /\ clock - aggregate[k].since < AlertWindow
      <4>1. aggregate' = [aggregate EXCEPT ![k].suppressed = @ + 1] /\ told' = told
        BY <2>2, <3>2 DEF Alert
      <4> QED
        BY <3>1, <3>2, <4>1 DEF AlertsInv, AlertsAreCounted
    <3>3. CASE ~(k \in DOMAIN aggregate /\ clock - aggregate[k].since < AlertWindow)
      <4>1. /\ aggregate' = [x \in DOMAIN aggregate \union {k} |->
                               IF x = k THEN [since |-> clock, suppressed |-> 0]
                               ELSE aggregate[x]]
            /\ told' = [told EXCEPT ![k] = @ + 1 + Carried(k)]
        BY <2>2, <3>3 DEF Alert
      <4>2. Carried(k) \in Nat /\ emitted[k] = told[k] + Carried(k)
        BY DEF AlertsInv, AlertsAreCounted, Carried
      <4> QED
        BY <3>1, <4>1, <4>2 DEF AlertsInv, AlertsAreCounted
    <3> QED
      BY <3>2, <3>3
  <2>3. CASE Tick
    BY <2>3 DEF AlertsInv, AlertsAreCounted, Tick
  <2>4. CASE UNCHANGED guard
    BY <2>4 DEF AlertsInv, AlertsAreCounted, guard
  <2> QED
    BY <2>1, <2>2, <2>3, <2>4 DEF GuardNext
<1> QED
  BY <1>1, <1>2, PTL DEF GuardSpec

\* No alert is lost or counted twice, for every number of kinds and every window
\* (_RepeatAggregator.filter).
THEOREM EveryAlertIsCounted == GuardSpec => []AlertsAreCounted
<1>1. AlertsInv => AlertsAreCounted
  BY DEF AlertsInv
<1> QED
  BY <1>1, AlertsInductive, PTL

-----------------------------------------------------------------------------
(* RateLimiter.  What check does to the map of one bucket: the hits of the *)
(* caller that are still in the window, one more if it is let in, and the  *)
(* coldest key gone when the map is full.                                  *)

\* Times in the order they were noted, the last of them not after now.
Noted(times, now) ==
    /\ times \in Seq(Int)
    /\ \A i \in 1 .. Len(times) : times[i] <= now
    /\ \A i, j \in 1 .. Len(times) : i <= j => times[i] <= times[j]

\* later holds the last times of all, those after since.
LastOf(later, all, since) ==
    /\ later \in Seq(Int) /\ Len(later) <= Len(all)
    /\ \A j \in 0 .. Len(later) - 1 : later[Len(later) - j] = all[Len(all) - j]
    /\ \A j \in 0 .. Len(later) - 1 : all[Len(all) - j] > since
    /\ \A j \in Len(later) .. Len(all) - 1 : all[Len(all) - j] <= since

\* Dropping from the front stops somewhere.
LEMMA DroppingEnds ==
  ASSUME NEW times \in Seq(Int), NEW since \in Int
  PROVE  \E n \in 0 .. Len(times) : /\ \A i \in 1 .. n : times[i] <= since
                                    /\ n < Len(times) => times[n + 1] > since
<1> DEFINE G == {n \in 0 .. Len(times) : \A i \in 1 .. n : times[i] <= since}
<1>1. SUFFICES ASSUME \A n \in G : n < Len(times) /\ ~ (times[n + 1] > since) PROVE FALSE
  OBVIOUS
<1>2. Len(times) \in Nat /\ \A i \in 1 .. Len(times) : times[i] \in Int
  OBVIOUS
<1>3. 0 \in G
  BY <1>2
<1>4. ASSUME NEW i \in 0 .. Len(times) - 1, i \in G PROVE i + 1 \in G
  <2>1. i + 1 \in 1 .. Len(times) /\ times[i + 1] <= since
    BY <1>1, <1>2, <1>4
  <2>2. \A j \in 1 .. i + 1 : j \in 1 .. i \/ j = i + 1
    OBVIOUS
  <2> QED BY <1>4, <2>1, <2>2
<1>5. Len(times) \in G
  <2> HIDE DEF G
  <2>1. \A i \in 0 .. Len(times) : i \in G
    BY <1>2, <1>3, <1>4, UpTo
  <2> QED BY <1>2, <2>1
<1> QED BY <1>1, <1>2, <1>5

LEMMA WithinIsLast ==
  ASSUME NEW now \in Int, NEW since \in Int, NEW times, Noted(times, now)
  PROVE  LastOf(Within(times, since), times, since) /\ Noted(Within(times, since), now)
<1> DEFINE n == Len(times)
           d == CHOOSE m \in 0 .. Len(times) : /\ \A i \in 1 .. m : times[i] <= since
                                               /\ m < Len(times) => times[m + 1] > since
           late == SubSeq(times, d + 1, n)
<1>1. times \in Seq(Int) /\ n \in Nat /\ \A i \in 1 .. n : times[i] \in Int
  BY DEF Noted
<1>2. /\ d \in 0 .. n /\ \A i \in 1 .. d : times[i] <= since
      /\ d < n => times[d + 1] > since
  BY <1>1, DroppingEnds
<1>3. Within(times, since) = late
  BY DEF Within
<1> HIDE DEF d, n
<1>4. /\ late \in Seq(Int) /\ Len(late) = n - d
      /\ \A k \in 1 .. n - d : late[k] = times[d + k]
  BY <1>1, <1>2, FromOn DEF n
<1> HIDE DEF late
<1>5. \A i \in d + 1 .. n : times[i] > since
  <2> TAKE i \in d + 1 .. n
  <2>1. d < n /\ d + 1 \in 1 .. n /\ i \in 1 .. n /\ d + 1 <= i
    BY <1>1, <1>2
  <2>2. times[d + 1] <= times[i]
    BY <2>1 DEF Noted, n
  <2> QED BY <1>1, <1>2, <2>1, <2>2
<1>6. LastOf(late, times, since)
  <2>1. ASSUME NEW j \in 0 .. Len(late) - 1
        PROVE  late[Len(late) - j] = times[n - j] /\ times[n - j] > since
    <3>1. Len(late) - j \in 1 .. n - d /\ d + (Len(late) - j) = n - j /\ n - j \in d + 1 .. n
      BY <1>1, <1>2, <1>4
    <3> QED BY <1>4, <1>5, <3>1
  <2>2. ASSUME NEW j \in Len(late) .. n - 1
        PROVE  times[n - j] <= since
    <3>1. n - j \in 1 .. d
      BY <1>1, <1>2, <1>4
    <3> QED BY <1>2, <3>1
  <2> QED BY <1>1, <1>2, <1>4, <2>1, <2>2 DEF LastOf, n
<1>7. Noted(late, now)
  <2>1. ASSUME NEW i \in 1 .. n - d
        PROVE  d + i \in 1 .. n /\ late[i] = times[d + i]
    BY <1>1, <1>2, <1>4
  <2>2. \A i \in 1 .. n - d : late[i] <= now
    BY <2>1 DEF Noted, n
  <2>3. \A i, j \in 1 .. n - d : i <= j => late[i] <= late[j]
    <3> SUFFICES ASSUME NEW i \in 1 .. n - d, NEW j \in 1 .. n - d, i <= j
                 PROVE  late[i] <= late[j]
      OBVIOUS
    <3>1. d + i \in 1 .. n /\ d + j \in 1 .. n /\ d + i <= d + j
      BY <1>2, <2>1
    <3>2. times[d + i] <= times[d + j]
      BY <3>1 DEF Noted, n
    <3> QED BY <2>1, <3>2
  <2> QED BY <1>4, <2>2, <2>3 DEF Noted
<1> QED BY <1>3, <1>6, <1>7

LEMMA NotedGrows ==
  ASSUME NEW now \in Int, NEW times, Noted(times, now)
  PROVE  Noted(Append(times, now), now)
<1>1. /\ Append(times, now) \in Seq(Int) /\ Len(Append(times, now)) = Len(times) + 1
      /\ Len(times) \in Nat
      /\ \A i \in 1 .. Len(times) : Append(times, now)[i] = times[i]
      /\ Append(times, now)[Len(times) + 1] = now
  BY DEF Noted
<1>2. \A i \in 1 .. Len(times) + 1 : i \in 1 .. Len(times) \/ i = Len(times) + 1
  BY <1>1
<1> DEFINE more == Append(times, now)
<1> HIDE DEF more
<1>3. \A i \in 1 .. Len(times) + 1 : more[i] <= now
  BY <1>1, <1>2 DEF Noted, more
<1>4. ASSUME NEW i \in 1 .. Len(times) + 1, NEW j \in 1 .. Len(times) + 1, i <= j
      PROVE  more[i] <= more[j]
  <2>1. CASE j = Len(times) + 1
    BY <1>1, <1>3, <2>1 DEF more
  <2>2. CASE j \in 1 .. Len(times)
    <3>1. i \in 1 .. Len(times)
      BY <1>1, <1>4, <2>2
    <3> QED BY <1>1, <1>4, <2>2, <3>1 DEF Noted, more
  <2> QED BY <1>2, <2>1, <2>2
<1> QED BY <1>1, <1>3, <1>4 DEF Noted, more

-----------------------------------------------------------------------------
Distinct(keys) == \A i, j \in 1 .. Len(keys) : keys[i] = keys[j] => i = j

\* The keys used since key was.
Hotter(keys, key) == {keys[j] : j \in {j \in 1 .. Len(keys) : \E i \in 1 .. j - 1 : keys[i] = key}}

\* next is keys with one key taken out: the place of the i-th of next in keys.
Place(place, next, keys) ==
    /\ place \in [1 .. Len(next) -> 1 .. Len(keys)]
    /\ \A i \in 1 .. Len(next) : next[i] = keys[place[i]]
    /\ \A i, j \in 1 .. Len(next) : i < j => place[i] < place[j]

LEMMA ToSetIs ==
  ASSUME NEW K, NEW s \in Seq(K)
  PROVE  ToSet(s) = {s[i] : i \in 1 .. Len(s)} /\ ToSet(s) \subseteq K
  BY DEF ToSet

LEMMA RemoveFirstIs ==
  ASSUME NEW K, NEW order \in Seq(K), Distinct(order), NEW key
  PROVE  /\ RemoveFirst(order, key) \in Seq(K)
         /\ ToSet(RemoveFirst(order, key)) = ToSet(order) \ {key}
         /\ \E place : Place(place, RemoveFirst(order, key), order)
<1> DEFINE n == Len(order)
           rest == RemoveFirst(order, key)
<1>1. n \in Nat /\ \A i \in 1 .. n : order[i] \in K
  OBVIOUS
<1>2. \A s \in Seq(K) : ToSet(s) = {s[i] : i \in 1 .. Len(s)}
  BY DEF ToSet
<1>3. CASE \A i \in 1 .. n : order[i] # key
  <2>1. rest = order
    BY <1>3 DEF RemoveFirst
  <2>2. key \notin ToSet(order)
    BY <1>2, <1>3
  <2> DEFINE place == [i \in 1 .. n |-> i]
  <2>3. Place(place, order, order)
    BY <1>1 DEF Place
  <2> QED BY <2>1, <2>2, <2>3
<1>4. ASSUME NEW m \in 1 .. n, order[m] = key
      PROVE  /\ rest \in Seq(K) /\ ToSet(rest) = ToSet(order) \ {key}
             /\ \E place : Place(place, rest, order)
  <2>1. {i \in 1 .. n : order[i] = key} = {m}
    BY <1>4 DEF Distinct
  <2>2. SelectInSeq(order, LAMBDA v : v = key) = m
    <3>1. Min({m}) = m
      BY <1>1 DEF Min
    <3> QED BY <2>1, <3>1 DEF SelectInSeq
  <2>3. rest = SubSeq(order, 1, m - 1) \o SubSeq(order, m + 1, n)
    BY <1>4, <2>2 DEF RemoveFirst, RemoveAt
  <2> HIDE DEF n, rest
  <2> DEFINE front == SubSeq(order, 1, m - 1)
             back  == SubSeq(order, m + 1, n)
             From(i) == IF i < m THEN i ELSE i + 1
             place == [i \in 1 .. n - 1 |-> From(i)]
  <2>4. /\ front \in Seq(K) /\ Len(front) = m - 1
        /\ \A i \in 1 .. m - 1 : front[i] = order[i]
    BY <1>1 DEF n
  <2>5. /\ back \in Seq(K) /\ Len(back) = n - m
        /\ \A i \in 1 .. n - m : back[i] = order[m + i]
    <3>1. order \in Seq(K) /\ m \in Nat /\ m <= Len(order) /\ n = Len(order)
      BY <1>1 DEF n
    <3>2. /\ SubSeq(order, m + 1, Len(order)) \in Seq(K)
          /\ Len(SubSeq(order, m + 1, Len(order))) = Len(order) - m
          /\ \A i \in 1 .. Len(order) - m : SubSeq(order, m + 1, Len(order))[i] = order[m + i]
      BY ONLY <3>1, FromOn
    <3>3. back = SubSeq(order, m + 1, Len(order))
      BY <3>1
    <3> QED BY ONLY <3>1, <3>2, <3>3
  <2>0. rest = front \o back /\ n \in Nat /\ m \in 1 .. n
    BY <1>1, <2>3
  <2> HIDE DEF front, back
  <2>6. /\ rest \in Seq(K) /\ Len(rest) = n - 1
        /\ \A i \in 1 .. n - 1 : rest[i] = IF i <= m - 1 THEN front[i] ELSE back[i - (m - 1)]
    <3>1. /\ front \o back \in Seq(K) /\ Len(front \o back) = Len(front) + Len(back)
          /\ \A i \in 1 .. Len(front) + Len(back) :
                (front \o back)[i] = IF i <= Len(front) THEN front[i] ELSE back[i - Len(front)]
      BY ONLY <2>4, <2>5, ConcatProperties
    <3>2. Len(front) = m - 1 /\ Len(front) + Len(back) = n - 1
      BY ONLY <2>0, <2>4, <2>5
    <3> QED BY ONLY <2>0, <3>1, <3>2
  <2>7. ASSUME NEW i \in 1 .. n - 1
        PROVE  From(i) \in 1 .. n /\ From(i) # m /\ rest[i] = order[From(i)]
    <3>1. CASE i < m
      BY <1>1, <2>4, <2>6, <3>1
    <3>2. CASE ~ (i < m)
      <4>1. i - (m - 1) \in 1 .. n - m /\ m + (i - (m - 1)) = i + 1
        BY <1>1, <3>2
      <4> QED BY <1>1, <2>5, <2>6, <3>2, <4>1
    <3> QED BY <3>1, <3>2
  <2>8. \A i, j \in 1 .. n - 1 : i < j => From(i) < From(j)
    OBVIOUS
  <2>9. \A k \in 1 .. n : k # m => \E i \in 1 .. n - 1 : From(i) = k
    <3> SUFFICES ASSUME NEW k \in 1 .. n, k # m PROVE \E i \in 1 .. n - 1 : From(i) = k
      OBVIOUS
    <3>1. CASE k < m
      BY <1>1, <3>1
    <3>2. CASE ~ (k < m)
      <4>1. k - 1 \in 1 .. n - 1 /\ From(k - 1) = k
        BY <1>1, <3>2
      <4> QED BY <4>1
    <3> QED BY <3>1, <3>2
  <2> HIDE DEF From
  <2>10. Place(place, rest, order)
    BY <1>1, <2>6, <2>7, <2>8 DEF Place, n
  <2>11. ToSet(rest) = ToSet(order) \ {key}
    <3>1. ToSet(rest) = {rest[i] : i \in 1 .. n - 1} /\ ToSet(order) = {order[i] : i \in 1 .. n}
      BY <1>2, <2>6 DEF n
    <3>2. \A k \in 1 .. n : order[k] = key <=> k = m
      BY <1>4, <2>1
    <3>3. \A x : x \in {rest[i] : i \in 1 .. n - 1} => x \in {order[i] : i \in 1 .. n} \ {key}
      BY <2>7, <3>2
    <3>4. \A x : x \in {order[i] : i \in 1 .. n} \ {key} => x \in {rest[i] : i \in 1 .. n - 1}
      BY <2>7, <2>9, <3>2
    <3> QED BY <3>1, <3>3, <3>4
  <2> QED BY <2>6, <2>10, <2>11
<1> QED BY <1>3, <1>4

\* Key goes to the end of the order; the others keep theirs.
LastUsed(keys, K, order, key) ==
    /\ keys \in Seq(K) /\ Distinct(keys) /\ Len(keys) >= 1 /\ keys[Len(keys)] = key
    /\ ToSet(keys) = ToSet(order) \cup {key}
    /\ Hotter(keys, key) = {}
    /\ \A k \in K \ {key} : Hotter(keys, k) \subseteq Hotter(order, k) \cup {key}

LEMMA TouchedIs ==
  ASSUME NEW K, NEW order \in Seq(K), Distinct(order), NEW key \in K
  PROVE  LastUsed(Append(RemoveFirst(order, key), key), K, order, key)
<1> DEFINE rest == RemoveFirst(order, key)
           m    == Len(rest)
           keys == Append(rest, key)
<1>1. PICK place : Place(place, rest, order)
  BY RemoveFirstIs
<1>2. rest \in Seq(K) /\ ToSet(rest) = ToSet(order) \ {key}
  BY RemoveFirstIs
<1>3. /\ \A i \in 1 .. m : place[i] \in 1 .. Len(order) /\ rest[i] = order[place[i]]
      /\ \A i, j \in 1 .. m : i < j => place[i] < place[j]
  BY <1>1 DEF Place
<1> HIDE DEF rest
<1>4. m \in Nat /\ Len(order) \in Nat
  BY <1>2
<1>5. /\ keys \in Seq(K) /\ Len(keys) = m + 1 /\ keys[m + 1] = key
      /\ \A i \in 1 .. m : keys[i] = rest[i]
  BY <1>2
<1> HIDE DEF m, keys
<1>6. \A i \in 1 .. m : rest[i] # key
  <2>1. \A i \in 1 .. m : rest[i] \in ToSet(rest)
    BY <1>2 DEF ToSet, m
  <2> QED BY <1>2, <2>1
<1>7. Distinct(keys)
  <2>1. ASSUME NEW i \in 1 .. m, NEW j \in 1 .. m, i < j PROVE rest[i] # rest[j]
    <3>1. place[i] # place[j] /\ place[i] \in 1 .. Len(order) /\ place[j] \in 1 .. Len(order)
      BY <1>3, <1>4, <2>1
    <3> QED BY <1>3, <3>1 DEF Distinct
  <2>2. \A i, j \in 1 .. m : i < j \/ j < i \/ i = j
    BY <1>4
  <2>3. \A i \in 1 .. m + 1 : i \in 1 .. m \/ i = m + 1
    BY <1>4
  <2>4. \A i, j \in 1 .. m : rest[i] = rest[j] => i = j
    BY <2>1, <2>2
  <2>5. ASSUME NEW i \in 1 .. m + 1, NEW j \in 1 .. m + 1, keys[i] = keys[j] PROVE i = j
    BY <1>5, <1>6, <2>3, <2>4, <2>5
  <2> QED BY <1>5, <2>5 DEF Distinct
<1>8. ToSet(keys) = ToSet(order) \cup {key}
  <2>1. ToSet(keys) = {keys[i] : i \in 1 .. m + 1} /\ ToSet(rest) = {rest[i] : i \in 1 .. m}
    BY <1>2, <1>5 DEF ToSet, m
  <2>2. \A x : x \in {keys[i] : i \in 1 .. m + 1} => x \in {rest[i] : i \in 1 .. m} \cup {key}
    <3>1. \A i \in 1 .. m + 1 : i \in 1 .. m \/ i = m + 1
      BY <1>4
    <3> QED BY <1>5, <3>1
  <2>3. \A x : x \in {rest[i] : i \in 1 .. m} \cup {key} => x \in {keys[i] : i \in 1 .. m + 1}
    <3>1. m + 1 \in 1 .. m + 1 /\ \A i \in 1 .. m : i \in 1 .. m + 1
      BY <1>4
    <3> QED BY <1>5, <3>1
  <2> QED BY <1>2, <2>1, <2>2, <2>3
<1>9. Hotter(keys, key) = {}
  <2>1. \A j \in 1 .. m + 1 : \A i \in 1 .. j - 1 : keys[i] # key
    <3> TAKE j \in 1 .. m + 1
    <3> TAKE i \in 1 .. j - 1
    <3>1. i \in 1 .. m
      BY <1>4
    <3> QED BY <1>5, <1>6, <3>1
  <2> QED BY <1>5, <2>1 DEF Hotter
<1>10. ASSUME NEW k \in K \ {key} PROVE Hotter(keys, k) \subseteq Hotter(order, k) \cup {key}
  <2> SUFFICES ASSUME NEW j \in 1 .. m + 1, NEW i \in 1 .. j - 1, keys[i] = k, keys[j] # key
               PROVE  keys[j] \in Hotter(order, k)
    BY <1>5 DEF Hotter
  <2>1. j \in 1 .. m /\ i \in 1 .. m /\ i < j
    BY <1>4, <1>5
  <2>2. order[place[i]] = k /\ keys[j] = order[place[j]]
    BY <1>3, <1>5, <2>1
  <2>3. place[j] \in 1 .. Len(order) /\ place[i] \in 1 .. place[j] - 1
    BY <1>3, <1>4, <2>1
  <2> QED BY <2>2, <2>3 DEF Hotter
<1>11. LastUsed(keys, K, order, key)
  BY <1>4, <1>5, <1>7, <1>8, <1>9, <1>10 DEF LastUsed
<1> QED BY <1>11 DEF keys, rest

\* The coldest key goes; all the others have been used since it was.
LEMMA ColdestGoes ==
  ASSUME NEW K, NEW keys \in Seq(K), Distinct(keys), Len(keys) >= 1
  PROVE  /\ Tail(keys) \in Seq(K) /\ Distinct(Tail(keys))
         /\ ToSet(Tail(keys)) = ToSet(keys) \ {keys[1]}
         /\ \A k \in K : Hotter(Tail(keys), k) \subseteq Hotter(keys, k)
         /\ \E place : place \in Injection(1 .. Len(keys) - 1, Hotter(keys, keys[1]))
<1> DEFINE n == Len(keys)
           rest == Tail(keys)
<1>1. /\ n \in Nat /\ rest \in Seq(K) /\ Len(rest) = n - 1
      /\ \A i \in 1 .. n - 1 : rest[i] = keys[i + 1]
  OBVIOUS
<1>2. ToSet(rest) = {rest[i] : i \in 1 .. n - 1} /\ ToSet(keys) = {keys[i] : i \in 1 .. n}
  BY <1>1, ToSetIs
<1> HIDE DEF n, rest
<1>3. \A i, j \in 1 .. n : keys[i] = keys[j] => i = j
  BY DEF Distinct, n
<1>4. Distinct(rest)
  <2>1. \A i \in 1 .. n - 1 : i + 1 \in 1 .. n
    BY <1>1
  <2> QED BY <1>1, <1>3, <2>1 DEF Distinct
<1>5. ToSet(rest) = ToSet(keys) \ {keys[1]}
  <2>1. \A x : x \in ToSet(rest) => x \in ToSet(keys) \ {keys[1]}
    <3> SUFFICES ASSUME NEW i \in 1 .. n - 1 PROVE rest[i] \in ToSet(keys) \ {keys[1]}
      BY <1>2
    <3>1. i + 1 \in 1 .. n /\ 1 \in 1 .. n /\ i + 1 # 1
      BY <1>1
    <3> QED BY <1>1, <1>2, <1>3, <3>1
  <2>2. \A x : x \in ToSet(keys) \ {keys[1]} => x \in ToSet(rest)
    <3> SUFFICES ASSUME NEW i \in 1 .. n, keys[i] # keys[1] PROVE keys[i] \in ToSet(rest)
      BY <1>2
    <3>1. i - 1 \in 1 .. n - 1 /\ (i - 1) + 1 = i
      BY <1>1
    <3> QED BY <1>1, <1>2, <3>1
  <2> QED BY <2>1, <2>2
<1>6. ASSUME NEW k \in K PROVE Hotter(rest, k) \subseteq Hotter(keys, k)
  <2> SUFFICES ASSUME NEW j \in 1 .. n - 1, NEW i \in 1 .. j - 1, rest[i] = k
               PROVE  rest[j] \in Hotter(keys, k)
    BY <1>1 DEF Hotter
  <2>1. /\ j + 1 \in 1 .. n /\ i + 1 \in 1 .. (j + 1) - 1
        /\ keys[i + 1] = k /\ rest[j] = keys[j + 1]
    BY <1>1
  <2> QED BY <2>1 DEF Hotter, n
<1>7. \E place : place \in Injection(1 .. n - 1, Hotter(keys, keys[1]))
  <2> DEFINE place == [i \in 1 .. n - 1 |-> keys[i + 1]]
  <2>1. \A i \in 1 .. n - 1 : i + 1 \in 1 .. n /\ 1 \in 1 .. (i + 1) - 1
    BY <1>1
  <2>2. \A i \in 1 .. n - 1 : keys[i + 1] \in Hotter(keys, keys[1])
    BY <2>1 DEF Hotter, n
  <2>3. \A i, j \in 1 .. n - 1 : keys[i + 1] = keys[j + 1] => i = j
    BY <1>3, <2>1
  <2>4. place \in Injection(1 .. n - 1, Hotter(keys, keys[1]))
    BY <2>2, <2>3 DEF Injection, IsInjective
  <2> QED BY <2>4
<1> QED BY <1>1, <1>4, <1>5, <1>6, <1>7 DEF n, rest

\* A limiter whose map is in order.
LimiterOK(l, K, now) ==
    /\ l.order \in Seq(K) /\ Distinct(l.order)
    /\ DOMAIN l.hits = ToSet(l.order)
    /\ \A k \in DOMAIN l.hits : Noted(l.hits[k], now)

Hits(l, k) == IF k \in DOMAIN l.hits THEN l.hits[k] ELSE << >>

\* What check does to the map: l before, r after.
CheckDoes(l, r, key, now, limit) ==
    LET recent == Recent(l, key, now)
    IN  /\ key \in DOMAIN r.hits /\ DOMAIN r.hits \subseteq DOMAIN l.hits \cup {key}
        /\ r.hits[key] = IF Len(recent) < limit THEN Append(recent, now) ELSE recent
        /\ \A k \in DOMAIN r.hits \ {key} : r.hits[k] = l.hits[k]
        /\ Hotter(r.order, key) = {}
        /\ \A k \in DOMAIN r.hits \ {key} :
              Hotter(r.order, k) \subseteq Hotter(l.order, k) \cup {key}
        /\ \A k \in DOMAIN l.hits \ DOMAIN r.hits :
              \E H : /\ H \subseteq Hotter(l.order, k) \cup {key}
                     /\ IsFiniteSet(H) => Cardinality(H) >= MaxKeys

LEMMA RecentIs ==
  ASSUME NEW K, NEW now \in Int, NEW l, LimiterOK(l, K, now), NEW key
  PROVE  /\ Noted(Hits(l, key), now)
         /\ LastOf(Recent(l, key, now), Hits(l, key), now - Window)
         /\ Noted(Recent(l, key, now), now)
<1>1. Noted(Hits(l, key), now)
  BY DEF LimiterOK, Hits, Noted
<1>2. now - Window \in Int
  BY LimiterAssumption
<1>3. Recent(l, key, now) = Within(Hits(l, key), now - Window)
  BY DEF Recent, Hits
<1> QED BY <1>1, <1>2, <1>3, WithinIsLast

LEMMA CheckedIs ==
  ASSUME NEW K, NEW now \in Int, NEW limit \in Nat \ {0}, NEW l, LimiterOK(l, K, now),
         NEW key \in K
  PROVE  /\ LimiterOK(Checked(l, key, now, limit), K, now)
         /\ CheckDoes(l, Checked(l, key, now, limit), key, now, limit)
<1> DEFINE recent  == Recent(l, key, now)
           allowed == Len(recent) < limit
           keys    == Append(RemoveFirst(l.order, key), key)
           evicts  == allowed /\ Len(keys) > MaxKeys
           kept    == IF evicts THEN Tail(keys) ELSE keys
           hits    == [k \in ToSet(kept) |->
                         IF k # key THEN l.hits[k]
                         ELSE IF allowed THEN Append(recent, now) ELSE recent]
           r       == [order |-> kept, hits |-> hits]
<1>1. Checked(l, key, now, limit) = r
  BY DEF Checked, Touched, Allows
<1>2. /\ l.order \in Seq(K) /\ Distinct(l.order) /\ DOMAIN l.hits = ToSet(l.order)
      /\ \A k \in DOMAIN l.hits : Noted(l.hits[k], now)
  BY DEF LimiterOK
<1>3. /\ keys \in Seq(K) /\ Distinct(keys) /\ Len(keys) >= 1 /\ keys[Len(keys)] = key
      /\ ToSet(keys) = ToSet(l.order) \cup {key}
      /\ Hotter(keys, key) = {}
      /\ \A k \in K \ {key} : Hotter(keys, k) \subseteq Hotter(l.order, k) \cup {key}
  <2>1. LastUsed(keys, K, l.order, key)
    BY <1>2, TouchedIs
  <2> HIDE DEF keys
  <2> QED BY <2>1 DEF LastUsed
<1> HIDE DEF keys
<1>4. /\ Tail(keys) \in Seq(K) /\ Distinct(Tail(keys))
      /\ ToSet(Tail(keys)) = ToSet(keys) \ {keys[1]}
      /\ \A k \in K : Hotter(Tail(keys), k) \subseteq Hotter(keys, k)
      /\ \E place : place \in Injection(1 .. Len(keys) - 1, Hotter(keys, keys[1]))
  BY <1>3, ColdestGoes
<1>5. Noted(recent, now) /\ Noted(Append(recent, now), now)
  BY RecentIs, NotedGrows
<1> HIDE DEF recent
<1>6. MaxKeys \in Nat \ {0}
  BY LimiterAssumption
<1>7. evicts => keys[1] # key /\ keys[1] \in ToSet(keys)
  <2> SUFFICES ASSUME evicts PROVE keys[1] # key /\ keys[1] \in ToSet(keys)
    OBVIOUS
  <2>1. Len(keys) > 1 /\ 1 \in 1 .. Len(keys) /\ Len(keys) \in 1 .. Len(keys)
    BY <1>3, <1>6
  <2>2. keys[1] # key
    BY <1>3, <2>1 DEF Distinct
  <2>3. keys[1] \in ToSet(keys)
    BY <1>3, <2>1, ToSetIs
  <2> QED BY <2>2, <2>3
<1> DEFINE gone == IF evicts THEN {keys[1]} ELSE {}
<1>8. /\ kept \in Seq(K) /\ Distinct(kept) /\ ToSet(kept) = ToSet(keys) \ gone
      /\ \A k \in K : Hotter(kept, k) \subseteq Hotter(keys, k)
  BY <1>3, <1>4
<1>9. ToSet(keys) \subseteq K
  BY <1>3, ToSetIs
<1>10. \A k \in gone : \E H : /\ H \subseteq Hotter(l.order, k) \cup {key}
                              /\ IsFiniteSet(H) => Cardinality(H) >= MaxKeys
  <2> SUFFICES ASSUME evicts
               PROVE  \E H : /\ H \subseteq Hotter(l.order, keys[1]) \cup {key}
                             /\ IsFiniteSet(H) => Cardinality(H) >= MaxKeys
    OBVIOUS
  <2> DEFINE H == Hotter(keys, keys[1])
  <2>1. keys[1] \in K \ {key}
    BY <1>7, <1>9
  <2>2. H \subseteq Hotter(l.order, keys[1]) \cup {key}
    BY <1>3, <2>1
  <2>3. PICK place : place \in Injection(1 .. Len(keys) - 1, H)
    BY <1>4
  <2>4. Len(keys) - 1 \in Nat /\ Len(keys) - 1 >= MaxKeys
    BY <1>3, <1>6
  <2> HIDE DEF H
  <2>5. ASSUME IsFiniteSet(H) PROVE Cardinality(H) >= MaxKeys
    <3>1. Cardinality(1 .. Len(keys) - 1) = Len(keys) - 1
      BY <2>4, FS_Interval
    <3>2. Cardinality(1 .. Len(keys) - 1) <= Cardinality(H)
      BY <2>3, <2>5, FS_Injection
    <3>3. Cardinality(H) \in Nat
      BY <2>5, FS_CardinalityType
    <3> QED BY <1>6, <2>4, <3>1, <3>2, <3>3
  <2> QED BY <2>2, <2>5
<1> HIDE DEF kept, evicts
<1>11. key \in ToSet(kept) /\ ToSet(kept) \subseteq DOMAIN l.hits \cup {key}
       /\ DOMAIN l.hits \ ToSet(kept) \subseteq gone
  BY <1>2, <1>3, <1>7, <1>8
<1> HIDE DEF gone
<1>12. /\ DOMAIN hits = ToSet(kept)
       /\ hits[key] = IF allowed THEN Append(recent, now) ELSE recent
       /\ \A k \in ToSet(kept) \ {key} : hits[k] = l.hits[k] /\ k \in DOMAIN l.hits
  BY <1>11
<1> HIDE DEF hits
<1>13. LimiterOK(r, K, now)
  <2>1. \A k \in DOMAIN hits : Noted(hits[k], now)
    BY <1>2, <1>5, <1>12
  <2> QED BY <1>8, <1>12, <2>1 DEF LimiterOK
<1>14. ToSet(kept) \subseteq K
  BY <1>8, <1>9
<1>15. CheckDoes(l, r, key, now, limit)
  <2>1. Hotter(kept, key) = {}
    BY <1>3, <1>8
  <2>2. \A k \in ToSet(kept) \ {key} : Hotter(kept, k) \subseteq Hotter(l.order, k) \cup {key}
    BY <1>3, <1>8, <1>14
  <2>3. r.order = kept /\ r.hits = hits
    OBVIOUS
  <2> HIDE DEF r
  <2> QED BY <1>10, <1>11, <1>12, <2>1, <2>2, <2>3 DEF CheckDoes, recent
<1> QED BY <1>1, <1>13, <1>15

-----------------------------------------------------------------------------
(* ApiGuard, the budget of a caller.  A key is forgotten only when MaxKeys *)
(* others came in since it was last used, so what the limiter still holds of*)
(* a caller covers what was granted to it inside the window.               *)

\* The times of hits cover those of given that are after since.
Covers(hits, given, since) ==
    \A j \in 0 .. Len(given) - 1 :
        given[Len(given) - j] > since =>
            j < Len(hits) /\ hits[Len(hits) - j] = given[Len(given) - j]

LEMMA CoversOn ==
  ASSUME NEW now \in Int, NEW since \in Int, NEW hits, Noted(hits, now), NEW given, Noted(given, now),
         Covers(hits, given, since),
         NEW hits1, LastOf(hits1, hits, since), NEW given1, LastOf(given1, given, since)
  PROVE  Covers(hits1, given, since) /\ Covers(Append(hits1, now), Append(given1, now), since)
<1> DEFINE h == Len(hits)
           g == Len(given)
           h1 == Len(hits1)
           g1 == Len(given1)
<1>1. /\ h \in Nat /\ g \in Nat /\ h1 \in Nat /\ g1 \in Nat /\ h1 <= h /\ g1 <= g
      /\ hits1 \in Seq(Int) /\ given1 \in Seq(Int)
      /\ \A i \in 1 .. h : hits[i] \in Int
      /\ \A i \in 1 .. g : given[i] \in Int
  BY DEF Noted, LastOf
<1>2. /\ \A j \in 0 .. h1 - 1 : hits1[h1 - j] = hits[h - j] /\ hits[h - j] > since
      /\ \A j \in h1 .. h - 1 : hits[h - j] <= since
      /\ \A j \in 0 .. g1 - 1 : given1[g1 - j] = given[g - j] /\ given[g - j] > since
  BY DEF LastOf
<1>3. \A j \in 0 .. g - 1 : given[g - j] > since => j < h /\ hits[h - j] = given[g - j]
  BY DEF Covers
<1> DEFINE hits2 == Append(hits1, now)
           given2 == Append(given1, now)
<1>4. /\ Len(hits2) = h1 + 1 /\ hits2[h1 + 1] = now /\ \A i \in 1 .. h1 : hits2[i] = hits1[i]
      /\ Len(given2) = g1 + 1 /\ given2[g1 + 1] = now /\ \A i \in 1 .. g1 : given2[i] = given1[i]
  BY <1>1
<1> HIDE DEF h, g, h1, g1, hits2, given2
<1>5. ASSUME NEW j \in 0 .. g - 1, given[g - j] > since
      PROVE  j < h1 /\ hits1[h1 - j] = given[g - j]
  <2>1. j < h /\ hits[h - j] = given[g - j] /\ h - j \in 1 .. h
    BY <1>1, <1>3, <1>5
  <2>2. CASE j \in h1 .. h - 1
    BY <1>1, <1>2, <1>5, <2>1, <2>2
  <2>3. CASE j \in 0 .. h1 - 1
    BY <1>1, <1>2, <2>1, <2>3
  <2> QED BY <1>1, <2>1, <2>2, <2>3
<1>6. Covers(hits1, given, since)
  BY <1>5 DEF Covers, h1, g
<1>7. ASSUME NEW j \in 0 .. g1 PROVE j < h1 + 1 /\ hits2[h1 + 1 - j] = given2[g1 + 1 - j]
  <2>1. CASE j = 0
    BY <1>1, <1>4, <2>1
  <2>2. CASE j # 0
    <3>1. j - 1 \in 0 .. g1 - 1 /\ j - 1 \in 0 .. g - 1
      BY <1>1, <2>2
    <3>2. given1[g1 - (j - 1)] = given[g - (j - 1)] /\ given[g - (j - 1)] > since
      BY <1>2, <3>1
    <3>3. j - 1 < h1 /\ hits1[h1 - (j - 1)] = given[g - (j - 1)]
      BY <1>5, <3>1, <3>2
    <3>4. /\ h1 + 1 - j = h1 - (j - 1) /\ g1 + 1 - j = g1 - (j - 1)
          /\ h1 - (j - 1) \in 1 .. h1 /\ g1 - (j - 1) \in 1 .. g1
      BY <1>1, <3>1, <3>3
    <3> QED BY <1>1, <1>4, <3>2, <3>3, <3>4
  <2> QED BY <2>1, <2>2
<1>8. Covers(hits2, given2, since)
  BY <1>1, <1>4, <1>7 DEF Covers
<1> QED BY <1>6, <1>8 DEF hits2, given2

LEMMA CoversLater ==
  ASSUME NEW hits, NEW given \in Seq(Int), NEW since \in Int, NEW later \in Int, since <= later,
         Covers(hits, given, since)
  PROVE  Covers(hits, given, later)
<1>1. \A j \in 0 .. Len(given) - 1 : given[Len(given) - j] \in Int
  OBVIOUS
<1> QED BY <1>1 DEF Covers

\* So no more are after since than there are hits.
LEMMA CoveredIsBounded ==
  ASSUME NEW now \in Int, NEW since \in Int, NEW hits \in Seq(Int), NEW given, Noted(given, now),
         Covers(hits, given, since)
  PROVE  Len(Within(given, since)) <= Len(hits)
<1> DEFINE late == Within(given, since)
<1>1. LastOf(late, given, since)
  BY WithinIsLast
<1> HIDE DEF late
<1>2. late \in Seq(Int) /\ given \in Seq(Int) /\ Len(late) <= Len(given)
  BY <1>1 DEF LastOf, Noted
<1>3. ASSUME Len(late) > Len(hits) PROVE FALSE
  <2>1. Len(hits) \in 0 .. Len(late) - 1 /\ Len(hits) \in 0 .. Len(given) - 1
    BY <1>2, <1>3
  <2>2. given[Len(given) - Len(hits)] > since
    BY <1>1, <2>1 DEF LastOf
  <2>3. Len(hits) < Len(hits)
    BY <2>1, <2>2 DEF Covers
  <2> QED BY <2>3
<1> QED BY <1>2, <1>3 DEF late

\* The limiter remembers the admissions of a caller in the window, unless MaxKeys
\* others have come in since.
BudgetInv ==
    /\ clock \in Nat
    /\ LimiterOK(limiter, Callers, clock)
    /\ \A c \in DOMAIN limiter.hits : Len(limiter.hits[c]) <= Limit
    /\ others \in [Callers -> {H \in SUBSET Callers : IsFiniteSet(H)}]
    /\ DOMAIN granted = Callers
    /\ \A c \in Callers :
          /\ Noted(granted[c], clock)
          /\ Covers(Hits(limiter, c), granted[c], clock - Window)
          /\ c \in DOMAIN limiter.hits => Hotter(limiter.order, c) \subseteq others[c]

LEMMA BudgetCheck ==
  ASSUME BudgetInv, NEW c \in Callers, Check(c) PROVE BudgetInv'
<1> DEFINE l     == limiter
           r     == limiter'
           since == clock - Window
           seen  == [k \in Callers |-> IF k = c THEN {} ELSE others[k] \union {c}]
<1>1. clock \in Int /\ since \in Int /\ Limit \in Nat \ {0} /\ MaxKeys \in Nat \ {0}
  BY LimiterAssumption, GuardAssumption DEF BudgetInv
<1>2. /\ r = Checked(limiter, c, clock, Limit) /\ others' = seen /\ clock' = clock
      /\ granted' = [k \in Callers |->
                       IF Cardinality(seen[k]) >= MaxKeys THEN << >>
                       ELSE IF k = c /\ Allows(limiter, c, clock, Limit)
                       THEN Append(Within(granted[c], clock - Window), clock)
                       ELSE granted[k]]
  BY DEF Check
<1>3. LimiterOK(r, Callers, clock) /\ CheckDoes(limiter, r, c, clock, Limit)
  BY <1>1, <1>2, CheckedIs DEF BudgetInv
<1>4. /\ Noted(Hits(l, c), clock)
      /\ LastOf(Recent(l, c, clock), Hits(l, c), since)
      /\ Noted(Recent(l, c, clock), clock)
  BY <1>1, RecentIs DEF BudgetInv
<1> DEFINE recent == Recent(l, c, clock)
<1>5. /\ c \in DOMAIN r.hits /\ DOMAIN r.hits \subseteq DOMAIN l.hits \cup {c}
      /\ r.hits[c] = IF Len(recent) < Limit THEN Append(recent, clock) ELSE recent
      /\ \A k \in DOMAIN r.hits \ {c} : r.hits[k] = l.hits[k]
      /\ Hotter(r.order, c) = {}
      /\ \A k \in DOMAIN r.hits \ {c} :
            Hotter(r.order, k) \subseteq Hotter(l.order, k) \cup {c}
      /\ \A k \in DOMAIN l.hits \ DOMAIN r.hits :
            \E H : /\ H \subseteq Hotter(l.order, k) \cup {c}
                   /\ IsFiniteSet(H) => Cardinality(H) >= MaxKeys
  BY <1>3 DEF CheckDoes
<1>6. seen \in [Callers -> {H \in SUBSET Callers : IsFiniteSet(H)}]
  <2>1. \A k \in Callers : others[k] \in SUBSET Callers /\ IsFiniteSet(others[k])
    BY DEF BudgetInv
  <2>2. \A k \in Callers : IsFiniteSet(others[k] \cup {c}) /\ IsFiniteSet({})
    BY <2>1, FS_AddElement, FS_EmptySet
  <2>3. \A k \in Callers : seen[k] \in SUBSET Callers /\ IsFiniteSet(seen[k])
    BY <2>1, <2>2
  <2> QED BY <2>3
<1> HIDE DEF l, r, recent
<1>7. Len(recent) \in Nat /\ Len(recent) <= Limit /\ Len(r.hits[c]) <= Limit
      /\ Len(Append(recent, clock)) = Len(recent) + 1
  <2>1. recent \in Seq(Int) /\ Len(Append(recent, clock)) = Len(recent) + 1
    BY <1>4 DEF Noted, recent
  <2>2. Len(Hits(l, c)) <= Limit
    BY <1>1 DEF BudgetInv, Hits, l
  <2>3. Len(recent) <= Len(Hits(l, c)) /\ Len(Hits(l, c)) \in Nat
    BY <1>4 DEF LastOf, Noted, recent
  <2> QED BY <1>1, <1>5, <2>1, <2>2, <2>3
<1>8. \A k \in DOMAIN r.hits : Len(r.hits[k]) <= Limit
  BY <1>5, <1>7 DEF BudgetInv, l
<1>9. /\ Noted(granted'[c], clock) /\ Covers(Hits(r, c), granted'[c], since)
      /\ Hotter(r.order, c) \subseteq others'[c]
  <2> DEFINE given == granted[c]
             late  == Within(given, since)
  <2>1. Noted(given, clock) /\ Covers(Hits(l, c), given, since)
    BY DEF BudgetInv, l
  <2>2. LastOf(late, given, since) /\ Noted(late, clock)
    BY <1>1, <2>1, WithinIsLast
  <2>3. Noted(Append(late, clock), clock)
    BY <1>1, <2>2, NotedGrows
  <2>4. Hits(r, c) = IF Len(recent) < Limit THEN Append(recent, clock) ELSE recent
    BY <1>5 DEF Hits
  <2>5. granted'[c] = IF Len(recent) < Limit THEN Append(late, clock) ELSE given
    <3>1. seen[c] = {} /\ ~ (Cardinality({}) >= MaxKeys)
      BY <1>1, FS_EmptySet
    <3>2. Allows(limiter, c, clock, Limit) <=> Len(recent) < Limit
      BY DEF Allows, recent, l
    <3> QED BY <1>2, <3>1, <3>2
  <2> HIDE DEF given, late
  <2>6. Covers(recent, given, since) /\ Covers(Append(recent, clock), Append(late, clock), since)
    BY <1>1, <1>4, <2>1, <2>2, CoversOn DEF recent
  <2> QED BY <1>5, <2>1, <2>3, <2>4, <2>5, <2>6
<1>10. ASSUME NEW k \in Callers, k # c
       PROVE  /\ Noted(granted'[k], clock) /\ Covers(Hits(r, k), granted'[k], since)
              /\ k \in DOMAIN r.hits => Hotter(r.order, k) \subseteq others'[k]
  <2>1. /\ granted'[k] = IF Cardinality(seen[k]) >= MaxKeys THEN << >> ELSE granted[k]
        /\ others'[k] = seen[k] /\ seen[k] = others[k] \cup {c}
    BY <1>2, <1>10
  <2>2. /\ Noted(granted[k], clock) /\ Covers(Hits(l, k), granted[k], since)
        /\ k \in DOMAIN l.hits => Hotter(l.order, k) \subseteq others[k]
    BY DEF BudgetInv, l
  <2>3. Noted(<< >>, clock) /\ \A H : Covers(H, << >>, since)
    BY DEF Noted, Covers
  <2>4. Noted(granted'[k], clock)
    BY <2>1, <2>2, <2>3
  <2>5. k \in DOMAIN r.hits => Hotter(r.order, k) \subseteq others'[k]
    BY <1>5, <1>10, <2>1, <2>2
  <2>6. CASE Hits(r, k) = Hits(l, k)
    <3>1. Covers(Hits(r, k), granted[k], since)
      BY <2>2, <2>6
    <3>2. Covers(Hits(r, k), << >>, since)
      BY <2>3
    <3>3. granted'[k] = << >> \/ granted'[k] = granted[k]
      BY <2>1
    <3>4. Covers(Hits(r, k), granted'[k], since)
      BY <3>1, <3>2, <3>3
    <3> QED BY <2>4, <2>5, <3>4
  <2>7. CASE Hits(r, k) # Hits(l, k)
    <3>1. k \in DOMAIN l.hits \ DOMAIN r.hits
      BY <1>5, <1>10, <2>7 DEF Hits
    <3>2. PICK H : /\ H \subseteq Hotter(l.order, k) \cup {c}
                   /\ IsFiniteSet(H) => Cardinality(H) >= MaxKeys
      BY <1>5, <3>1
    <3>3. H \subseteq seen[k] /\ IsFiniteSet(seen[k])
      BY <1>6, <2>1, <2>2, <3>1, <3>2
    <3>4. IsFiniteSet(H) /\ Cardinality(H) <= Cardinality(seen[k])
      BY <3>3, FS_Subset
    <3>5. Cardinality(H) \in Nat /\ Cardinality(seen[k]) \in Nat
      BY <3>3, <3>4, FS_CardinalityType
    <3>6. Cardinality(seen[k]) >= MaxKeys
      BY <1>1, <3>2, <3>4, <3>5
    <3> QED BY <2>1, <2>3, <2>4, <2>5, <3>6
  <2> QED BY <2>4, <2>5, <2>6, <2>7
<1>11. \A k \in Callers :
          /\ Noted(granted'[k], clock) /\ Covers(Hits(r, k), granted'[k], since)
          /\ k \in DOMAIN r.hits => Hotter(r.order, k) \subseteq others'[k]
  BY <1>9, <1>10
<1>12. DOMAIN granted' = Callers
  BY <1>2
<1>13. clock' \in Nat /\ clock' - Window = since
  BY <1>2 DEF BudgetInv
<1>14. /\ LimiterOK(limiter', Callers, clock')
       /\ \A k \in DOMAIN limiter'.hits : Len(limiter'.hits[k]) <= Limit
       /\ others' \in [Callers -> {H \in SUBSET Callers : IsFiniteSet(H)}]
  BY <1>2, <1>3, <1>6, <1>8 DEF r
<1>15. \A k \in Callers :
          /\ Noted(granted'[k], clock')
          /\ Covers(Hits(limiter', k), granted'[k], clock' - Window)
          /\ k \in DOMAIN limiter'.hits => Hotter(limiter'.order, k) \subseteq others'[k]
  <2> TAKE k \in Callers
  <2>1. /\ Noted(granted'[k], clock) /\ Covers(Hits(r, k), granted'[k], since)
        /\ k \in DOMAIN r.hits => Hotter(r.order, k) \subseteq others'[k]
    BY <1>11
  <2>2. Noted(granted'[k], clock')
    BY <1>2, <2>1
  <2>3. Covers(Hits(r, k), granted'[k], clock' - Window)
    BY <1>13, <2>1
  <2> QED BY <2>1, <2>2, <2>3 DEF r
<1> QED BY <1>12, <1>13, <1>14, <1>15 DEF BudgetInv

LEMMA BudgetSteps == BudgetInv /\ [GuardNext]_guard => BudgetInv'
<1> SUFFICES ASSUME BudgetInv, [GuardNext]_guard PROVE BudgetInv'
  OBVIOUS
<1>1. ASSUME NEW c \in Callers, Check(c) PROVE BudgetInv'
  BY <1>1, BudgetCheck
<1>2. ASSUME NEW k \in Kinds, Alert(k) PROVE BudgetInv'
  BY <1>2 DEF Alert, BudgetInv
<1>3. CASE Tick
  <2>1. clock' = clock + 1 /\ clock \in Nat /\ UNCHANGED <<limiter, granted, others>>
    BY <1>3 DEF Tick, BudgetInv
  <2>2. \A times : Noted(times, clock) => Noted(times, clock')
    BY <2>1 DEF Noted
  <2>3. LimiterOK(limiter, Callers, clock')
    BY <2>2 DEF LimiterOK, BudgetInv
  <2>4. ASSUME NEW c \in Callers
        PROVE  Covers(Hits(limiter, c), granted[c], clock' - Window)
    <3>1. Covers(Hits(limiter, c), granted[c], clock - Window) /\ granted[c] \in Seq(Int)
      BY DEF BudgetInv, Noted
    <3>2. /\ clock - Window \in Int /\ clock' - Window \in Int
          /\ clock - Window <= clock' - Window
      BY <2>1, LimiterAssumption
    <3> QED BY <3>1, <3>2, CoversLater
  <2> QED BY <2>1, <2>2, <2>3, <2>4 DEF BudgetInv, Hits
<1>4. CASE UNCHANGED guard
  BY <1>4 DEF guard, BudgetInv, LimiterOK, Hits
<1> QED BY <1>1, <1>2, <1>3, <1>4 DEF GuardNext

\* No caller gets more than Limit requests through in a window while the limiter
\* keeps its key, for every limit, window and bound of the map (RateLimiter.check).
THEOREM BudgetEverHolds == GuardSpec => []BudgetHolds
<1>1. GuardInit => BudgetInv
  <2> SUFFICES ASSUME GuardInit PROVE BudgetInv
    OBVIOUS
  <2>1. LimiterOK(limiter, Callers, 0)
    BY DEF GuardInit, EmptyLimiter, LimiterOK, Distinct, ToSet
  <2>2. Noted(<< >>, 0) /\ \A H : Covers(H, << >>, 0 - Window)
    BY DEF Noted, Covers
  <2>3. DOMAIN limiter.hits = {}
    BY DEF GuardInit, EmptyLimiter
  <2> QED BY <2>1, <2>2, <2>3, FS_EmptySet DEF GuardInit, BudgetInv
<1>2. BudgetInv => BudgetHolds
  <2> SUFFICES ASSUME BudgetInv, NEW c \in Callers
               PROVE  Len(Within(granted[c], clock - Window)) <= Limit
    BY DEF BudgetHolds
  <2>1. clock \in Int /\ clock - Window \in Int /\ Limit \in Nat
    BY LimiterAssumption, GuardAssumption DEF BudgetInv
  <2>2. Hits(limiter, c) \in Seq(Int) /\ Len(Hits(limiter, c)) <= Limit
    BY <2>1 DEF BudgetInv, Hits, LimiterOK, Noted
  <2>3. Len(Within(granted[c], clock - Window)) <= Len(Hits(limiter, c))
    BY <2>1, <2>2, CoveredIsBounded DEF BudgetInv
  <2>4. LastOf(Within(granted[c], clock - Window), granted[c], clock - Window)
    BY <2>1, WithinIsLast DEF BudgetInv
  <2> QED BY <2>1, <2>2, <2>3, <2>4 DEF LastOf
<1> QED BY <1>1, <1>2, BudgetSteps, PTL DEF GuardSpec

-----------------------------------------------------------------------------
(* ControlApi.  Every hit a budget holds is backed by a request of its own *)
(* that was let in, of one who shares the key, so a full budget is as many *)
(* such requests.                                                          *)

Answers == {"admitted", "429", "401", "403", "409", "done", "calling", "working"}
Requests == [from : Clients, endpoint : Endpoints, at : Int, answer : Answers]
Buckets == {"read", "control"}

\* later are the requests of earlier, some of them answered since, and more.
Follow(later, earlier) ==
    /\ Len(earlier) <= Len(later)
    /\ \A i \in 1 .. Len(earlier) :
          /\ later[i].from = earlier[i].from /\ later[i].endpoint = earlier[i].endpoint
          /\ later[i].at = earlier[i].at
          /\ later[i].answer = "429" <=> earlier[i].answer = "429"

\* Each time of times is that of a request of its own that was let in, from one of
\* who to one of eps.
Backs(asked, times, who, eps, reqs) ==
    /\ asked \in [1 .. Len(times) -> 1 .. Len(reqs)]
    /\ \A i, j \in 1 .. Len(times) : asked[i] = asked[j] => i = j
    /\ \A i \in 1 .. Len(times) :
          /\ reqs[asked[i]].from \in who /\ reqs[asked[i]].endpoint \in eps
          /\ reqs[asked[i]].at = times[i] /\ reqs[asked[i]].answer # "429"

Backed(times, who, eps, reqs) == \E asked : Backs(asked, times, who, eps, reqs)

LEMMA BackedOn ==
  ASSUME NEW reqs \in Seq(Requests), NEW later \in Seq(Requests), Follow(later, reqs),
         NEW times \in Seq(Int), NEW who, NEW eps, Backed(times, who, eps, reqs)
  PROVE  Backed(times, who, eps, later)
<1>1. PICK asked : Backs(asked, times, who, eps, reqs)
  BY DEF Backed
<1>2. \A i \in 1 .. Len(times) : asked[i] \in 1 .. Len(reqs) /\ asked[i] \in 1 .. Len(later)
  BY <1>1 DEF Backs, Follow
<1>3. asked \in [1 .. Len(times) -> 1 .. Len(later)]
  BY <1>1, <1>2 DEF Backs
<1>4. Backs(asked, times, who, eps, later)
  BY <1>1, <1>2, <1>3 DEF Backs, Follow
<1> QED BY <1>4 DEF Backed

LEMMA BackedRecent ==
  ASSUME NEW reqs \in Seq(Requests), NEW times \in Seq(Int), NEW who, NEW eps,
         Backed(times, who, eps, reqs), NEW since, NEW recent, LastOf(recent, times, since)
  PROVE  Backed(recent, who, eps, reqs)
<1> DEFINE n == Len(times)
           m == Len(recent)
           gone == n - m
<1>1. PICK asked : Backs(asked, times, who, eps, reqs)
  BY DEF Backed
<1>2. n \in Nat /\ m \in Nat /\ gone \in Nat
  BY DEF LastOf
<1>3. ASSUME NEW i \in 1 .. m PROVE gone + i \in 1 .. n /\ recent[i] = times[gone + i]
  <2>1. m - i \in 0 .. m - 1 /\ m - (m - i) = i /\ n - (m - i) = gone + i
    BY <1>2
  <2>2. recent[m - (m - i)] = times[n - (m - i)]
    BY <2>1 DEF LastOf
  <2> QED BY <1>2, <2>1, <2>2
<1> DEFINE later == [i \in 1 .. m |-> asked[gone + i]]
<1> HIDE DEF n, m, gone
<1>4. Backs(later, recent, who, eps, reqs)
  <2>1. \A i \in 1 .. m : /\ later[i] = asked[gone + i] /\ later[i] \in 1 .. Len(reqs)
                          /\ gone + i \in 1 .. n
    BY <1>1, <1>3 DEF Backs, n
  <2>2. \A i, j \in 1 .. m : gone + i = gone + j => i = j
    BY <1>2
  <2>3. \A i, j \in 1 .. m : later[i] = later[j] => i = j
    BY <1>1, <2>1, <2>2 DEF Backs, n
  <2>4. later \in [1 .. m -> 1 .. Len(reqs)]
    BY <2>1
  <2> HIDE DEF later
  <2>5. ASSUME NEW i \in 1 .. m
        PROVE  /\ reqs[later[i]].from \in who /\ reqs[later[i]].endpoint \in eps
               /\ reqs[later[i]].at = recent[i] /\ reqs[later[i]].answer # "429"
    <3>1. later[i] = asked[gone + i] /\ gone + i \in 1 .. n /\ recent[i] = times[gone + i]
      BY <1>3, <2>1
    <3> QED BY <1>1, <3>1 DEF Backs, n
  <2> QED BY <2>3, <2>4, <2>5 DEF Backs, m
<1> QED BY <1>4 DEF Backed

LEMMA BackedMore ==
  ASSUME NEW reqs \in Seq(Requests), NEW q \in Requests, q.answer # "429",
         NEW recent \in Seq(Int), NEW who, NEW eps, Backed(recent, who, eps, reqs),
         q.from \in who, q.endpoint \in eps
  PROVE  Backed(Append(recent, q.at), who, eps, Append(reqs, q))
<1> DEFINE m == Len(recent)
           n == Len(reqs)
           times == Append(recent, q.at)
           more  == Append(reqs, q)
<1>1. PICK asked : Backs(asked, recent, who, eps, reqs)
  BY DEF Backed
<1>2. /\ m \in Nat /\ n \in Nat /\ Len(times) = m + 1 /\ Len(more) = n + 1
      /\ \A i \in 1 .. m : times[i] = recent[i]
      /\ \A i \in 1 .. n : more[i] = reqs[i]
      /\ times[m + 1] = q.at /\ more[n + 1] = q
  OBVIOUS
<1>3. \A i \in 1 .. m : asked[i] \in 1 .. n
  BY <1>1 DEF Backs
<1> DEFINE next == [i \in 1 .. m + 1 |-> IF i = m + 1 THEN n + 1 ELSE asked[i]]
<1> HIDE DEF m, n, times, more
<1>4. \A i \in 1 .. m + 1 : i = m + 1 \/ i \in 1 .. m
  BY <1>2
<1>5. \A i \in 1 .. m : next[i] = asked[i] /\ next[i] \in 1 .. n /\ i \in 1 .. m + 1
  BY <1>2, <1>3
<1>6. next[m + 1] = n + 1 /\ n + 1 \in 1 .. n + 1 /\ n + 1 \notin 1 .. n
  BY <1>2
<1>7. next \in [1 .. m + 1 -> 1 .. n + 1]
  BY <1>2, <1>3, <1>4
<1> HIDE DEF next
<1>8. \A i, j \in 1 .. m + 1 : next[i] = next[j] => i = j
  <2>1. \A i, j \in 1 .. m : next[i] = next[j] => i = j
    BY <1>1, <1>5 DEF Backs, m
  <2>2. \A i \in 1 .. m : next[i] # next[m + 1]
    BY <1>5, <1>6
  <2> QED BY <1>4, <2>1, <2>2
<1>9. ASSUME NEW i \in 1 .. m + 1
      PROVE  /\ more[next[i]].from \in who /\ more[next[i]].endpoint \in eps
             /\ more[next[i]].at = times[i] /\ more[next[i]].answer # "429"
  <2>1. CASE i = m + 1
    BY <1>2, <1>6, <2>1
  <2>2. CASE i \in 1 .. m
    BY <1>1, <1>2, <1>5, <2>2 DEF Backs, m
  <2> QED BY <1>4, <2>1, <2>2
<1>10. Backs(next, times, who, eps, more)
  BY <1>2, <1>7, <1>8, <1>9 DEF Backs
<1> QED BY <1>10 DEF Backed, times, more

-----------------------------------------------------------------------------
\* The clients and the endpoints that share a budget.
Spenders(key) == {c \in Clients : Identity(c) = key}
EndpointsOf(bucket) == {e \in Endpoints : Bucket(e) = bucket}
Identities == {<<"token">>} \cup {<<"ip", AddressOf[c]>> : c \in Clients}

\* Sharing and the requests it speaks of, when sec says whether a token is set.
Together(sec, c, d) ==
    IF sec /\ TokenHolder \in {c, d} THEN c = d ELSE AddressOf[c] = AddressOf[d]

Spent(sec, reqs, i) ==
    {j \in 1 .. i - 1 : /\ Together(sec, reqs[i].from, reqs[j].from)
                        /\ Bucket(reqs[i].endpoint) = Bucket(reqs[j].endpoint)
                        /\ reqs[j].at > reqs[i].at - Window
                        /\ reqs[j].answer # "429"}

Refusals(sec, reqs) ==
    \A i \in 1 .. Len(reqs) :
        reqs[i].answer = "429" =>
            Cardinality(Spent(sec, reqs, i)) >= LimitOf(Bucket(reqs[i].endpoint))

ApiTypes ==
    /\ secured \in BOOLEAN /\ isLive \in BOOLEAN /\ instant \in Nat
    /\ requests \in Seq(Requests)

BudgetsBacked ==
    /\ DOMAIN budgets = Buckets
    /\ \A b \in Buckets :
          /\ LimiterOK(budgets[b], Identities, instant)
          /\ \A k \in DOMAIN budgets[b].hits :
                Backed(budgets[b].hits[k], Spenders(k), EndpointsOf(b), requests)

OneInside ==
    /\ inside = IF serviceLock = Nobody THEN {} ELSE {serviceLock}
    /\ serviceLock \in {Nobody, Loop} \cup (1 .. Len(requests))
    /\ \A i \in 1 .. Len(requests) :
          /\ requests[i].answer = "working" <=> serviceLock = i
          /\ requests[i].answer \in {"calling", "working"} =>
                ~ isLive /\ (secured => requests[i].from = TokenHolder)

ApiInv == ApiTypes /\ BudgetsBacked /\ Refusals(secured, requests) /\ OneInside

\* An answer changes nothing of what was asked, nor which requests were refused.
LEMMA AnAnswerKeeps ==
  ASSUME NEW reqs \in Seq(Requests), NEW i \in 1 .. Len(reqs), NEW a \in Answers \ {"429"},
         reqs[i].answer # "429", NEW sec
  PROVE  LET later == [reqs EXCEPT ![i].answer = a]
         IN  /\ later \in Seq(Requests) /\ Len(later) = Len(reqs)
             /\ \A j \in 1 .. Len(reqs) :
                   later[j] = IF j = i THEN [reqs[i] EXCEPT !.answer = a] ELSE reqs[j]
             /\ Follow(later, reqs)
             /\ Refusals(sec, reqs) => Refusals(sec, later)
<1> DEFINE later == [reqs EXCEPT ![i].answer = a]
<1>1. \A j \in 1 .. Len(reqs) :
         later[j] = IF j = i THEN [reqs[i] EXCEPT !.answer = a] ELSE reqs[j]
  OBVIOUS
<1>2. later \in Seq(Requests) /\ Len(later) = Len(reqs) /\ Len(reqs) \in Nat
  <2>1. reqs[i] \in Requests
    OBVIOUS
  <2>2. [reqs[i] EXCEPT !.answer = a] \in Requests
    BY <2>1 DEF Requests
  <2> QED BY <2>2
<1> HIDE DEF later
<1>3. \A j \in 1 .. Len(reqs) :
         /\ later[j].from = reqs[j].from /\ later[j].endpoint = reqs[j].endpoint
         /\ later[j].at = reqs[j].at
         /\ later[j].answer = "429" <=> reqs[j].answer = "429"
  <2> TAKE j \in 1 .. Len(reqs)
  <2>1. reqs[j] \in Requests
    OBVIOUS
  <2> QED BY <1>1, <2>1 DEF Requests
<1>4. Follow(later, reqs)
  BY <1>2, <1>3 DEF Follow
<1>5. Refusals(sec, reqs) => Refusals(sec, later)
  <2>1. \A j \in 1 .. Len(reqs) : Spent(sec, later, j) = Spent(sec, reqs, j)
    BY <1>2, <1>3 DEF Spent
  <2> QED BY <1>2, <1>3, <2>1 DEF Refusals
<1> QED BY <1>1, <1>2, <1>4, <1>5 DEF later

LEMMA AnswerKeepsInv ==
  ASSUME ApiInv, NEW i \in 1 .. Len(requests), NEW a \in Answers \ {"429"},
         requests[i].answer # "429", requests' = [requests EXCEPT ![i].answer = a],
         UNCHANGED <<secured, isLive, instant, budgets>>
  PROVE  OneInside' => ApiInv'
<1>1. requests \in Seq(Requests) /\ Refusals(secured, requests)
  BY DEF ApiInv, ApiTypes
<1>2. /\ requests' \in Seq(Requests) /\ Follow(requests', requests)
      /\ Refusals(secured, requests')
  BY <1>1, AnAnswerKeeps
<1>3. \A b \in Buckets : \A k \in DOMAIN budgets[b].hits :
         Backed(budgets[b].hits[k], Spenders(k), EndpointsOf(b), requests')
  <2> TAKE b \in Buckets
  <2> TAKE k \in DOMAIN budgets[b].hits
  <2>1. /\ budgets[b].hits[k] \in Seq(Int)
        /\ Backed(budgets[b].hits[k], Spenders(k), EndpointsOf(b), requests)
    BY DEF ApiInv, BudgetsBacked, LimiterOK, Noted
  <2>2. \A eps, who : \A times \in Seq(Int) :
           Backed(times, who, eps, requests) => Backed(times, who, eps, requests')
    BY <1>1, <1>2, BackedOn
  <2> QED BY <2>1, <2>2
<1>4. \A k : Spenders(k)' = Spenders(k)
  BY DEF Spenders, Identity
<1>5. BudgetsBacked'
  BY <1>3, <1>4 DEF ApiInv, BudgetsBacked
<1>6. ApiTypes'
  BY <1>2 DEF ApiInv, ApiTypes
<1> QED BY <1>2, <1>5, <1>6 DEF ApiInv

LEMMA AskedMore ==
  ASSUME NEW reqs \in Seq(Requests), NEW q \in Requests, NEW sec
  PROVE  LET later == Append(reqs, q)
             n     == Len(reqs)
         IN  /\ later \in Seq(Requests) /\ Len(later) = n + 1 /\ later[n + 1] = q
             /\ \A i \in 1 .. n : later[i] = reqs[i]
             /\ Follow(later, reqs)
             /\ /\ Refusals(sec, reqs)
                /\ q.answer = "429" => Cardinality(Spent(sec, later, n + 1))
                                          >= LimitOf(Bucket(q.endpoint))
                => Refusals(sec, later)
<1> DEFINE later == Append(reqs, q)
           n == Len(reqs)
<1>1. /\ later \in Seq(Requests) /\ Len(later) = n + 1 /\ later[n + 1] = q /\ n \in Nat
      /\ \A i \in 1 .. n : later[i] = reqs[i]
  OBVIOUS
<1> HIDE DEF later, n
<1>2. Follow(later, reqs)
  BY <1>1 DEF Follow, n
<1>3. ASSUME Refusals(sec, reqs),
             q.answer = "429" => Cardinality(Spent(sec, later, n + 1))
                                    >= LimitOf(Bucket(q.endpoint))
      PROVE  Refusals(sec, later)
  <2>1. ASSUME NEW i \in 1 .. n PROVE Spent(sec, later, i) = Spent(sec, reqs, i)
    <3>1. \A j \in 1 .. i - 1 : later[j] = reqs[j]
      BY <1>1
    <3> QED BY <1>1, <3>1 DEF Spent
  <2>2. \A i \in 1 .. n + 1 : i \in 1 .. n \/ i = n + 1
    BY <1>1
  <2> QED BY <1>1, <1>3, <2>1, <2>2 DEF Refusals, n
<1> QED BY <1>1, <1>2, <1>3 DEF later, n

LEMMA RefusedHadTheirs ==
  ASSUME NEW reqs \in Seq(Requests), NEW q \in Requests, NEW recent \in Seq(Int),
         NEW who, NEW eps, NEW sec, Backed(recent, who, eps, reqs),
         \A i \in 1 .. Len(recent) : recent[i] > q.at - Window,
         \A d \in who : Together(sec, q.from, d),
         \A e \in eps : Bucket(q.endpoint) = Bucket(e)
  PROVE  Cardinality(Spent(sec, Append(reqs, q), Len(reqs) + 1)) >= Len(recent)
<1> DEFINE later == Append(reqs, q)
           n == Len(reqs)
           m == Len(recent)
           S == Spent(sec, later, n + 1)
<1>1. /\ later[n + 1] = q /\ n \in Nat /\ m \in Nat /\ n + 1 - 1 = n
      /\ \A i \in 1 .. n : later[i] = reqs[i]
  OBVIOUS
<1>2. PICK asked : Backs(asked, recent, who, eps, reqs)
  BY DEF Backed
<1> HIDE DEF later, n, m
<1>3. S \subseteq 1 .. n
  BY <1>1 DEF Spent
<1>4. IsFiniteSet(1 .. n) /\ IsFiniteSet(1 .. m) /\ Cardinality(1 .. m) = m
  <2>1. 1 \in Int /\ n \in Int /\ m \in Int
    BY <1>1
  <2>2. /\ IsFiniteSet(1 .. n) /\ IsFiniteSet(1 .. m)
        /\ Cardinality(1 .. m) = IF 1 > m THEN 0 ELSE m - 1 + 1
    BY <2>1, FS_Interval
  <2> QED BY <1>1, <2>2
<1>5. IsFiniteSet(S)
  BY <1>3, <1>4, FS_Subset
<1>6. ASSUME NEW i \in 1 .. m PROVE asked[i] \in S
  <2>1. /\ asked[i] \in 1 .. n /\ later[asked[i]] = reqs[asked[i]]
        /\ later[asked[i]].from \in who /\ later[asked[i]].endpoint \in eps
        /\ later[asked[i]].at = recent[i] /\ later[asked[i]].answer # "429"
    BY <1>1, <1>2 DEF Backs, n, m
  <2>2. recent[i] > q.at - Window
    BY DEF m
  <2> QED BY <1>1, <2>1, <2>2 DEF Spent
<1> HIDE DEF S
<1>7. asked \in Injection(1 .. m, S)
  BY <1>2, <1>6 DEF Backs, m, Injection, IsInjective
<1>8. Cardinality(1 .. m) <= Cardinality(S)
  BY <1>4, <1>5, <1>7, FS_Injection
<1>9. Cardinality(S) \in Nat
  BY <1>5, FS_CardinalityType
<1> QED BY <1>1, <1>4, <1>8, <1>9 DEF S, later, n, m

\* A client spends the budget of its own key, and those who share it are the ones
\* nothing but the address tells apart.
LEMMA KeyIsShared ==
  ASSUME NEW c \in Clients
  PROVE  /\ Identity(c) \in Identities /\ c \in Spenders(Identity(c))
         /\ \A d \in Spenders(Identity(c)) : Together(secured, c, d)
<1>1. Identity(c) \in Identities /\ c \in Spenders(Identity(c))
  BY DEF Identity, Identities, Spenders
<1>2. \A x : <<"token">> # <<"ip", x>>
  OBVIOUS
<1>3. \A d \in Spenders(Identity(c)) : Together(secured, c, d)
  BY <1>2 DEF Identity, Spenders, Together
<1> QED BY <1>1, <1>3

\* l is the limiter of eps, every hit of which one of reqs backs.
BudgetOf(l, eps, reqs, now) ==
    /\ LimiterOK(l, Identities, now)
    /\ \A k \in DOMAIN l.hits : Backed(l.hits[k], Spenders(k), eps, reqs)

\* q, the answer of which the limiter l of eps gives.
AnsweredBy(l, q, eps, limit) ==
    /\ q.answer = "429" <=> ~Allows(l, Identity(q.from), q.at, limit)
    /\ q.endpoint \in eps /\ \A e \in eps : Bucket(q.endpoint) = Bucket(e)

RefusedRightly(q, later, limit) ==
    q.answer = "429" => Cardinality(Spent(secured, later, Len(later))) >= limit

\* The budgets after a request of c, whether it is let in or not.
LEMMA BudgetAsked ==
  ASSUME NEW c \in Clients, NEW l, NEW reqs \in Seq(Requests), NEW q \in Requests,
         NEW now \in Int, NEW limit \in Nat \ {0}, NEW eps,
         BudgetOf(l, eps, reqs, now), AnsweredBy(l, q, eps, limit),
         q.from = c, q.at = now
  PROVE  /\ BudgetOf(Checked(l, Identity(c), now, limit), eps, Append(reqs, q), now)
         /\ RefusedRightly(q, Append(reqs, q), limit)
<1> DEFINE key    == Identity(c)
           r      == Checked(l, key, now, limit)
           later  == Append(reqs, q)
           recent == Recent(l, key, now)
<1> USE DEF BudgetOf, AnsweredBy
<1>1. /\ key \in Identities /\ c \in Spenders(key)
      /\ \A d \in Spenders(key) : Together(secured, c, d)
  BY KeyIsShared
<1>2. LimiterOK(r, Identities, now) /\ CheckDoes(l, r, key, now, limit)
  BY <1>1, CheckedIs
<1>3. /\ Noted(Hits(l, key), now) /\ Noted(recent, now)
      /\ LastOf(recent, Hits(l, key), now - Window)
  BY RecentIs
<1> HIDE DEF key, r, recent
<1>4. later \in Seq(Requests) /\ Follow(later, reqs) /\ Len(later) = Len(reqs) + 1
  BY AskedMore
<1> HIDE DEF later
<1>5. Backed(Hits(l, key), Spenders(key), eps, reqs)
  <2>1. CASE key \in DOMAIN l.hits
    BY <2>1 DEF Hits
  <2>2. CASE key \notin DOMAIN l.hits
    <3>1. Hits(l, key) = << >> /\ 1 .. Len(<< >>) = {}
      BY <2>2 DEF Hits
    <3>2. Backs([x \in {} |-> 0], << >>, Spenders(key), eps, reqs)
      BY <3>1 DEF Backs
    <3> QED BY <3>1, <3>2 DEF Backed
  <2> QED BY <2>1, <2>2
<1>6. recent \in Seq(Int) /\ Backed(recent, Spenders(key), eps, reqs)
  <2>1. Hits(l, key) \in Seq(Int) /\ recent \in Seq(Int)
    BY <1>3 DEF Noted
  <2> QED BY <1>3, <1>5, <2>1, BackedRecent
<1>7. q.answer = "429" <=> ~(Len(recent) < limit)
  BY DEF Allows, recent, key
<1>8. ASSUME NEW k \in DOMAIN r.hits PROVE Backed(r.hits[k], Spenders(k), eps, later)
  <2>1. CASE k # key
    <3>1. k \in DOMAIN l.hits /\ r.hits[k] = l.hits[k]
      BY <1>2, <2>1 DEF CheckDoes
    <3>2. l.hits[k] \in Seq(Int) /\ Backed(l.hits[k], Spenders(k), eps, reqs)
      BY <3>1 DEF LimiterOK, Noted
    <3>3. Backed(l.hits[k], Spenders(k), eps, later)
      BY <1>4, <3>2, BackedOn
    <3> QED BY <3>1, <3>3
  <2>2. CASE k = key /\ Len(recent) < limit
    <3>1. r.hits[k] = Append(recent, now)
      BY <1>2, <2>2 DEF CheckDoes, recent
    <3>2. q.answer # "429" /\ q.from \in Spenders(key)
      BY <1>1, <1>7, <2>2
    <3>3. Backed(Append(recent, q.at), Spenders(key), eps, later)
      BY <1>6, <3>2, BackedMore DEF later
    <3> QED BY <2>2, <3>1, <3>3
  <2>3. CASE k = key /\ ~(Len(recent) < limit)
    <3>1. r.hits[k] = recent
      BY <1>2, <2>3 DEF CheckDoes, recent
    <3>2. Backed(recent, Spenders(key), eps, later)
      BY <1>4, <1>6, BackedOn
    <3> QED BY <2>3, <3>1, <3>2
  <2> QED BY <2>1, <2>2, <2>3
<1>9. ASSUME q.answer = "429"
      PROVE  Cardinality(Spent(secured, later, Len(reqs) + 1)) >= limit
  <2>1. \A i \in 1 .. Len(recent) : recent[i] > q.at - Window
    <3> TAKE i \in 1 .. Len(recent)
    <3>1. Len(recent) \in Nat /\ Len(recent) - i \in 0 .. Len(recent) - 1
          /\ Len(recent) - (Len(recent) - i) = i
      BY <1>6
    <3> QED BY <1>3, <3>1 DEF LastOf
  <2>2. Cardinality(Spent(secured, later, Len(reqs) + 1)) >= Len(recent)
    BY <1>1, <1>6, <2>1, RefusedHadTheirs DEF later
  <2>3. Len(recent) >= limit /\ Len(recent) \in Nat
    BY <1>6, <1>7, <1>9
  <2>4. Cardinality(Spent(secured, later, Len(reqs) + 1)) \in Nat
    <3>1. Spent(secured, later, Len(reqs) + 1) \subseteq 1 .. Len(reqs)
      BY DEF Spent
    <3>2. 1 \in Int /\ Len(reqs) \in Int
      OBVIOUS
    <3>3. IsFiniteSet(1 .. Len(reqs))
      BY <3>2, FS_Interval
    <3>4. IsFiniteSet(Spent(secured, later, Len(reqs) + 1))
      BY <3>1, <3>3, FS_Subset
    <3> QED BY <3>4, FS_CardinalityType
  <2> QED BY <2>2, <2>3, <2>4
<1> QED BY <1>2, <1>4, <1>8, <1>9 DEF r, key, later, RefusedRightly

LEMMA ReceiveKeepsInv ==
  ASSUME ApiInv, NEW c \in Clients, NEW e \in Endpoints, Receive(c, e)
  PROVE  ApiInv'
<1> DEFINE b       == Bucket(e)
           limit   == LimitOf(b)
           l       == budgets[b]
           allowed == limit = 0 \/ Allows(l, Identity(c), instant, limit)
           q       == [from |-> c, endpoint |-> e, at |-> instant,
                       answer |-> IF allowed THEN "admitted" ELSE "429"]
           r       == Checked(l, Identity(c), instant, limit)
           n       == Len(requests)
<1>1. /\ requests' = Append(requests, q)
      /\ budgets' = IF limit = 0 THEN budgets ELSE [budgets EXCEPT ![b] = r]
      /\ UNCHANGED <<secured, isLive, instant, serviceLock, inside>>
  BY DEF Receive
<1>2. /\ requests \in Seq(Requests) /\ instant \in Nat /\ n \in Nat
      /\ b \in Buckets /\ limit \in Nat /\ q \in Requests
      /\ DOMAIN budgets = Buckets /\ Refusals(secured, requests)
  BY ApiAssumption DEF ApiInv, ApiTypes, BudgetsBacked, Requests, Answers, Bucket, Buckets, LimitOf
<1>3. /\ q.from = c /\ q.endpoint = e /\ q.at = instant
      /\ q.answer = IF allowed THEN "admitted" ELSE "429"
  OBVIOUS
<1>4. \A x \in Buckets :
         /\ LimiterOK(budgets[x], Identities, instant)
         /\ \A k \in DOMAIN budgets[x].hits :
               Backed(budgets[x].hits[k], Spenders(k), EndpointsOf(x), requests)
  BY DEF ApiInv, BudgetsBacked
<1> HIDE DEF q
<1>5. /\ requests' \in Seq(Requests) /\ Len(requests') = n + 1 /\ requests'[n + 1] = q
      /\ \A i \in 1 .. n : requests'[i] = requests[i]
      /\ Follow(requests', requests)
  BY <1>1, <1>2, AskedMore
<1>6. ASSUME limit # 0
      PROVE  BudgetOf(r, EndpointsOf(b), requests', instant) /\ RefusedRightly(q, requests', limit)
  <2>1. instant \in Int /\ limit \in Nat \ {0} /\ BudgetOf(l, EndpointsOf(b), requests, instant)
    <3> HIDE DEF b, limit
    <3> QED BY <1>2, <1>4, <1>6 DEF BudgetOf
  <2>2. q.answer = "429" <=> ~Allows(l, Identity(q.from), q.at, limit)
    BY <1>3, <1>6
  <2>3. q.endpoint \in EndpointsOf(b) /\ \A x \in EndpointsOf(b) : Bucket(q.endpoint) = Bucket(x)
    BY <1>3 DEF EndpointsOf
  <2> HIDE DEF b, limit, l, allowed
  <2>4. AnsweredBy(l, q, EndpointsOf(b), limit)
    BY <2>2, <2>3 DEF AnsweredBy
  <2> QED BY <1>1, <1>2, <1>3, <2>1, <2>4, BudgetAsked
<1>7. Refusals(secured, requests')
  <2>1. q.answer = "429" => /\ limit # 0
                            /\ Cardinality(Spent(secured, requests', n + 1)) >= limit
    BY <1>3, <1>5, <1>6 DEF RefusedRightly
  <2>2. limit = LimitOf(Bucket(q.endpoint))
    BY <1>3
  <2> HIDE DEF limit, n
  <2> QED BY <1>1, <1>2, <2>1, <2>2, AskedMore DEF n
<1>8. \A k : Spenders(k)' = Spenders(k)
  BY <1>1 DEF Spenders, Identity
<1>9. ASSUME NEW x \in Buckets
      PROVE  /\ LimiterOK(budgets'[x], Identities, instant')
             /\ \A k \in DOMAIN budgets'[x].hits :
                   Backed(budgets'[x].hits[k], Spenders(k), EndpointsOf(x), requests')
  <2>1. CASE limit # 0 /\ x = b
    <3>1. budgets'[x] = r
      BY <1>1, <1>2, <2>1
    <3> HIDE DEF r, b, limit
    <3> QED BY <1>1, <1>6, <2>1, <3>1 DEF BudgetOf
  <2>2. CASE limit = 0 \/ x # b
    <3>1. budgets'[x] = budgets[x]
      BY <1>1, <1>2, <2>2
    <3>2. \A who, eps : \A times \in Seq(Int) :
             Backed(times, who, eps, requests) => Backed(times, who, eps, requests')
      BY <1>2, <1>5, BackedOn
    <3>3. \A k \in DOMAIN budgets[x].hits : budgets[x].hits[k] \in Seq(Int)
      BY <1>4 DEF LimiterOK, Noted
    <3> QED BY <1>1, <1>4, <3>1, <3>2, <3>3
  <2> QED BY <2>1, <2>2
<1>10. DOMAIN budgets' = Buckets
  BY <1>1, <1>2
<1>11. BudgetsBacked'
  BY <1>8, <1>9, <1>10 DEF BudgetsBacked
<1>12. ApiTypes'
  BY <1>1, <1>5 DEF ApiInv, ApiTypes
<1>13. OneInside'
  <2>1. OneInside /\ serviceLock \in {Nobody, Loop} \cup (1 .. n)
    BY DEF ApiInv, OneInside
  <2>2. requests'[n + 1].answer \in {"admitted", "429"} /\ serviceLock # n + 1
    BY <1>2, <1>3, <1>5, <2>1 DEF Nobody, Loop
  <2>3. \A i \in 1 .. Len(requests') : i \in 1 .. n \/ i = n + 1
    BY <1>2, <1>5
  <2>4. serviceLock' \in {Nobody, Loop} \cup (1 .. Len(requests'))
    BY <1>1, <1>2, <1>5, <2>1
  <2> HIDE DEF n
  <2>5. \A i \in 1 .. n :
           /\ requests[i].answer = "working" <=> serviceLock = i
           /\ requests[i].answer \in {"calling", "working"} =>
                 ~ isLive /\ (secured => requests[i].from = TokenHolder)
    BY <2>1 DEF OneInside, n
  <2>6. \A i \in 1 .. Len(requests') :
           /\ requests'[i].answer = "working" <=> serviceLock' = i
           /\ requests'[i].answer \in {"calling", "working"} =>
                 ~ isLive' /\ (secured' => requests'[i].from = TokenHolder)
    BY <1>1, <1>5, <2>2, <2>3, <2>5
  <2> QED BY <1>1, <2>1, <2>4, <2>6 DEF OneInside
<1>14. Refusals(secured, requests)'
  BY <1>1, <1>7
<1> QED BY <1>11, <1>12, <1>13, <1>14 DEF ApiInv

\* The lock of the service, held or let go while the requests and the budgets
\* stand, as time may pass.
LEMMA StandingKeepsInv ==
  ASSUME ApiInv, UNCHANGED <<secured, isLive, budgets, requests>>,
         instant' \in Nat, instant <= instant', OneInside'
  PROVE  ApiInv'
<1>1. ASSUME NEW times, Noted(times, instant) PROVE Noted(times, instant')
  BY <1>1 DEF Noted, ApiInv, ApiTypes
<1>2. \A b \in Buckets : LimiterOK(budgets[b], Identities, instant')
  BY <1>1 DEF ApiInv, BudgetsBacked, LimiterOK
<1>3. BudgetsBacked'
  BY <1>2 DEF ApiInv, BudgetsBacked, Spenders, Identity
<1>4. Refusals(secured, requests)' /\ ApiTypes'
  BY DEF ApiInv, ApiTypes
<1> QED BY <1>3, <1>4 DEF ApiInv

\* One request changes its answer: the requests after it.
LEMMA OneAnswers ==
  ASSUME ApiInv, NEW i \in 1 .. Len(requests), NEW a \in Answers,
         requests' = [requests EXCEPT ![i].answer = a]
  PROVE  /\ Len(requests') = Len(requests) /\ Len(requests) \in Nat
         /\ \A j \in 1 .. Len(requests) :
               /\ requests'[j].from = requests[j].from
               /\ requests'[j].answer = IF j = i THEN a ELSE requests[j].answer
<1>1. requests \in Seq(Requests)
  BY DEF ApiInv, ApiTypes
<1>2. \A j \in 1 .. Len(requests) : requests[j] \in Requests
  BY <1>1
<1>3. Len(requests') = Len(requests) /\ Len(requests) \in Nat
  BY <1>1
<1>4. \A j \in 1 .. Len(requests) :
         requests'[j] = IF j = i THEN [requests[i] EXCEPT !.answer = a] ELSE requests[j]
  BY <1>1
<1> QED BY <1>2, <1>3, <1>4 DEF Requests

LEMMA ApiSteps == ApiInv /\ [ApiNext]_api => ApiInv'
<1> SUFFICES ASSUME ApiInv, [ApiNext]_api PROVE ApiInv'
  OBVIOUS
<1> DEFINE n == Len(requests)
<1>1. /\ requests \in Seq(Requests) /\ n \in Nat /\ DOMAIN requests = 1 .. n
      /\ instant \in Nat
  BY DEF ApiInv, ApiTypes
<1>2. /\ inside = IF serviceLock = Nobody THEN {} ELSE {serviceLock}
      /\ serviceLock \in {Nobody, Loop} \cup (1 .. n)
      /\ \A j \in 1 .. n :
            /\ requests[j].answer = "working" <=> serviceLock = j
            /\ requests[j].answer \in {"calling", "working"} =>
                  ~ isLive /\ (secured => requests[j].from = TokenHolder)
  BY DEF ApiInv, OneInside
<1>3. \A j \in 1 .. n : j # Nobody /\ j # Loop
  BY DEF Nobody, Loop
<1>4. ASSUME NEW c \in Clients, NEW e \in Endpoints, Receive(c, e) PROVE ApiInv'
  BY <1>4, ReceiveKeepsInv
<1>5. ASSUME NEW i \in 1 .. n, Admit(i) PROVE ApiInv'
  <2> DEFINE a == IF secured /\ requests[i].from # TokenHolder THEN "401"
                  ELSE IF requests[i].endpoint = "status" THEN "done"
                  ELSE IF isLive THEN "403" ELSE "calling"
  <2>1. /\ requests[i].answer = "admitted" /\ requests' = [requests EXCEPT ![i].answer = a]
        /\ UNCHANGED <<secured, isLive, instant, budgets, serviceLock, inside>>
    BY <1>5 DEF Admit
  <2>2. /\ a \in Answers \ {"429"} /\ a # "working"
        /\ a = "calling" => ~ isLive /\ (secured => requests[i].from = TokenHolder)
    BY DEF Answers
  <2> HIDE DEF a
  <2>3. OneInside'
    BY <1>2, <2>1, <2>2, OneAnswers DEF OneInside
  <2> QED BY <2>1, <2>2, <2>3, AnswerKeepsInv
<1>6. ASSUME NEW i \in 1 .. n, TriggerRefused(i) PROVE ApiInv'
  <2>1. /\ requests[i].answer = "calling" /\ requests' = [requests EXCEPT ![i].answer = "409"]
        /\ UNCHANGED <<secured, isLive, instant, budgets, serviceLock, inside>>
    BY <1>6 DEF TriggerRefused
  <2>2. "409" \in Answers \ {"429"}
    BY DEF Answers
  <2>3. OneInside'
    BY <1>2, <2>1, <2>2, OneAnswers DEF OneInside
  <2> QED BY <2>1, <2>2, <2>3, AnswerKeepsInv
<1>7. ASSUME NEW i \in 1 .. n, EnterService(i) PROVE ApiInv'
  <2>1. /\ requests[i].answer = "calling" /\ serviceLock = Nobody
        /\ serviceLock' = i /\ inside' = inside \union {i}
        /\ requests' = [requests EXCEPT ![i].answer = "working"]
        /\ UNCHANGED <<secured, isLive, instant, budgets>>
    BY <1>7 DEF EnterService
  <2>2. "working" \in Answers \ {"429"}
    BY DEF Answers
  <2>3. inside' = {i} /\ serviceLock' # Nobody
    BY <1>2, <1>3, <2>1
  <2>4. OneInside'
    BY <1>2, <1>3, <2>1, <2>2, <2>3, OneAnswers DEF OneInside
  <2> QED BY <2>1, <2>2, <2>4, AnswerKeepsInv
<1>8. ASSUME NEW i \in 1 .. n, LeaveService(i) PROVE ApiInv'
  <2>1. /\ requests[i].answer = "working"
        /\ serviceLock' = Nobody /\ inside' = inside \ {i}
        /\ requests' = [requests EXCEPT ![i].answer = "done"]
        /\ UNCHANGED <<secured, isLive, instant, budgets>>
    BY <1>8 DEF LeaveService
  <2>2. "done" \in Answers \ {"429"}
    BY DEF Answers
  <2>3. serviceLock = i /\ inside' = {}
    BY <1>2, <1>3, <2>1
  <2>4. OneInside'
    BY <1>2, <1>3, <2>1, <2>2, <2>3, OneAnswers DEF OneInside
  <2> QED BY <2>1, <2>2, <2>4, AnswerKeepsInv
<1>9. CASE LoopEnters
  <2>1. /\ serviceLock = Nobody /\ serviceLock' = Loop /\ inside' = inside \union {Loop}
        /\ UNCHANGED <<secured, isLive, instant, budgets, requests>>
    BY <1>9 DEF LoopEnters
  <2>2. inside' = {Loop} /\ Loop # Nobody
    BY <1>2, <2>1 DEF Loop, Nobody
  <2>3. OneInside'
    BY <1>2, <1>3, <2>1, <2>2 DEF OneInside
  <2> QED BY <1>1, <2>1, <2>3, StandingKeepsInv
<1>10. CASE LoopLeaves
  <2>1. /\ serviceLock = Loop /\ serviceLock' = Nobody /\ inside' = inside \ {Loop}
        /\ UNCHANGED <<secured, isLive, instant, budgets, requests>>
    BY <1>10 DEF LoopLeaves
  <2>2. inside' = {} /\ Loop # Nobody
    BY <1>2, <2>1 DEF Loop, Nobody
  <2>3. OneInside'
    BY <1>2, <1>3, <2>1, <2>2 DEF OneInside
  <2> QED BY <1>1, <2>1, <2>3, StandingKeepsInv
<1>11. CASE TimePasses
  <2>1. /\ instant' = instant + 1
        /\ UNCHANGED <<secured, isLive, budgets, requests, serviceLock, inside>>
    BY <1>11 DEF TimePasses
  <2>2. OneInside'
    BY <1>2, <2>1 DEF OneInside
  <2> QED BY <1>1, <2>1, <2>2, StandingKeepsInv
<1>12. CASE UNCHANGED api
  <2>1. UNCHANGED <<secured, isLive, instant, budgets, requests, serviceLock, inside>>
    BY <1>12 DEF api
  <2>2. OneInside'
    BY <1>2, <2>1 DEF OneInside
  <2> QED BY <1>1, <2>1, <2>2, StandingKeepsInv
<1> QED BY <1>1, <1>4, <1>5, <1>6, <1>7, <1>8, <1>9, <1>10, <1>11, <1>12 DEF ApiNext

\* Whoever is refused had the whole of the limit let in during the window, by
\* requests of its own or of those who share its budget, and one request at most
\* runs inside the service, out of LIVE, of whoever may: for every limit, window,
\* bound of the map and assignment of addresses (_rate_limit_identity,
\* RateLimiter.check, the gates of create_app and the service lock).
THEOREM AnswersEverEarned == ApiSpec => []AnswersAreEarned
<1>1. ApiInit => ApiInv
  <2> SUFFICES ASSUME ApiInit PROVE ApiInv
    OBVIOUS
  <2>1. ApiTypes
    BY DEF ApiInit, ApiTypes
  <2>2. LimiterOK(EmptyLimiter, Identities, 0) /\ DOMAIN EmptyLimiter.hits = {}
    BY DEF EmptyLimiter, LimiterOK, Distinct, ToSet
  <2>3. BudgetsBacked
    BY <2>2 DEF ApiInit, BudgetsBacked, Buckets
  <2>4. Refusals(secured, requests) /\ OneInside
    BY DEF ApiInit, Refusals, OneInside
  <2> QED BY <2>1, <2>3, <2>4 DEF ApiInv
<1>2. ApiInv => AnswersAreEarned
  <2> SUFFICES ASSUME ApiInv PROVE AnswersAreEarned
    OBVIOUS
  <2>1. DOMAIN requests = 1 .. Len(requests)
    BY DEF ApiInv, ApiTypes
  <2>2. ASSUME NEW i \in 1 .. Len(requests), i \in inside
        PROVE  ~isLive /\ (secured => requests[i].from = TokenHolder)
    <3>1. serviceLock = i
      BY <2>2 DEF ApiInv, OneInside
    <3> QED BY <3>1 DEF ApiInv, OneInside
  <2>3. Cardinality(inside) <= 1
    <3>1. inside = {} \/ inside = {serviceLock}
      BY DEF ApiInv, OneInside
    <3>2. Cardinality({}) = 0 /\ Cardinality({serviceLock}) = 1
      BY FS_EmptySet, FS_Singleton
    <3> QED BY <3>1, <3>2
  <2>4. ASSUME NEW i \in 1 .. Len(requests), requests[i].answer = "429"
        PROVE  Cardinality({j \in 1 .. i - 1 :
                   /\ Sharing(requests[i].from, requests[j].from)
                   /\ Bucket(requests[i].endpoint) = Bucket(requests[j].endpoint)
                   /\ requests[j].at > requests[i].at - Window
                   /\ requests[j].answer # "429"}) >= LimitOf(Bucket(requests[i].endpoint))
    <3>1. Cardinality(Spent(secured, requests, i)) >= LimitOf(Bucket(requests[i].endpoint))
      BY <2>4 DEF ApiInv, Refusals
    <3> QED BY <3>1 DEF Spent, Together, Sharing
  <2> QED BY <2>1, <2>2, <2>3, <2>4 DEF AnswersAreEarned
<1> QED BY <1>1, <1>2, ApiSteps, PTL DEF ApiSpec

-----------------------------------------------------------------------------
(* Vault.  One interruption of one operator never locks the vault.         *)

\* One command at a time, and at most one of them is ever interrupted.
OneInterruption == Procs = {Operator} /\ MaxInterrupts \in {0, 1}

\* What an operator may know opens these files.
Good(token, m) ==
    \E known \in expected : Opens(token, m, known.pass) /\ token.secrets = known.secrets

Owned(s, token, m) == Opens(token, m, s.pass) /\ token.secrets = s.secrets

NoBackups == encBak = NoFile /\ metaBak = NoFile
Unused    == expected = {} /\ enc = NoFile /\ NoBackups
Complete  == enc # NoFile /\ meta # NoFile

Shape(s) ==
    s = [at |-> s.at, pass |-> s.pass, new |-> s.new, meta |-> s.meta, secrets |-> s.secrets]

Rotating(s) ==
    expected = {Known(s.pass, s.secrets), Known(s.new, s.secrets)} /\ s.meta # NoFile

\* What is true of the files at each step of the one command.
Step(s) ==
    CASE s.at = "closed" ->
            \/ Unused
            \/ /\ Complete
               /\ IF Interrupted THEN Good(encBak, metaBak) ELSE Good(enc, meta)
      [] s.at = "read"       -> ~Interrupted /\ (Unused \/ Good(enc, meta))
      [] s.at = "createMeta" -> Unused /\ s.meta # NoFile
      [] s.at = "createEnc"  -> Unused /\ s.meta # NoFile /\ meta = s.meta
      [] s.at = "opened"     -> /\ ~Interrupted /\ Good(enc, meta)
                                /\ Owned(s, enc, meta) /\ s.meta = meta
      [] s.at = "save"       -> ~Interrupted /\ Good(enc, meta) /\ meta # NoFile /\ s.meta = meta
      [] s.at = "backEnc"    -> ~Interrupted /\ Rotating(s) /\ Owned(s, enc, meta)
      [] s.at = "backMeta"   -> /\ Rotating(s) /\ Owned(s, enc, meta) /\ encBak = enc
                                /\ interrupts = 0 => metaBak = NoFile
      [] s.at = "rekeyEnc"   -> Rotating(s) /\ Owned(s, encBak, metaBak) /\ Complete
      [] s.at = "rekeyMeta"  -> /\ Rotating(s) /\ Owned(s, encBak, metaBak) /\ Complete
                                /\ enc = Token(s.new, s.meta, s.secrets)
      [] s.at = "dropEncBak" -> /\ Rotating(s) /\ Owned(s, encBak, metaBak)
                                /\ enc = Token(s.new, s.meta, s.secrets) /\ meta = s.meta
      [] s.at = "dropMetaBak" -> /\ Rotating(s) /\ encBak = NoFile
                                 /\ enc = Token(s.new, s.meta, s.secrets) /\ meta = s.meta
      [] s.at = "restoreEnc"  -> interrupts = 1 /\ Complete /\ Good(encBak, metaBak)
      [] s.at = "restoreMeta" -> interrupts = 1 /\ Complete /\ Good(encBak, metaBak) /\ enc = encBak
      [] s.at = "forgetEncBak"  -> interrupts = 1 /\ Good(enc, meta)
      [] s.at = "forgetMetaBak" -> interrupts = 1 /\ Good(enc, meta) /\ encBak = NoFile
      [] OTHER -> FALSE

\* Without an interruption there is a backup only during a rotation.
CleanWhenIdle(s) ==
    interrupts = 0 /\ s.at \in {"closed", "read", "opened", "save", "createMeta", "createEnc", "backEnc"}
        => NoBackups

VaultInv ==
    /\ interrupts \in {0, 1}
    /\ session = [p \in {Operator} |-> session[Operator]]
    /\ Shape(session[Operator])
    /\ Step(session[Operator]) /\ CleanWhenIdle(session[Operator])
LEMMA FilesExist ==
  /\ \A pass, m, secrets : Token(pass, m, secrets) # NoFile
  /\ \A salt : [salt |-> salt] # NoFile
<1>1. DOMAIN NoFile = {"absent"}
  BY DEF NoFile
<1>2. ASSUME NEW pass, NEW m, NEW secrets PROVE Token(pass, m, secrets) # NoFile
  <2>1. DOMAIN Token(pass, m, secrets) = {"pass", "salt", "secrets"}
    BY DEF Token
  <2> QED BY <1>1, <2>1
<1>3. ASSUME NEW salt PROVE [salt |-> salt] # NoFile
  <2>1. DOMAIN [salt |-> salt] = {"salt"}
    OBVIOUS
  <2> QED BY <1>1, <2>1
<1> QED BY <1>2, <1>3

LEMMA OwnedIsGood ==
  ASSUME NEW believed, NEW s, NEW token, NEW m,
         Known(s.pass, s.secrets) \in believed, Owned(s, token, m)
  PROVE  \E known \in believed : Opens(token, m, known.pass) /\ token.secrets = known.secrets
<1> DEFINE k == Known(s.pass, s.secrets)
<1>1. k.pass = s.pass /\ k.secrets = s.secrets
  BY DEF Known
<1>2. Opens(token, m, k.pass) /\ token.secrets = k.secrets
  BY <1>1 DEF Owned
<1> QED BY <1>2

LEMMA OwnIsGood ==
  ASSUME NEW s, NEW token, NEW m, Known(s.pass, s.secrets) \in expected, Owned(s, token, m)
  PROVE  Good(token, m)
<1>1. \E known \in expected : Opens(token, m, known.pass) /\ token.secrets = known.secrets
  BY OwnedIsGood
<1> QED BY <1>1 DEF Good

LEMMA RekeyedIsGood ==
  ASSUME NEW believed, NEW s, NEW token, NEW m, s.meta # NoFile,
         Known(s.new, s.secrets) \in believed, token = Token(s.new, s.meta, s.secrets), m = s.meta
  PROVE  \E known \in believed : Opens(token, m, known.pass) /\ token.secrets = known.secrets
<1> DEFINE k == Known(s.new, s.secrets)
<1>1. k.pass = s.new /\ k.secrets = s.secrets
  BY DEF Known
<1>2. token # NoFile /\ token.pass = s.new /\ token.salt = s.meta.salt /\ token.secrets = s.secrets
  BY FilesExist DEF Token
<1>3. Opens(token, m, k.pass) /\ token.secrets = k.secrets
  BY <1>1, <1>2 DEF Opens
<1> QED BY <1>3

\* What Goto and Exit leave of the one session.
LEMMA Goes ==
  ASSUME VaultInv, NEW step, Goto(Operator, step)
  PROVE  /\ session' = [p \in {Operator} |-> session'[Operator]] /\ Shape(session'[Operator])
         /\ session'[Operator].at = step
         /\ session'[Operator].pass = session[Operator].pass
         /\ session'[Operator].new = session[Operator].new
         /\ session'[Operator].meta = session[Operator].meta
         /\ session'[Operator].secrets = session[Operator].secrets
  BY DEF VaultInv, Shape, Goto

LEMMA Exits ==
  ASSUME VaultInv, Exit(Operator)
  PROVE  /\ session' = [p \in {Operator} |-> session'[Operator]] /\ Shape(session'[Operator])
         /\ session'[Operator].at = "closed"
  BY DEF VaultInv, Shape, Exit, Closed

LEMMA StartCreateKeeps ==
  ASSUME OneInterruption, VaultInv, NEW pass, StartCreate(Operator, pass) PROVE VaultInv'
<1>1. Unused
  BY DEF VaultInv, Step, StartCreate, At, Complete
<1>2. /\ session' = [p \in {Operator} |-> session'[Operator]] /\ Shape(session'[Operator])
      /\ session'[Operator].at = "createMeta" /\ session'[Operator].meta = [salt |-> salts']
  BY DEF VaultInv, Shape, Closed, StartCreate
<1>3. Unused' /\ NoBackups' /\ interrupts' \in {0, 1}
  BY <1>1 DEF Unused, NoBackups, StartCreate, VaultInv
<1>4. Step(session[Operator])'
  BY <1>2, <1>3, FilesExist DEF Step
<1> QED BY <1>2, <1>3, <1>4 DEF VaultInv, CleanWhenIdle

LEMMA CreateMetaKeeps ==
  ASSUME OneInterruption, VaultInv, CreateMeta(Operator) PROVE VaultInv'
<1>1. Unused /\ session[Operator].meta # NoFile
  BY DEF VaultInv, Step, CreateMeta, At
<1>2. Goto(Operator, "createEnc") /\ meta' = session[Operator].meta
  BY DEF CreateMeta
<1>3. Unused' /\ NoBackups' /\ interrupts' \in {0, 1}
  BY <1>1 DEF Unused, NoBackups, CreateMeta, VaultInv
<1>4. Step(session[Operator])'
  BY <1>1, <1>2, <1>3, Goes DEF Step
<1> QED BY <1>2, <1>3, <1>4, Goes DEF VaultInv, CleanWhenIdle

LEMMA CreateFailsKeeps ==
  ASSUME OneInterruption, VaultInv, CreateFails(Operator) PROVE VaultInv'
<1>1. Unused
  BY DEF VaultInv, Step, CreateFails, At
<1>2. Unused' /\ NoBackups' /\ interrupts' \in {0, 1}
  BY <1>1 DEF Unused, NoBackups, CreateFails, VaultInv, OneInterruption
<1>3. Exit(Operator)
  BY DEF CreateFails
<1>4. Step(session[Operator])'
  BY <1>2, <1>3, Exits DEF Step
<1> QED BY <1>2, <1>3, <1>4, Exits DEF VaultInv, CleanWhenIdle

LEMMA StartOpenKeeps ==
  ASSUME OneInterruption, VaultInv, NEW pass, StartOpen(Operator, pass) PROVE VaultInv'
<1>1. session[Operator].at = "closed" /\ UNCHANGED <<enc, meta, encBak, metaBak, expected, interrupts>>
  BY DEF StartOpen, At
<1>2. /\ session' = [p \in {Operator} |-> session'[Operator]] /\ Shape(session'[Operator])
      /\ session'[Operator].at = IF Interrupted THEN "restoreEnc" ELSE "read"
  BY DEF VaultInv, Shape, Closed, StartOpen
<1>3. Interrupted => interrupts = 1 /\ Complete /\ Good(encBak, metaBak)
  BY <1>1 DEF VaultInv, Step, CleanWhenIdle, Interrupted, NoBackups, Unused
<1>4. ~Interrupted => Unused \/ Good(enc, meta)
  BY <1>1 DEF VaultInv, Step
<1>5. /\ Interrupted' <=> Interrupted
      /\ Interrupted => (interrupts = 1 /\ Complete /\ Good(encBak, metaBak))'
      /\ ~Interrupted => (Unused \/ Good(enc, meta))'
  BY <1>1, <1>3, <1>4 DEF Interrupted, Complete, Good, Unused, NoBackups
<1>6. Step(session[Operator])'
  BY <1>2, <1>5 DEF Step
<1>7. CleanWhenIdle(session[Operator])'
  BY <1>1 DEF VaultInv, CleanWhenIdle, NoBackups
<1> QED BY <1>1, <1>2, <1>6, <1>7 DEF VaultInv

LEMMA RestoreEncKeeps ==
  ASSUME OneInterruption, VaultInv, RestoreEnc(Operator) PROVE VaultInv'
<1>1. interrupts = 1 /\ Complete /\ Good(encBak, metaBak)
  BY DEF VaultInv, Step, RestoreEnc, At
<1>2. encBak # NoFile /\ enc' = encBak /\ Goto(Operator, "restoreMeta")
  BY <1>1 DEF Good, Opens, RestoreEnc
<1>3. (interrupts = 1 /\ Complete /\ Good(encBak, metaBak) /\ enc = encBak)'
  BY <1>1, <1>2 DEF Complete, Good, RestoreEnc
<1>4. Step(session[Operator])'
  BY <1>2, <1>3, Goes DEF Step
<1> QED BY <1>2, <1>3, <1>4, Goes DEF VaultInv, CleanWhenIdle

LEMMA RestoreMetaKeeps ==
  ASSUME OneInterruption, VaultInv, RestoreMeta(Operator) PROVE VaultInv'
<1>1. interrupts = 1 /\ Good(encBak, metaBak) /\ enc = encBak
  BY DEF VaultInv, Step, RestoreMeta, At
<1>2. metaBak # NoFile /\ meta' = metaBak /\ Goto(Operator, "forgetEncBak")
  BY <1>1 DEF Good, Opens, RestoreMeta
<1>3. (interrupts = 1 /\ Good(enc, meta))'
  BY <1>1, <1>2 DEF Good, RestoreMeta
<1>4. Step(session[Operator])'
  BY <1>2, <1>3, Goes DEF Step
<1> QED BY <1>2, <1>3, <1>4, Goes DEF VaultInv, CleanWhenIdle

LEMMA UnlinkEncBakKeeps ==
  ASSUME OneInterruption, VaultInv, UnlinkEncBak(Operator) PROVE VaultInv'
<1> DEFINE s == session[Operator]
<1>1. CASE s.at = "forgetEncBak"
  <2>1. interrupts = 1 /\ Good(enc, meta)
    BY <1>1 DEF VaultInv, Step
  <2>2. Goto(Operator, "forgetMetaBak")
    BY <1>1 DEF UnlinkEncBak, At
  <2>3. (interrupts = 1 /\ Good(enc, meta) /\ encBak = NoFile)'
    BY <2>1 DEF UnlinkEncBak, Good
  <2>4. Step(session[Operator])'
    BY <2>2, <2>3, Goes DEF Step
  <2> QED BY <2>2, <2>3, <2>4, Goes DEF VaultInv, CleanWhenIdle
<1>2. CASE s.at = "dropEncBak"
  <2>1. Rotating(s) /\ enc = Token(s.new, s.meta, s.secrets) /\ meta = s.meta
    BY <1>2 DEF VaultInv, Step
  <2>2. Goto(Operator, "dropMetaBak") /\ UNCHANGED <<enc, meta, expected, interrupts>> /\ encBak' = NoFile
    BY <1>2 DEF UnlinkEncBak, At
  <2>3. Rotating(session[Operator])'
    BY <2>1, <2>2, Goes DEF Rotating
  <2>4. Step(session[Operator])'
    BY <2>1, <2>2, <2>3, Goes DEF Step
  <2>5. CleanWhenIdle(session[Operator])'
    BY <2>2, Goes DEF CleanWhenIdle
  <2> QED BY <2>2, <2>4, <2>5, Goes DEF VaultInv
<1> QED BY <1>1, <1>2 DEF UnlinkEncBak

LEMMA UnlinkMetaBakKeeps ==
  ASSUME OneInterruption, VaultInv, UnlinkMetaBak(Operator) PROVE VaultInv'
<1> DEFINE s == session[Operator]
<1>1. CASE s.at = "forgetMetaBak"
  <2>1. interrupts = 1 /\ Good(enc, meta) /\ encBak = NoFile
    BY <1>1 DEF VaultInv, Step
  <2>2. Goto(Operator, "read")
    BY <1>1 DEF UnlinkMetaBak, At
  <2>3. (interrupts = 1 /\ NoBackups /\ ~Interrupted /\ Good(enc, meta))'
    BY <1>1, <2>1 DEF UnlinkMetaBak, At, Good, NoBackups, Interrupted
  <2>4. Step(session[Operator])'
    BY <2>2, <2>3, Goes DEF Step
  <2> QED BY <2>2, <2>3, <2>4, Goes DEF VaultInv, CleanWhenIdle
<1>2. CASE s.at = "dropMetaBak"
  <2>1. s.meta # NoFile /\ enc = Token(s.new, s.meta, s.secrets) /\ meta = s.meta /\ encBak = NoFile
    BY <1>2 DEF VaultInv, Step, Rotating
  <2>2. Exit(Operator) /\ expected' = {Known(s.new, s.secrets)} /\ metaBak' = NoFile
        /\ UNCHANGED <<enc, meta, encBak, interrupts>>
    BY <1>2 DEF UnlinkMetaBak, At
  <2>3. (NoBackups /\ ~Interrupted /\ Complete)'
    BY <2>1, <2>2, FilesExist DEF NoBackups, Interrupted, Complete
  <2>4. Good(enc, meta)'
    BY <2>1, <2>2, RekeyedIsGood DEF Good
  <2>5. Step(session[Operator])'
    BY <2>2, <2>3, <2>4, Exits DEF Step
  <2> QED BY <2>2, <2>3, <2>5, Exits DEF VaultInv, CleanWhenIdle
<1> QED BY <1>1, <1>2 DEF UnlinkMetaBak

LEMMA ReadKeeps ==
  ASSUME OneInterruption, VaultInv, Read(Operator) PROVE VaultInv'
<1> DEFINE s == session[Operator]
<1>1. s.at = "read" /\ ~Interrupted /\ (Unused \/ Good(enc, meta))
  BY DEF VaultInv, Step, Read, At
<1>2. UNCHANGED <<enc, meta, encBak, metaBak, expected, interrupts>>
  BY DEF Read
<1>3. CleanWhenIdle(session[Operator])'
  BY <1>1, <1>2 DEF VaultInv, CleanWhenIdle, NoBackups
<1>4. CASE Opens(enc, meta, s.pass)
  <2>1. /\ session' = [p \in {Operator} |-> session'[Operator]] /\ Shape(session'[Operator])
        /\ session'[Operator].at = "opened" /\ session'[Operator].meta = meta
        /\ session'[Operator].secrets = enc.secrets /\ session'[Operator].pass = s.pass
    <3>1. s = [at |-> s.at, pass |-> s.pass, new |-> s.new, meta |-> s.meta, secrets |-> s.secrets]
      BY DEF VaultInv, Shape
    <3>2. session'[Operator]
            = [at |-> "opened", pass |-> s.pass, new |-> s.new, meta |-> meta, secrets |-> enc.secrets]
      BY <1>4, <3>1 DEF VaultInv, Read
    <3>3. session' = [p \in {Operator} |-> session'[Operator]]
      BY <1>4 DEF VaultInv, Read
    <3> QED BY <3>2, <3>3 DEF Shape
  <2>2. Good(enc, meta)
    BY <1>1, <1>4 DEF Unused, Opens
  <2>3. (~Interrupted /\ Good(enc, meta))'
    BY <1>1, <1>2, <2>2 DEF Interrupted, Good
  <2>4. Owned(session[Operator], enc, meta)'
    BY <1>2, <1>4, <2>1 DEF Owned, Opens
  <2>5. Step(session[Operator])'
    BY <1>2, <2>1, <2>3, <2>4 DEF Step
  <2> QED BY <1>2, <1>3, <2>1, <2>5 DEF VaultInv
<1>5. CASE ~Opens(enc, meta, s.pass)
  <2>1. Exit(Operator)
    BY <1>5 DEF Read
  <2>2. Unused \/ (Complete /\ Good(enc, meta))
    BY <1>1 DEF Good, Opens, Complete
  <2>3. (~Interrupted /\ (Unused \/ (Complete /\ Good(enc, meta))))'
    BY <1>1, <1>2, <2>2 DEF Interrupted, Good, Complete, Unused, NoBackups
  <2>4. Step(session[Operator])'
    BY <2>1, <2>3, Exits DEF Step
  <2> QED BY <1>2, <1>3, <2>1, <2>4, Exits DEF VaultInv
<1> QED BY <1>4, <1>5

LEMMA CloseKeeps ==
  ASSUME OneInterruption, VaultInv, Close(Operator) PROVE VaultInv'
<1>1. session[Operator].at = "opened" /\ ~Interrupted /\ Good(enc, meta)
  BY DEF VaultInv, Step, Close, At
<1>2. UNCHANGED <<enc, meta, encBak, metaBak, expected, interrupts>> /\ Exit(Operator)
  BY DEF Close
<1>3. CleanWhenIdle(session[Operator])'
  BY <1>1, <1>2 DEF VaultInv, CleanWhenIdle, NoBackups
<1>4. (~Interrupted /\ Complete /\ Good(enc, meta))'
  BY <1>1, <1>2 DEF Interrupted, Good, Opens, Complete
<1>5. Step(session[Operator])'
  BY <1>2, <1>4, Exits DEF Step
<1> QED BY <1>2, <1>3, <1>5, Exits DEF VaultInv

LEMMA ChangeKeeps ==
  ASSUME OneInterruption, VaultInv, NEW secrets, Change(Operator, secrets) PROVE VaultInv'
<1> DEFINE s == session[Operator]
<1>1. s.at = "opened" /\ ~Interrupted /\ Owned(s, enc, meta) /\ s.meta = meta
  BY DEF VaultInv, Step, Change, At
<1>2. /\ session' = [p \in {Operator} |-> session'[Operator]] /\ Shape(session'[Operator])
      /\ session'[Operator].at = "save" /\ session'[Operator].meta = s.meta
  BY DEF VaultInv, Shape, Change
<1>3. /\ Known(s.pass, s.secrets) \in expected'
      /\ UNCHANGED <<enc, meta, encBak, metaBak, interrupts>>
  BY DEF Change
<1>4. Good(enc, meta)'
  <2>1. Opens(enc, meta, s.pass) /\ enc.secrets = s.secrets
    BY <1>1 DEF Owned
  <2> QED BY <1>3, <2>1 DEF Good, Known
<1>5. meta # NoFile /\ ~Interrupted'
  BY <1>1, <1>3 DEF Owned, Opens, Interrupted
<1>6. Step(session[Operator])'
  BY <1>1, <1>2, <1>3, <1>4, <1>5 DEF Step
<1>7. CleanWhenIdle(session[Operator])'
  BY <1>1, <1>3 DEF VaultInv, CleanWhenIdle, NoBackups
<1> QED BY <1>2, <1>3, <1>6, <1>7 DEF VaultInv

LEMMA SaveKeeps ==
  ASSUME OneInterruption, VaultInv, Save(Operator) PROVE VaultInv'
<1> DEFINE s == session[Operator]
<1>1. ~Interrupted /\ s.meta # NoFile /\ meta = s.meta
  BY DEF VaultInv, Step, Save, Unused, NoBackups, Interrupted
<1>2. /\ enc' = Token(s.pass, s.meta, s.secrets) /\ Known(s.pass, s.secrets) \in expected'
      /\ UNCHANGED <<meta, encBak, metaBak, interrupts>> /\ Exit(Operator)
  BY DEF Save
<1>3. Owned(s, enc', meta')
  BY <1>1, <1>2, FilesExist DEF Owned, Opens, Token
<1>4. Good(enc, meta)'
  <2>1. Opens(enc', meta', s.pass) /\ enc'.secrets = s.secrets
    BY <1>3 DEF Owned
  <2> QED BY <1>2, <2>1 DEF Good, Known
<1>5. (~Interrupted /\ Complete)'
  BY <1>1, <1>2, FilesExist DEF Interrupted, Complete
<1>6. Step(session[Operator])'
  BY <1>2, <1>4, <1>5, Exits DEF Step
<1>7. CleanWhenIdle(session[Operator])'
  BY <1>2 DEF VaultInv, CleanWhenIdle, NoBackups, Save
<1> QED BY <1>2, <1>6, <1>7, Exits DEF VaultInv

LEMMA StartRotateKeeps ==
  ASSUME OneInterruption, VaultInv, NEW new, StartRotate(Operator, new) PROVE VaultInv'
<1> DEFINE s == session[Operator]
<1>1. s.at = "opened" /\ ~Interrupted /\ Owned(s, enc, meta)
  BY DEF VaultInv, Step, StartRotate, At
<1>2. /\ session' = [p \in {Operator} |-> session'[Operator]] /\ Shape(session'[Operator])
      /\ session'[Operator].at = "backEnc" /\ session'[Operator].meta = [salt |-> salts']
      /\ session'[Operator].pass = s.pass /\ session'[Operator].secrets = s.secrets
      /\ session'[Operator].new = new
  BY DEF VaultInv, Shape, StartRotate
<1>3. /\ expected' = {Known(s.pass, s.secrets), Known(new, s.secrets)}
      /\ UNCHANGED <<enc, meta, encBak, metaBak, interrupts>>
  BY DEF StartRotate
<1>4. Rotating(session[Operator])'
  BY <1>2, <1>3, FilesExist DEF Rotating
<1>5. (~Interrupted /\ Owned(session[Operator], enc, meta))'
  BY <1>1, <1>2, <1>3 DEF Owned, Interrupted
<1>6. Step(session[Operator])'
  BY <1>2, <1>4, <1>5 DEF Step
<1>7. CleanWhenIdle(session[Operator])'
  BY <1>1, <1>3 DEF VaultInv, CleanWhenIdle, NoBackups
<1> QED BY <1>2, <1>3, <1>6, <1>7 DEF VaultInv

LEMMA BackUpKeeps ==
  ASSUME OneInterruption, VaultInv, BackUp(Operator) PROVE VaultInv'
<1> DEFINE s == session[Operator]
<1>1. UNCHANGED <<enc, meta, expected, interrupts>>
  BY DEF BackUp
<1>2. Rotating(s) /\ Owned(s, enc, meta)
  BY DEF VaultInv, Step, BackUp, At
<1>3. CASE s.at = "backEnc"
  <2>1. Goto(Operator, "backMeta") /\ encBak' = enc /\ UNCHANGED metaBak
    BY <1>3 DEF BackUp, At, AfterStep
  <2>2. interrupts = 0 => metaBak = NoFile
    BY <1>3 DEF VaultInv, CleanWhenIdle, NoBackups
  <2>3. (Rotating(session[Operator]) /\ Owned(session[Operator], enc, meta))'
    BY <1>1, <1>2, <2>1, Goes DEF Rotating, Owned
  <2>4. Step(session[Operator])'
    BY <1>1, <2>1, <2>2, <2>3, Goes DEF Step
  <2> QED BY <1>1, <2>1, <2>4, Goes DEF VaultInv, CleanWhenIdle
<1>4. CASE s.at = "backMeta"
  <2>1. Goto(Operator, "rekeyEnc") /\ metaBak' = meta /\ UNCHANGED encBak
    BY <1>4 DEF BackUp, At, AfterStep
  <2>2. encBak = enc
    BY <1>4 DEF VaultInv, Step
  <2>3. (Rotating(session[Operator]) /\ Owned(session[Operator], encBak, metaBak))'
    BY <1>1, <1>2, <2>1, <2>2, Goes DEF Rotating, Owned
  <2>4. Complete'
    BY <1>1, <1>2 DEF Owned, Opens, Complete
  <2>5. Step(session[Operator])'
    BY <2>1, <2>3, <2>4, Goes DEF Step
  <2> QED BY <1>1, <2>1, <2>5, Goes DEF VaultInv, CleanWhenIdle
<1> QED BY <1>3, <1>4 DEF BackUp, At

LEMMA RekeyKeeps ==
  ASSUME OneInterruption, VaultInv, Rekey(Operator) PROVE VaultInv'
<1> DEFINE s == session[Operator]
<1>1. UNCHANGED <<encBak, metaBak, expected, interrupts>>
  BY DEF Rekey
<1>2. Rotating(s) /\ s.meta # NoFile /\ Owned(s, encBak, metaBak) /\ Complete
  BY DEF VaultInv, Step, Rekey, At, Rotating
<1>3. CASE s.at = "rekeyEnc"
  <2>1. Goto(Operator, "rekeyMeta") /\ enc' = Token(s.new, s.meta, s.secrets) /\ UNCHANGED meta
    BY <1>3 DEF Rekey, At, AfterStep
  <2>2. (Rotating(session[Operator]) /\ Owned(session[Operator], encBak, metaBak))'
    BY <1>1, <1>2, <2>1, Goes DEF Rotating, Owned
  <2>3. Complete'
    BY <1>2, <2>1, FilesExist DEF Complete
  <2>4. Step(session[Operator])'
    BY <2>1, <2>2, <2>3, Goes DEF Step
  <2> QED BY <1>1, <2>1, <2>4, Goes DEF VaultInv, CleanWhenIdle
<1>4. CASE s.at = "rekeyMeta"
  <2>1. Goto(Operator, "dropEncBak") /\ meta' = s.meta /\ UNCHANGED enc
    BY <1>4 DEF Rekey, At, AfterStep
  <2>2. enc = Token(s.new, s.meta, s.secrets)
    BY <1>4 DEF VaultInv, Step
  <2>3. (Rotating(session[Operator]) /\ Owned(session[Operator], encBak, metaBak))'
    BY <1>1, <1>2, <2>1, Goes DEF Rotating, Owned
  <2>4. Step(session[Operator])'
    BY <2>1, <2>2, <2>3, Goes DEF Step
  <2> QED BY <1>1, <2>1, <2>4, Goes DEF VaultInv, CleanWhenIdle
<1> QED BY <1>3, <1>4 DEF Rekey, At

\* What the session knows is a belief of its operator, before and after the rekeying.
LEMMA RotatingKnows ==
  ASSUME NEW s, Rotating(s)
  PROVE  /\ Known(s.pass, s.secrets) \in expected /\ Known(s.new, s.secrets) \in expected
         /\ s.meta # NoFile
  BY DEF Rotating

\* Where the vault may be cut off, and which of its files then count.
LEMMA CutOff ==
  ASSUME VaultInv, interrupts = 0, session[Operator].at # "closed"
  PROVE  \/ Unused
         \/ Complete /\ (IF Interrupted THEN Good(encBak, metaBak) ELSE Good(enc, meta))
<1> DEFINE s == session[Operator]
<1>1. CASE s.at \in {"createMeta", "createEnc"}
  BY <1>1 DEF VaultInv, Step
<1>2. CASE s.at \in {"read", "opened", "save"}
  BY <1>2 DEF VaultInv, Step, Good, Opens, Complete
<1>3. CASE s.at \in {"backEnc", "backMeta"}
  <2>1. Rotating(s) /\ Owned(s, enc, meta) /\ ~Interrupted
    BY <1>3 DEF VaultInv, Step, Interrupted
  <2>2. Good(enc, meta) /\ Complete
    BY <2>1, RotatingKnows, OwnIsGood DEF Owned, Opens, Complete
  <2> QED BY <2>1, <2>2
<1>4. CASE s.at \in {"rekeyEnc", "rekeyMeta", "dropEncBak"}
  <2>0. /\ Rotating(s) /\ Owned(s, encBak, metaBak)
        /\ Complete \/ (enc = Token(s.new, s.meta, s.secrets) /\ meta = s.meta)
    BY <1>4 DEF VaultInv, Step
  <2>1. Rotating(s) /\ Owned(s, encBak, metaBak) /\ Complete
    BY ONLY <2>0, FilesExist DEF Complete, Rotating
  <2>2. Good(encBak, metaBak) /\ Interrupted
    BY <2>1, RotatingKnows, OwnIsGood DEF Owned, Opens, Interrupted
  <2> QED BY <2>1, <2>2
<1>5. CASE s.at = "dropMetaBak"
  <2>1. Rotating(s) /\ enc = Token(s.new, s.meta, s.secrets) /\ meta = s.meta /\ encBak = NoFile
    BY <1>5 DEF VaultInv, Step
  <2>2. Good(enc, meta)
    BY <2>1, RotatingKnows, RekeyedIsGood DEF Good
  <2>3. s.meta # NoFile /\ enc # NoFile
    BY <2>1, FilesExist DEF Rotating
  <2>4. Complete /\ ~Interrupted
    BY <2>1, <2>3 DEF Complete, Interrupted
  <2> QED BY <2>2, <2>4
<1> QED BY <1>1, <1>2, <1>3, <1>4, <1>5 DEF VaultInv, Step

LEMMA InterruptKeeps ==
  ASSUME OneInterruption, VaultInv, Interrupt(Operator) PROVE VaultInv'
<1>1. interrupts = 0 /\ interrupts' = 1 /\ session[Operator].at # "closed"
  BY DEF VaultInv, OneInterruption, Interrupt, At
<1>2. Exit(Operator) /\ UNCHANGED <<enc, meta, encBak, metaBak, expected>>
  BY DEF Interrupt
<1>3. (\/ Unused
       \/ Complete /\ (IF Interrupted THEN Good(encBak, metaBak) ELSE Good(enc, meta)))'
  BY <1>1, <1>2, CutOff DEF Unused, NoBackups, Complete, Interrupted, Good
<1>4. Step(session[Operator])'
  BY <1>2, <1>3, Exits DEF Step
<1> QED BY <1>1, <1>2, <1>4, Exits DEF VaultInv, CleanWhenIdle

LEMMA VaultStepKeeps ==
  ASSUME OneInterruption, VaultInv, [VaultNext]_vault PROVE VaultInv'
<1>1. CASE UNCHANGED vault
  BY <1>1 DEF vault, VaultInv, Shape, Step, CleanWhenIdle, Unused, NoBackups, Complete, Interrupted, Good, Rotating
<1>2. CASE VaultNext
  <2>1. PICK p \in Procs :
          \/ \E pass \in Passphrases : StartCreate(p, pass) \/ StartOpen(p, pass) \/ StartRotate(p, pass)
          \/ CreateMeta(p) \/ CreateFails(p)
          \/ RestoreEnc(p) \/ RestoreMeta(p) \/ UnlinkEncBak(p) \/ UnlinkMetaBak(p)
          \/ Read(p) \/ Close(p)
          \/ \E secrets : Change(p, secrets)
          \/ Save(p) \/ BackUp(p) \/ Rekey(p)
          \/ Interrupt(p)
    BY <1>2 DEF VaultNext, SetSecret, Delete
  <2>2. p = Operator
    BY DEF OneInterruption
  <2> QED
    BY <2>1, <2>2, StartCreateKeeps, CreateMetaKeeps, CreateFailsKeeps, StartOpenKeeps,
       RestoreEncKeeps, RestoreMetaKeeps, UnlinkEncBakKeeps, UnlinkMetaBakKeeps, ReadKeeps,
       CloseKeeps, ChangeKeeps, SaveKeeps, StartRotateKeeps, BackUpKeeps, RekeyKeeps,
       InterruptKeeps
<1> QED BY <1>1, <1>2

\* A vault outlives one interruption: whatever command it struck and wherever, a vault the operator
\* knows still opens (core/vault.py rotate and _rollback_interrupted_rotation), for any passphrases,
\* secrets and number of salts, while commands run one at a time.  Two interruptions can lock it.
THEOREM VaultEverOpens == ASSUME OneInterruption PROVE VaultSpec => []VaultOpens
<1>1. VaultInit => VaultInv
  BY DEF OneInterruption, VaultInit, VaultInv, Shape, Closed, Step, Unused, NoBackups, CleanWhenIdle
<1>2. VaultInv /\ [VaultNext]_vault => VaultInv'
  BY VaultStepKeeps
<1>3. VaultInv => VaultOpens
  BY DEF OneInterruption, VaultInv, VaultOpens, At, Step, Unused, Good
<1> QED BY <1>1, <1>2, <1>3, PTL DEF VaultSpec

-----------------------------------------------------------------------------
(* Backtest.  What a run over one price history has decided up to a date    *)
(* depends on the prices up to that date only: two runs whose histories    *)
(* agree until then have decided alike.  The two runs follow each other in *)
(* one behaviour, so the invariant keeps the trace of each: the tuple of   *)
(* everything its k-th decision read and left behind.                      *)

\* The k-th date at or after the warm-up, when it is not the last of the frame.
DateOf(k) == (Warmup \div PeriodBars + k) * PeriodBars - 1

LEMMA Wholes == PeriodBars \in Nat /\ PeriodBars >= 1 /\ Warmup \in Nat
  BY BacktestAssumption

LEMMA ProductsGrow ==
  ASSUME NEW a \in Int, NEW b \in Int, NEW c \in Nat, a <= b
  PROVE  a * c \in Int /\ b * c \in Int /\ a * c <= b * c /\ (c >= 1 /\ a < b => a * c + c <= b * c)
<1>1. a * c \in Int /\ b * c \in Int /\ (b - a) * c = b * c - a * c
  OBVIOUS
<1>2. (b - a) * c >= 0
  OBVIOUS
<1>3. (b - a - 1) * c = b * c - a * c - c /\ (a < b => (b - a - 1) * c >= 0)
  OBVIOUS
<1> QED BY <1>1, <1>2, <1>3

\* The quotient is the last factor that does not pass.
LEMMA Quotient ==
  ASSUME NEW n \in Nat, NEW p \in Int
  PROVE  /\ n \div PeriodBars \in Nat
         /\ p * PeriodBars <= n <=> p <= n \div PeriodBars
<1> DEFINE q == n \div PeriodBars
           m == n % PeriodBars
<1>1. q \in Int /\ m \in Int /\ 0 <= m /\ m < PeriodBars /\ n = q * PeriodBars + m
  BY Wholes
<1>2. q \in Nat
  BY <1>1, Wholes
<1> HIDE DEF q, m
<1>3. ASSUME p <= q PROVE p * PeriodBars <= n
  BY <1>1, <1>3, ProductsGrow, Wholes
<1>4. ASSUME p > q PROVE p * PeriodBars > n
  BY <1>1, <1>4, ProductsGrow, Wholes
<1>5. p * PeriodBars \in Int
  BY Wholes
<1>6. q \in Nat /\ (p * PeriodBars <= n <=> p <= q)
  BY <1>1, <1>2, <1>3, <1>4, <1>5
<1> QED BY <1>6 DEF q

\* Every date but the last is the end of a whole period, whatever the frame.
LEMMA DatesAreFixed ==
  ASSUME NEW n \in Nat \ {0}, Len(RebalanceDates(n)) >= 2
  PROVE  /\ Len(RebalanceDates(n)) \in Nat
         /\ \A k \in 1 .. Len(RebalanceDates(n)) : RebalanceDates(n)[k] \in 0 .. n - 1
         /\ \A k \in 1 .. Len(RebalanceDates(n)) - 1 : RebalanceDates(n)[k] = DateOf(k)
<1> DEFINE whole == (n - 1) \div PeriodBars
           count == whole + 1
           End(p) == IF p * PeriodBars <= n THEN p * PeriodBars - 1 ELSE n - 1
           ends  == [p \in 1 .. count |-> End(p)]
           early == {p \in DOMAIN ends : ends[p] < Warmup}
           w     == Warmup \div PeriodBars
           skip  == Cardinality(early)
<1>1. whole \in Nat /\ count \in Nat /\ count >= 1 /\ count - 1 = whole /\ w \in Nat
  <2>1. n - 1 \in Nat /\ 0 \in Int
    OBVIOUS
  <2>2. whole \in Nat /\ w \in Nat
    BY <2>1, Quotient, Wholes
  <2> HIDE DEF whole, w
  <2> QED BY <2>2
<1>14. \A p \in Int : p * PeriodBars <= n - 1 <=> p <= whole
  <2>1. n - 1 \in Nat
    OBVIOUS
  <2> QED BY <2>1, Quotient
<1> HIDE DEF whole
<1>2. \A p \in 1 .. count : End(p) \in 0 .. n - 1
  <2> TAKE p \in 1 .. count
  <2>1. p \in Int /\ 1 * PeriodBars <= p * PeriodBars /\ p * PeriodBars \in Int
    BY <1>1, ProductsGrow, Wholes
  <2> QED BY <2>1, Wholes
<1>3. \A p \in 1 .. count - 1 : End(p) = p * PeriodBars - 1
  <2> TAKE p \in 1 .. count - 1
  <2>1. p \in Int /\ p <= whole
    BY <1>1
  <2>2. p * PeriodBars <= n - 1
    BY <2>1, <1>14
  <2>3. p * PeriodBars \in Int
    BY <2>1, Wholes
  <2> QED BY <2>2, <2>3
<1>4. \A p \in 1 .. count - 1 : End(p) <= End(count)
  <2> TAKE p \in 1 .. count - 1
  <2>1. p \in Int /\ count \in Int /\ p <= count /\ p <= whole
    BY <1>1
  <2>2. p * PeriodBars <= n - 1 /\ p * PeriodBars <= count * PeriodBars
        /\ p * PeriodBars \in Int /\ count * PeriodBars \in Int
    BY <2>1, <1>14, ProductsGrow, Wholes
  <2> HIDE DEF count
  <2> QED BY <2>2
<1>5. \A p \in 1 .. count - 1 : End(p) < Warmup <=> p <= w
  <2> TAKE p \in 1 .. count - 1
  <2>1. p \in Int /\ p * PeriodBars \in Int
    BY <1>1, Wholes
  <2>2. p * PeriodBars <= Warmup <=> p <= w
    BY <2>1, Quotient, Wholes
  <2> QED BY <1>3, <2>1, <2>2, Wholes
<1> HIDE DEF count, End, w
<1>6. /\ ends \in Seq(0 .. n - 1) /\ Len(ends) = count /\ DOMAIN ends = 1 .. count
      /\ \A p \in 1 .. count : ends[p] = End(p)
  BY <1>1, <1>2
<1>7. early = {p \in 1 .. count : End(p) < Warmup}
  BY <1>6
<1> HIDE DEF ends, early
<1>8. IsFiniteSet(early) /\ skip \in Nat
  <2>1. IsFiniteSet(1 .. count)
    BY <1>1, FS_Interval
  <2> QED BY <1>7, <2>1, FS_Subset, FS_CardinalityType
<1>9. RebalanceDates(n) = SubSeq(ends, skip + 1, count)
  BY <1>6 DEF RebalanceDates, ends, early, count, whole, End
<1> HIDE DEF skip
<1>10. /\ Len(RebalanceDates(n)) = count - skip
       /\ \A k \in 1 .. count - skip : RebalanceDates(n)[k] = ends[skip + k]
  <2>1. skip <= Len(ends)
    <3>1. CASE skip > count
      <4>1. SubSeq(ends, skip + 1, count) = << >>
        BY <1>1, <1>6, <1>8, <3>1
      <4>2. RebalanceDates(n) = << >>
        BY <1>9, <4>1
      <4> QED BY <4>2
    <3> QED BY <1>1, <1>6, <1>8, <3>1
  <2>2. SubSeq(ends, skip + 1, Len(ends)) = RebalanceDates(n)
    BY <1>6, <1>9
  <2>3. /\ Len(RebalanceDates(n)) = Len(ends) - skip
        /\ \A k \in 1 .. Len(ends) - skip : RebalanceDates(n)[k] = ends[skip + k]
    <3>1. ends \in Seq(0 .. n - 1) /\ skip \in Nat /\ skip <= Len(ends)
      BY <1>6, <1>8, <2>1
    <3>2. /\ Len(SubSeq(ends, skip + 1, Len(ends))) = Len(ends) - skip
          /\ \A k \in 1 .. Len(ends) - skip : SubSeq(ends, skip + 1, Len(ends))[k] = ends[skip + k]
      BY ONLY <3>1, FromOn
    <3> QED BY ONLY <2>2, <3>2
  <2> QED BY <1>6, <2>3
<1>11. skip = w
  <2>1. count \notin early
    <3> SUFFICES ASSUME count \in early PROVE FALSE
      OBVIOUS
    <3>1. early = 1 .. count
      BY <1>1, <1>2, <1>4, <1>7, Wholes
    <3>2. skip = count
      BY <1>1, <3>1, FS_Interval DEF skip
    <3> QED BY <1>1, <1>10, <3>2
  <2>2. early = {p \in 1 .. count - 1 : p <= w}
    BY <1>1, <1>5, <1>7, <2>1
  <2>3. w < count - 1
    <3> SUFFICES ASSUME w >= count - 1 PROVE FALSE
      BY <1>1
    <3>0. \A p \in 1 .. count - 1 : p <= w
      BY <1>1
    <3>1. early = 1 .. count - 1
      BY <2>2, <3>0, Zenon
    <3>2. skip = count - 1
      BY <1>1, <3>1, FS_Interval DEF skip
    <3> QED BY <1>1, <1>10, <3>2
  <2>4. early = 1 .. w
    <3>1. \A p : p \in 1 .. count - 1 /\ p <= w <=> p \in 1 .. w
      BY <1>1, <2>3
    <3> QED BY <2>2, <3>1, Zenon
  <2> QED BY <1>1, <2>4, FS_Interval DEF skip
<1>12. ASSUME NEW k \in 1 .. count - skip PROVE RebalanceDates(n)[k] \in 0 .. n - 1
  BY <1>1, <1>2, <1>6, <1>8, <1>10, <1>12
<1>13. ASSUME NEW k \in 1 .. count - skip - 1 PROVE RebalanceDates(n)[k] = DateOf(k)
  <2>1. skip + k \in 1 .. count - 1 /\ k \in 1 .. count - skip /\ skip + k \in 1 .. count
    BY <1>1, <1>8, <1>13
  <2>2. RebalanceDates(n)[k] = (skip + k) * PeriodBars - 1
    BY <1>3, <1>6, <1>10, <2>1
  <2> QED BY <1>11, <2>2 DEF DateOf, w
<1> QED
  BY <1>1, <1>8, <1>10, <1>12, <1>13

\* The dates come in order, so a date has one index.
LEMMA DatesAscend ==
  ASSUME NEW j \in Nat, NEW k \in Nat
  PROVE  /\ DateOf(k) \in Int /\ (k >= 1 => DateOf(k) \in Nat)
         /\ j < k => DateOf(j) < DateOf(k)
<1> DEFINE w == Warmup \div PeriodBars
<1>1. w \in Nat
  BY Quotient, Wholes
<1> HIDE DEF w
<1>2. (w + k) * PeriodBars \in Int /\ (w + j) * PeriodBars \in Int
      /\ (j < k => (w + j) * PeriodBars + PeriodBars <= (w + k) * PeriodBars)
  <2>1. w + j \in Int /\ w + k \in Int /\ (j < k => w + j < w + k /\ w + j <= w + k)
    BY <1>1
  <2> QED BY <2>1, ProductsGrow, Wholes
<1>3. k >= 1 => 1 * PeriodBars <= (w + k) * PeriodBars
  <2>1. 1 \in Int /\ w + k \in Int /\ (k >= 1 => 1 <= w + k)
    BY <1>1
  <2> QED BY <2>1, ProductsGrow, Wholes
<1>4. 1 * PeriodBars >= 1
  BY Wholes
<1>5. (w + k) * PeriodBars - 1 \in Int /\ (k >= 1 => (w + k) * PeriodBars - 1 \in Nat)
      /\ (j < k => (w + j) * PeriodBars - 1 < (w + k) * PeriodBars - 1)
  BY <1>2, <1>3, <1>4, Wholes
<1> QED
  BY <1>5 DEF DateOf, w

-----------------------------------------------------------------------------
(* What a run does at its k-th date, written from what it found there: the  *)
(* account, and what the engine had been shown and was shown.               *)
Mean(a, research, result) ==
    IF result.blocked THEN a.book
    ELSE IF result.achieved # NoFills /\ ~research THEN result.achieved
    ELSE result.target

ReturnOf(a, book, from, to) ==
    (book * (to - from) * 100) \div from
    - Abs(book - a.book) * CostPct
    - IF MaxGross > 1 THEN Higher(book - 1, 0) * FinancingPct ELSE 0

After(a, book, from, to) ==
    LET equity == a.equity + (a.equity * ReturnOf(a, book, from, to)) \div 100
    IN  [book |-> book, equity |-> equity, peak |-> Higher(a.peak, equity)]

ShownAt(f, a, t) ==
    [seen |-> SubSeq(f, 1, t + 1), book |-> a.book,
     drawdown |-> Higher(0, ((a.peak - a.equity) * 100) \div a.peak)]

\* The decisions of a run at its first n dates: H[k] is [account, memory, shown, result].
Traced(H, n, f, research, known, found) ==
    /\ \A k \in 1 .. n :
         /\ H[k].shown = ShownAt(f, H[k].account, DateOf(k))
         /\ <<H[k].memory, H[k].shown>> \in DOMAIN known
         /\ known[<<H[k].memory, H[k].shown>>] = H[k].result
         /\ found[DateOf(k)] = [equity |-> H[k].account.equity,
                                book   |-> Mean(H[k].account, research, H[k].result)]
    /\ DOMAIN found = {DateOf(k) : k \in 1 .. n}
    /\ n >= 1 => H[1].account = Fresh /\ H[1].memory = << >>
    /\ \A k \in 1 .. n - 1 :
         /\ H[k + 1].account = After(H[k].account, Mean(H[k].account, research, H[k].result),
                                     f[DateOf(k) + 1], f[DateOf(k + 1) + 1])
         /\ H[k + 1].memory = Append(H[k].memory, H[k].shown)

\* What the run finds at its next date.
Arrived(H, n, f, research, a, memory) ==
    IF n = 0 THEN a = Fresh /\ memory = << >>
    ELSE /\ a = After(H[n].account, Mean(H[n].account, research, H[n].result),
                      f[DateOf(n) + 1], f[DateOf(n + 1) + 1])
         /\ memory = Append(H[n].memory, H[n].shown)

Agree(f, g, k) == \A b \in 1 .. DateOf(k) + 1 : f[b] = g[b]

Same(d, e) ==
    d.account = e.account /\ d.memory = e.memory /\ d.shown = e.shown /\ d.result = e.result

Alike(G, H, m, n, f, g) == \A k \in 1 .. m : k <= n /\ Agree(f, g, k) => Same(G[k], H[k])

Dates(r) == Len(RebalanceDates(Len(frames[r])))
Decided(r) == IF r < runNo THEN Dates(r) - 1 ELSE IF r = runNo THEN turn - 1 ELSE 0

RunInv(G, H) ==
    /\ Traced(G, Decided(1), frames[1], isResearch, answers, diary[1])
    /\ Traced(H, Decided(2), frames[2], isResearch, answers, diary[2])
    /\ Alike(G, H, Decided(1), Decided(2), frames[1], frames[2])
    /\ runNo = 1 => Arrived(G, turn - 1, frames[1], isResearch, account, singletons)
    /\ runNo = 2 => Arrived(H, turn - 1, frames[2], isResearch, account, singletons)

BacktestInv ==
    /\ frames \in Frames \X Frames
    /\ Dates(1) >= 2 /\ Dates(2) >= 2
    /\ runNo \in 1 .. 3 /\ turn \in Nat
    /\ runNo = 1 => turn \in 1 .. Dates(1) - 1
    /\ runNo = 2 => turn \in 1 .. Dates(2) - 1
    /\ DOMAIN diary = 1 .. 2
    /\ \E G, H : RunInv(G, H)

LEMMA FramesAreSequences ==
  ASSUME NEW f \in Frames
  PROVE  f \in Seq(Prices) /\ Len(f) \in Nat \ {0}
<1>1. PICK n \in Lengths : f \in [1 .. n -> Prices]
  BY DEF Frames
<1> QED BY <1>1, BacktestAssumption

\* The run decides once more, the engine having answered.
OneMore(H, n, f, research, known, found, entry, H2, known2, found2) ==
    /\ Traced(H, n, f, research, known, found)
    /\ Arrived(H, n, f, research, entry.account, entry.memory)
    /\ entry.shown = ShownAt(f, entry.account, DateOf(n + 1))
    /\ <<entry.memory, entry.shown>> \in DOMAIN known2
    /\ known2[<<entry.memory, entry.shown>>] = entry.result
    /\ \A v \in DOMAIN known : v \in DOMAIN known2 /\ known2[v] = known[v]
    /\ DOMAIN found2 = DOMAIN found \union {DateOf(n + 1)}
    /\ \A t \in DOMAIN found : t # DateOf(n + 1) => found2[t] = found[t]
    /\ found2[DateOf(n + 1)] = [equity |-> entry.account.equity,
                                book   |-> Mean(entry.account, research, entry.result)]
    /\ \A k \in 1 .. n : H2[k] = H[k]
    /\ H2[n + 1] = entry

LEMMA TraceGrows ==
  ASSUME NEW H, NEW n \in Nat, NEW f, NEW research, NEW known, NEW found,
         NEW entry, NEW H2, NEW known2, NEW found2,
         OneMore(H, n, f, research, known, found, entry, H2, known2, found2)
  PROVE  Traced(H2, n + 1, f, research, known2, found2)
<1> USE DEF OneMore
<1>1. \A k \in 1 .. n : k \in Nat /\ DateOf(k) # DateOf(n + 1)
  <2> TAKE k \in 1 .. n
  <2>1. k \in Nat /\ n + 1 \in Nat /\ k < n + 1
    OBVIOUS
  <2>2. DateOf(k) \in Int /\ DateOf(n + 1) \in Int /\ DateOf(k) < DateOf(n + 1)
    BY <2>1, DatesAscend
  <2> QED BY <2>1, <2>2
<1>2. \A k \in 1 .. n + 1 : k \in 1 .. n \/ k = n + 1
  OBVIOUS
<1>3. ASSUME NEW k \in 1 .. n + 1
      PROVE  /\ H2[k].shown = ShownAt(f, H2[k].account, DateOf(k))
             /\ <<H2[k].memory, H2[k].shown>> \in DOMAIN known2
             /\ known2[<<H2[k].memory, H2[k].shown>>] = H2[k].result
             /\ found2[DateOf(k)] = [equity |-> H2[k].account.equity,
                                     book   |-> Mean(H2[k].account, research, H2[k].result)]
  <2>1. CASE k \in 1 .. n
    <3>1. H2[k] = H[k] /\ DateOf(k) \in DOMAIN found /\ DateOf(k) # DateOf(n + 1)
      BY <1>1, <2>1, Zenon DEF Traced
    <3>2. found2[DateOf(k)] = found[DateOf(k)]
      BY <3>1
    <3>3. /\ H[k].shown = ShownAt(f, H[k].account, DateOf(k))
          /\ <<H[k].memory, H[k].shown>> \in DOMAIN known
          /\ known[<<H[k].memory, H[k].shown>>] = H[k].result
          /\ found[DateOf(k)] = [equity |-> H[k].account.equity,
                                 book   |-> Mean(H[k].account, research, H[k].result)]
      BY <2>1, Zenon DEF Traced
    <3>4. known2[<<H[k].memory, H[k].shown>>] = known[<<H[k].memory, H[k].shown>>]
          /\ <<H[k].memory, H[k].shown>> \in DOMAIN known2
      BY <3>3, Zenon
    <3> QED BY <3>1, <3>2, <3>3, <3>4, Zenon
  <2>2. CASE k = n + 1
    BY <2>2, Zenon
  <2> QED BY <1>2, <2>1, <2>2
<1>4. DOMAIN found2 = {DateOf(k) : k \in 1 .. n + 1}
  <2>1. DOMAIN found = {DateOf(k) : k \in 1 .. n}
    BY DEF Traced
  <2>2. n + 1 \in 1 .. n + 1 /\ \A k \in 1 .. n : k \in 1 .. n + 1
    OBVIOUS
  <2> QED BY <1>2, <2>1, <2>2, Zenon
<1>5. H2[1].account = Fresh /\ H2[1].memory = << >>
  <2>1. CASE n = 0
    BY <2>1 DEF Arrived
  <2>2. CASE n # 0
    <3>1. n >= 1 /\ 1 \in 1 .. n
      BY <2>2
    <3> QED BY <3>1 DEF Traced
  <2> QED BY <2>1, <2>2
<1>6. ASSUME NEW k \in 1 .. n
      PROVE  /\ H2[k + 1].account
                  = After(H2[k].account, Mean(H2[k].account, research, H2[k].result),
                          f[DateOf(k) + 1], f[DateOf(k + 1) + 1])
             /\ H2[k + 1].memory = Append(H2[k].memory, H2[k].shown)
  <2>1. CASE k = n
    <3>1. n # 0 /\ H2[k] = H[n] /\ H2[k + 1] = entry
      BY <2>1
    <3> QED BY <2>1, <3>1, Zenon DEF Arrived
  <2>2. CASE k # n
    <3>1. k \in 1 .. n - 1 /\ k + 1 \in 1 .. n
      BY <2>2
    <3>2. H2[k] = H[k] /\ H2[k + 1] = H[k + 1]
      BY <3>1
    <3> QED BY <3>1, <3>2, Zenon DEF Traced
  <2> QED BY <2>1, <2>2
<1>7. (n + 1) - 1 = n
  OBVIOUS
<1> QED
  BY <1>3, <1>4, <1>5, <1>6, <1>7, Zenon DEF Traced

\* The other run keeps its trace when the engine answers one more view.
LEMMA TraceStays ==
  ASSUME NEW H, NEW n \in Nat, NEW f, NEW research, NEW known, NEW found,
         Traced(H, n, f, research, known, found), NEW known2,
         \A v \in DOMAIN known : v \in DOMAIN known2 /\ known2[v] = known[v]
  PROVE  Traced(H, n, f, research, known2, found)
  BY Zenon DEF Traced

\* Two runs that saw the same prices have found, been shown and decided the same so far.
LEMMA AlikeSoFar ==
  ASSUME NEW G, NEW H, NEW m \in Nat, NEW n \in Nat, NEW f, NEW g, NEW research,
         NEW known, NEW found, Traced(G, m, f, research, known, found),
         Alike(G, H, m, n, f, g), n + 1 <= m, Agree(f, g, n + 1),
         NEW a, NEW memory, Arrived(H, n, g, research, a, memory)
  PROVE  a = G[n + 1].account /\ memory = G[n + 1].memory
<1>1. CASE n = 0
  BY <1>1 DEF Arrived, Traced
<1>2. CASE n # 0
  <2>1. n \in 1 .. m /\ n \in 1 .. m - 1 /\ n \in Nat /\ n + 1 \in Nat /\ n < n + 1 /\ n <= n
    BY <1>2
  <2>2. DateOf(n) \in Int /\ DateOf(n + 1) \in Int /\ DateOf(n) < DateOf(n + 1)
        /\ DateOf(n) >= 0
    <3>1. n >= 1
      BY <1>2
    <3>2. DateOf(n) \in Nat
      BY <2>1, <3>1, DatesAscend
    <3> QED BY <2>1, <3>2, DatesAscend
  <2>3. Agree(f, g, n) /\ f[DateOf(n) + 1] = g[DateOf(n) + 1]
        /\ f[DateOf(n + 1) + 1] = g[DateOf(n + 1) + 1]
    BY <2>2 DEF Agree
  <2>4. Same(G[n], H[n])
    BY <2>1, <2>3, Zenon DEF Alike
  <2>5. /\ G[n + 1].account = After(G[n].account, Mean(G[n].account, research, G[n].result),
                                    f[DateOf(n) + 1], f[DateOf(n + 1) + 1])
        /\ G[n + 1].memory = Append(G[n].memory, G[n].shown)
    BY <2>1, Zenon DEF Traced
  <2> QED BY <1>2, <2>3, <2>4, <2>5 DEF Arrived, Same
<1> QED BY <1>1, <1>2

LEMMA SameSlice ==
  ASSUME NEW f \in Seq(Prices), NEW g \in Seq(Prices), NEW k \in Nat, Agree(f, g, k),
         DateOf(k) \in Nat, DateOf(k) + 1 <= Len(f), DateOf(k) + 1 <= Len(g), NEW a
  PROVE  ShownAt(f, a, DateOf(k)) = ShownAt(g, a, DateOf(k))
<1> DEFINE t == DateOf(k) + 1
<1>1. t \in Nat /\ t >= 1
  OBVIOUS
<1>2. \A b \in 1 .. t : f[b] = g[b]
  BY DEF Agree
<1> HIDE DEF t
<1>3. SubSeq(f, 1, t) = SubSeq(g, 1, t)
  <2>1. 1 \in 1 .. Len(f) + 1 /\ t \in 0 .. Len(f) /\ 1 \in 1 .. Len(g) + 1 /\ t \in 0 .. Len(g)
    BY <1>1 DEF t
  <2> QED BY <1>1, <1>2, <2>1
<1> QED BY <1>3 DEF ShownAt, t

-----------------------------------------------------------------------------
(* The two runs.                                                            *)
LEMMA TheDates ==
  ASSUME BacktestInv, NEW r \in 1 .. 2
  PROVE  /\ frames[r] \in Frames /\ frames[r] \in Seq(Prices) /\ Len(frames[r]) \in Nat \ {0}
         /\ Dates(r) \in Nat /\ Dates(r) >= 2
         /\ \A k \in 1 .. Dates(r) : RebalanceDates(Len(frames[r]))[k] \in 0 .. Len(frames[r]) - 1
         /\ \A k \in 1 .. Dates(r) - 1 : RebalanceDates(Len(frames[r]))[k] = DateOf(k)
<1>1. frames[r] \in Frames /\ Dates(r) >= 2
  BY DEF BacktestInv
<1>2. frames[r] \in Seq(Prices) /\ Len(frames[r]) \in Nat \ {0}
  BY <1>1, FramesAreSequences
<1> HIDE DEF BacktestInv
<1>3. Len(RebalanceDates(Len(frames[r]))) >= 2
  BY <1>1 DEF Dates
<1> QED BY <1>1, <1>2, <1>3, DatesAreFixed DEF Dates

\* One turn of the loop in run r, the engine shown this and answering that.
Turned(r, shown, result) ==
    LET prices == frames[r]
        dates  == RebalanceDates(Len(prices))
        view   == <<singletons, shown>>
        last   == turn + 1 = Len(dates)
        book   == NewBook(result)
        equity == account.equity + (account.equity
                    * NetReturn(book, prices[dates[turn] + 1], prices[dates[turn + 1] + 1]))
                    \div 100
    IN  /\ answers' = [v \in DOMAIN answers \union {view} |->
                         IF v = view THEN result ELSE answers[v]]
        /\ diary' = [diary EXCEPT ![r] =
                       [t \in DOMAIN @ \union {dates[turn]} |->
                          IF t = dates[turn] THEN [equity |-> account.equity, book |-> book]
                          ELSE @[t]]]
        /\ account' = IF last THEN Fresh
                      ELSE [book |-> book, equity |-> equity,
                            peak |-> Higher(account.peak, equity)]
        /\ singletons' = IF last THEN ResetMemory ELSE Append(singletons, shown)
        /\ runNo' = IF last THEN r + 1 ELSE r
        /\ turn' = IF last THEN 1 ELSE turn + 1

LEMMA RebalanceTurns ==
  ASSUME Rebalance
  PROVE  LET shown == View(frames[runNo], RebalanceDates(Len(frames[runNo])))
         IN  \E result \in IF <<singletons, shown>> \in DOMAIN answers
                           THEN {answers[<<singletons, shown>>]} ELSE Results :
               Turned(runNo, shown, result)
  BY Zenon DEF Rebalance, Turned

\* The turn adds one entry to the trace of its run.
Decision(r, H, entry, K) ==
    /\ entry.account = account /\ entry.memory = singletons
    /\ entry.shown = ShownAt(frames[r], account, DateOf(turn))
    /\ <<singletons, entry.shown>> \in DOMAIN answers
         => entry.result = answers[<<singletons, entry.shown>>]
    /\ \A k \in 1 .. turn - 1 : K[k] = H[k]
    /\ K[turn] = entry
    /\ Traced(K, turn, frames[r], isResearch, answers', diary'[r])
    /\ IF turn + 1 = Dates(r)
       THEN account' = Fresh /\ singletons' = << >> /\ runNo' = r + 1 /\ turn' = 1
       ELSE /\ Arrived(K, turn, frames[r], isResearch, account', singletons')
            /\ runNo' = r /\ turn' = turn + 1
    /\ \A v \in DOMAIN answers : v \in DOMAIN answers' /\ answers'[v] = answers[v]

\* What one turn of the loop does to the run it belongs to.
LEMMA Decides ==
  ASSUME BacktestInv, Rebalance, NEW r \in 1 .. 2, runNo = r, turn \in 1 .. Dates(r) - 1, NEW H,
         Traced(H, turn - 1, frames[r], isResearch, answers, diary[r]),
         Arrived(H, turn - 1, frames[r], isResearch, account, singletons)
  PROVE  \E entry, K : Decision(r, H, entry, K)
<1> DEFINE prices == frames[r]
           dates  == RebalanceDates(Len(prices))
           shown  == ShownAt(prices, account, DateOf(turn))
           view   == <<singletons, shown>>
<1>1. turn \in Nat /\ turn >= 1 /\ turn - 1 \in Nat /\ (turn - 1) + 1 = turn /\ Dates(r) \in Nat
      /\ turn \in 1 .. Dates(r) /\ turn + 1 \in 1 .. Dates(r)
  BY TheDates
<1>2. /\ dates[turn] = DateOf(turn)
      /\ turn + 1 # Len(dates) => dates[turn + 1] = DateOf(turn + 1)
  <2>1. turn + 1 # Dates(r) => turn + 1 \in 1 .. Dates(r) - 1
    BY <1>1
  <2>2. Dates(r) = Len(dates)
    BY DEF Dates
  <2> QED BY <2>1, <2>2, TheDates
<1>3. View(prices, dates) = shown
  BY <1>2 DEF View, Seen, ShownAt
<1>4. PICK result \in IF view \in DOMAIN answers THEN {answers[view]} ELSE Results :
        Turned(r, shown, result)
  <2> HIDE DEF shown
  <2> QED BY <1>3, RebalanceTurns
<1> DEFINE book  == Mean(account, isResearch, result)
           entry == [account |-> account, memory |-> singletons, shown |-> shown, result |-> result]
           K     == [k \in Nat |-> IF k = turn THEN entry ELSE H[k]]
<1>5. NewBook(result) = book
  BY DEF NewBook, Mean
<1>6. view \in DOMAIN answers => result = answers[view]
  BY <1>4
<1>7. /\ view \in DOMAIN answers' /\ answers'[view] = result
      /\ \A v \in DOMAIN answers : v \in DOMAIN answers' /\ answers'[v] = answers[v]
  <2>1. answers' = [v \in DOMAIN answers \union {view} |-> IF v = view THEN result ELSE answers[v]]
    BY <1>4 DEF Turned
  <2> HIDE DEF view
  <2> QED BY <1>6, <2>1
<1>8. /\ DOMAIN diary'[r] = DOMAIN diary[r] \union {DateOf(turn)}
      /\ \A t \in DOMAIN diary[r] : t # DateOf(turn) => diary'[r][t] = diary[r][t]
      /\ diary'[r][DateOf(turn)] = [equity |-> account.equity, book |-> book]
  <2>1. r \in DOMAIN diary
    BY DEF BacktestInv
  <2> HIDE DEF BacktestInv, book
  <2>2. diary'[r] = [t \in DOMAIN diary[r] \union {DateOf(turn)} |->
                       IF t = DateOf(turn) THEN [equity |-> account.equity, book |-> book]
                       ELSE diary[r][t]]
    BY <1>2, <1>4, <1>5, <2>1 DEF Turned
  <2> QED BY <2>2
<1>9. Traced(K, turn, frames[r], isResearch, answers', diary'[r])
  <2>1. \A k \in 1 .. turn - 1 : K[k] = H[k]
    BY <1>1
  <2>2. K[turn] = entry
    BY <1>1
  <2>3. entry.account = account /\ entry.memory = singletons /\ entry.shown = shown
        /\ entry.result = result
    OBVIOUS
  <2>4. turn - 1 \in Nat /\ (turn - 1) + 1 = turn
    BY <1>1
  <2> HIDE DEF K, entry, shown
  <2>5. Traced(K, (turn - 1) + 1, frames[r], isResearch, answers', diary'[r])
    <3> DEFINE n == turn - 1
               later == answers'
               found == diary'[r]
    <3>1. n \in Nat /\ n + 1 = turn
      BY <2>4
    <3>2. /\ entry.shown = ShownAt(frames[r], entry.account, DateOf(n + 1))
          /\ <<entry.memory, entry.shown>> \in DOMAIN later
          /\ later[<<entry.memory, entry.shown>>] = entry.result
          /\ \A v \in DOMAIN answers : v \in DOMAIN later /\ later[v] = answers[v]
      BY <1>7, <2>3, <3>1 DEF shown
    <3>3. /\ DOMAIN found = DOMAIN diary[r] \union {DateOf(n + 1)}
          /\ \A t \in DOMAIN diary[r] : t # DateOf(n + 1) => found[t] = diary[r][t]
          /\ found[DateOf(n + 1)] = [equity |-> entry.account.equity,
                                     book   |-> Mean(entry.account, isResearch, entry.result)]
      BY <1>8, <2>3, <3>1
    <3>4. (\A k \in 1 .. n : K[k] = H[k]) /\ K[n + 1] = entry
      BY <2>1, <2>2, <3>1
    <3>5. /\ Traced(H, n, frames[r], isResearch, answers, diary[r])
          /\ Arrived(H, n, frames[r], isResearch, entry.account, entry.memory)
      BY <2>3
    <3> HIDE DEF n, later, found
    <3>6. OneMore(H, n, frames[r], isResearch, answers, diary[r], entry, K, later, found)
      BY <3>2, <3>3, <3>4, <3>5, Zenon DEF OneMore
    <3>7. Traced(K, n + 1, frames[r], isResearch, later, found)
      BY <3>1, <3>6, TraceGrows
    <3> QED BY <3>7 DEF n, later, found
  <2> QED BY <2>4, <2>5
<1>10. ASSUME turn + 1 # Dates(r)
       PROVE  Arrived(K, turn, frames[r], isResearch, account', singletons')
  <2>1. turn # 0 /\ K[turn] = entry
    BY <1>1
  <2>2. dates[turn] = DateOf(turn) /\ dates[turn + 1] = DateOf(turn + 1) /\ turn + 1 # Len(dates)
    BY <1>2, <1>10 DEF Dates
  <2>3. singletons' = Append(singletons, shown)
    BY <1>4, <2>2 DEF Turned
  <2>4. account' = After(account, book, prices[DateOf(turn) + 1], prices[DateOf(turn + 1) + 1])
    <3> HIDE DEF book
    <3>1. \A from, to : NetReturn(book, from, to) = ReturnOf(account, book, from, to)
      BY DEF NetReturn, ReturnOf
    <3> QED BY <1>4, <1>5, <2>2, <3>1 DEF Turned, After
  <2>5. entry.account = account /\ entry.memory = singletons /\ entry.shown = shown
        /\ entry.result = result
    OBVIOUS
  <2> HIDE DEF K, entry, shown
  <2> QED BY <2>1, <2>3, <2>4, <2>5 DEF Arrived
<1>11. turn + 1 = Dates(r) => account' = Fresh /\ singletons' = << >> /\ runNo' = r + 1 /\ turn' = 1
  BY <1>4 DEF Turned, ResetMemory, Dates
<1>12. turn + 1 # Dates(r) => runNo' = r /\ turn' = turn + 1
  BY <1>4 DEF Turned, Dates
<1>13. /\ entry.account = account /\ entry.memory = singletons /\ entry.shown = shown
       /\ entry.result = result
       /\ K[turn] = entry /\ \A k \in 1 .. turn - 1 : K[k] = H[k]
  BY <1>1
<1> HIDE DEF K, entry, shown
<1> WITNESS entry, K
<1> QED BY <1>6, <1>7, <1>9, <1>10, <1>11, <1>12, <1>13 DEF shown, Decision

LEMMA OtherRunStays ==
  ASSUME BacktestInv, Rebalance
  PROVE  /\ UNCHANGED <<frames, isResearch>> /\ DOMAIN diary' = DOMAIN diary
         /\ \A q \in 1 .. 2 : q # runNo => diary'[q] = diary[q]
<1>1. DOMAIN diary = 1 .. 2
  BY DEF BacktestInv
<1>2. PICK shown, result : Turned(runNo, shown, result)
  BY RebalanceTurns, Zenon
<1>3. /\ DOMAIN diary' = DOMAIN diary
      /\ \A q \in DOMAIN diary : q # runNo => diary'[q] = diary[q]
  BY <1>2 DEF Turned
<1> QED BY <1>1, <1>3 DEF Rebalance

LEMMA FirstRunSteps ==
  ASSUME BacktestInv, Rebalance, runNo = 1 PROVE BacktestInv'
<1>1. PICK G, H : RunInv(G, H)
  BY DEF BacktestInv
<1>2. 1 \in 1 .. 2 /\ 2 \in 1 .. 2 /\ turn \in 1 .. Dates(1) - 1 /\ Dates(1) \in Nat
  BY TheDates DEF BacktestInv
<1>3. Decided(1) = turn - 1 /\ Decided(2) = 0
  BY DEF Decided
<1>4. /\ Traced(G, turn - 1, frames[1], isResearch, answers, diary[1])
      /\ Arrived(G, turn - 1, frames[1], isResearch, account, singletons)
      /\ Traced(H, 0, frames[2], isResearch, answers, diary[2])
  BY <1>1, <1>3 DEF RunInv
<1>5. PICK entry, K : Decision(1, G, entry, K)
  BY <1>2, <1>4, Decides
<1> USE DEF Decision
<1>6. UNCHANGED <<frames, isResearch>> /\ DOMAIN diary' = 1 .. 2 /\ diary'[2] = diary[2]
  BY <1>2, OtherRunStays DEF BacktestInv
<1>7. Dates(1)' = Dates(1) /\ Dates(2)' = Dates(2)
  BY <1>6 DEF Dates
<1>8. Decided(1)' = turn /\ Decided(2)' = 0
  <2>1. CASE turn + 1 = Dates(1)
    BY <1>2, <1>5, <1>7, <2>1 DEF Decided
  <2>2. CASE turn + 1 # Dates(1)
    BY <1>2, <1>5, <1>7, <2>2 DEF Decided
  <2> QED BY <2>1, <2>2
<1>9. Traced(H, 0, frames[2], isResearch, answers', diary[2])
  BY <1>4, <1>5, TraceStays
<1>10. Alike(K, H, turn, 0, frames[1], frames[2])
  BY <1>2 DEF Alike
<1>11. RunInv(K, H)'
  <2>1. CASE turn + 1 = Dates(1)
    <3>1. runNo' = 2 /\ account' = Fresh /\ singletons' = << >> /\ turn' - 1 = 0
      BY <1>5, <2>1
    <3>2. Arrived(H, turn' - 1, frames'[2], isResearch', account', singletons')
      BY <3>1 DEF Arrived
    <3> QED BY <1>5, <1>6, <1>8, <1>9, <1>10, <3>1, <3>2 DEF RunInv
  <2>2. CASE turn + 1 # Dates(1)
    <3>1. runNo' = 1 /\ turn' - 1 = turn
      BY <1>2, <1>5, <2>2
    <3> QED BY <1>2, <1>5, <1>6, <1>8, <1>9, <1>10, <2>2, <3>1 DEF RunInv
  <2> QED BY <2>1, <2>2
<1>12. frames \in Frames \X Frames /\ Dates(1) >= 2 /\ Dates(2) >= 2 /\ Dates(2) \in Nat
  BY <1>2, TheDates DEF BacktestInv
<1>13. /\ runNo' \in 1 .. 3 /\ turn' \in Nat
       /\ runNo' = 1 => turn' \in 1 .. Dates(1) - 1
       /\ runNo' = 2 => turn' \in 1 .. Dates(2) - 1
  BY <1>2, <1>5, <1>12
<1> QED BY <1>6, <1>7, <1>11, <1>12, <1>13 DEF BacktestInv

LEMMA SecondRunSteps ==
  ASSUME BacktestInv, Rebalance, runNo = 2 PROVE BacktestInv'
<1>1. PICK G, H : RunInv(G, H)
  BY DEF BacktestInv
<1>2. /\ 1 \in 1 .. 2 /\ 2 \in 1 .. 2 /\ turn \in 1 .. Dates(2) - 1 /\ Dates(2) \in Nat
      /\ Dates(1) \in Nat /\ Dates(1) - 1 \in Nat
      /\ turn \in Nat /\ turn - 1 \in Nat /\ (turn - 1) + 1 = turn /\ turn >= 1
  BY TheDates DEF BacktestInv
<1>3. Decided(1) = Dates(1) - 1 /\ Decided(2) = turn - 1
  BY DEF Decided
<1> DEFINE m == Dates(1) - 1
<1>4. /\ Traced(G, m, frames[1], isResearch, answers, diary[1])
      /\ Traced(H, turn - 1, frames[2], isResearch, answers, diary[2])
      /\ Arrived(H, turn - 1, frames[2], isResearch, account, singletons)
      /\ Alike(G, H, m, turn - 1, frames[1], frames[2])
  BY <1>1, <1>3 DEF RunInv
<1>5. PICK entry, K : Decision(2, H, entry, K)
  BY <1>2, <1>4, Decides
<1> USE DEF Decision
<1>6. UNCHANGED <<frames, isResearch>> /\ DOMAIN diary' = 1 .. 2 /\ diary'[1] = diary[1]
  BY <1>2, OtherRunStays DEF BacktestInv
<1>7. Dates(1)' = Dates(1) /\ Dates(2)' = Dates(2)
  BY <1>6 DEF Dates
<1>8. Decided(1)' = m /\ Decided(2)' = turn
  <2>1. CASE turn + 1 = Dates(2)
    BY <1>2, <1>5, <1>7, <2>1 DEF Decided
  <2>2. CASE turn + 1 # Dates(2)
    BY <1>2, <1>5, <1>7, <2>2 DEF Decided
  <2> QED BY <2>1, <2>2
<1>9. Traced(G, m, frames[1], isResearch, answers', diary[1])
  BY <1>2, <1>4, <1>5, TraceStays
<1>10. ASSUME turn <= m, Agree(frames[1], frames[2], turn) PROVE Same(G[turn], entry)
  <2> DEFINE n == turn - 1
  <2>1. m \in Nat /\ n \in Nat /\ n + 1 = turn /\ n + 1 <= m /\ turn \in 1 .. m
    BY <1>2, <1>10
  <2>2. /\ Traced(G, m, frames[1], isResearch, answers, diary[1])
        /\ Alike(G, H, m, n, frames[1], frames[2])
        /\ Agree(frames[1], frames[2], n + 1)
        /\ Arrived(H, n, frames[2], isResearch, account, singletons)
    BY <1>4, <1>10, <2>1
  <2>3. account = G[turn].account /\ singletons = G[turn].memory
    <3> HIDE DEF m, n
    <3>1. account = G[n + 1].account /\ singletons = G[n + 1].memory
      BY <2>1, <2>2, AlikeSoFar
    <3> QED BY <2>1, <3>1
  <2>4. /\ DateOf(turn) \in Nat
        /\ DateOf(turn) + 1 <= Len(frames[1]) /\ DateOf(turn) + 1 <= Len(frames[2])
        /\ frames[1] \in Seq(Prices) /\ frames[2] \in Seq(Prices)
    <3>1. turn \in 1 .. Dates(1) /\ turn \in 1 .. Dates(1) - 1 /\ turn \in 1 .. Dates(2)
      BY <1>2, <1>10
    <3>2. DateOf(turn) \in 0 .. Len(frames[1]) - 1 /\ DateOf(turn) \in 0 .. Len(frames[2]) - 1
          /\ Len(frames[1]) \in Nat /\ Len(frames[2]) \in Nat
      BY <1>2, <3>1, TheDates
    <3> QED BY <1>2, <3>2, TheDates
  <2>5. entry.shown = ShownAt(frames[1], account, DateOf(turn))
    <3>1. turn \in Nat /\ Agree(frames[1], frames[2], turn)
      BY <2>1, <1>10
    <3>2. ShownAt(frames[1], account, DateOf(turn)) = ShownAt(frames[2], account, DateOf(turn))
      BY ONLY <2>4, <3>1, SameSlice
    <3> QED BY <1>5, <3>2
  <2>6. /\ G[turn].shown = ShownAt(frames[1], G[turn].account, DateOf(turn))
        /\ <<G[turn].memory, G[turn].shown>> \in DOMAIN answers
        /\ answers[<<G[turn].memory, G[turn].shown>>] = G[turn].result
    BY <2>1, <2>2, Zenon DEF Traced
  <2>7. entry.shown = G[turn].shown
    BY <2>3, <2>5, <2>6
  <2>8. entry.result = G[turn].result
    BY <1>5, <2>3, <2>6, <2>7
  <2> QED BY <1>5, <2>3, <2>7, <2>8 DEF Same
<1>11. Alike(G, K, m, turn, frames[1], frames[2])
  <2> SUFFICES ASSUME NEW k \in 1 .. m, k <= turn, Agree(frames[1], frames[2], k)
               PROVE  Same(G[k], K[k])
    BY DEF Alike
  <2>1. CASE k = turn
    BY <1>5, <1>10, <2>1
  <2>2. CASE k # turn
    <3>1. k \in 1 .. turn - 1 /\ k <= turn - 1
      BY <1>2, <2>2
    <3> QED BY <1>4, <1>5, <3>1, Zenon DEF Alike
  <2> QED BY <2>1, <2>2
<1>12. RunInv(G, K)'
  <2> HIDE DEF m
  <2>1. CASE turn + 1 = Dates(2)
    <3>1. runNo' = 3
      BY <1>5, <2>1
    <3> QED BY <1>5, <1>6, <1>8, <1>9, <1>11, <3>1 DEF RunInv
  <2>2. CASE turn + 1 # Dates(2)
    <3>1. runNo' = 2 /\ turn' - 1 = turn
      BY <1>2, <1>5, <2>2
    <3> QED BY <1>5, <1>6, <1>8, <1>9, <1>11, <2>2, <3>1 DEF RunInv
  <2> QED BY <2>1, <2>2
<1>13. frames \in Frames \X Frames /\ Dates(1) >= 2 /\ Dates(2) >= 2
  BY DEF BacktestInv
<1>14. /\ runNo' \in 1 .. 3 /\ turn' \in Nat
       /\ runNo' = 1 => turn' \in 1 .. Dates(1) - 1
       /\ runNo' = 2 => turn' \in 1 .. Dates(2) - 1
  BY <1>2, <1>5, <1>13
<1> QED BY <1>6, <1>7, <1>12, <1>13, <1>14 DEF BacktestInv

LEMMA BacktestStarts == BacktestInit => BacktestInv
<1> SUFFICES ASSUME BacktestInit PROVE BacktestInv
  OBVIOUS
<1>1. /\ frames \in Frames \X Frames /\ runNo = 1 /\ turn = 1
      /\ account = Fresh /\ singletons = << >>
      /\ diary = [r \in 1 .. 2 |-> [t \in {} |-> << >>]]
  BY DEF BacktestInit
<1>2. /\ Len(RebalanceDates(Len(frames[1]))) >= 2 /\ Len(RebalanceDates(Len(frames[2]))) >= 2
      /\ 1 \in 1 .. 2 /\ 2 \in 1 .. 2
  BY DEF BacktestInit
<1>3. Dates(1) \in Nat /\ Dates(1) >= 2 /\ Dates(2) >= 2
  <2>1. frames[1] \in Frames
    BY <1>1
  <2>2. Len(frames[1]) \in Nat \ {0}
    BY <2>1, FramesAreSequences
  <2> QED BY <1>2, <2>2, DatesAreFixed DEF Dates
<1>4. Decided(1) = 0 /\ Decided(2) = 0
  BY <1>1 DEF Decided
<1>5. \A H, f, found : found = [t \in {} |-> << >>]
                         => Traced(H, 0, f, isResearch, answers, found)
  <2> SUFFICES ASSUME NEW H, NEW f, NEW found, found = [t \in {} |-> << >>]
               PROVE  Traced(H, 0, f, isResearch, answers, found)
    OBVIOUS
  <2>1. 1 .. 0 = {} /\ 1 .. 0 - 1 = {} /\ ~(0 >= 1)
    OBVIOUS
  <2>2. DOMAIN found = {}
    OBVIOUS
  <2> QED BY <2>1, <2>2 DEF Traced
<1>6. diary[1] = [t \in {} |-> << >>] /\ diary[2] = [t \in {} |-> << >>] /\ DOMAIN diary = 1 .. 2
  BY <1>1, <1>2
<1>7. RunInv(<< >>, << >>)
  <2>1. Alike(<< >>, << >>, 0, 0, frames[1], frames[2])
    BY DEF Alike
  <2>2. Arrived(<< >>, turn - 1, frames[1], isResearch, account, singletons)
    BY <1>1 DEF Arrived
  <2> QED BY <1>1, <1>4, <1>5, <1>6, <2>1, <2>2 DEF RunInv
<1>8. turn \in 1 .. Dates(1) - 1
  BY <1>1, <1>3
<1> QED BY <1>1, <1>3, <1>6, <1>7, <1>8 DEF BacktestInv

LEMMA BacktestSteps == BacktestInv /\ [Rebalance]_backtest => BacktestInv'
<1> SUFFICES ASSUME BacktestInv, [Rebalance]_backtest PROVE BacktestInv'
  OBVIOUS
<1>1. CASE UNCHANGED backtest
  <2>1. UNCHANGED <<frames, isResearch, answers, singletons, runNo, turn, account, diary>>
    BY <1>1 DEF backtest
  <2>2. \A r \in 1 .. 2 : Dates(r)' = Dates(r) /\ Decided(r)' = Decided(r)
    BY <2>1 DEF Dates, Decided
  <2>3. PICK G, H : RunInv(G, H)
    BY DEF BacktestInv
  <2>4. RunInv(G, H)'
    BY <2>1, <2>2, <2>3 DEF RunInv
  <2> QED BY <2>1, <2>2, <2>4 DEF BacktestInv
<1>2. CASE Rebalance
  <2>1. runNo = 1 \/ runNo = 2
    <3>1. runNo <= 2
      BY <1>2, Zenon DEF Rebalance
    <3>2. runNo \in 1 .. 3
      BY DEF BacktestInv
    <3> QED BY <3>1, <3>2
  <2> QED BY <1>2, <2>1, FirstRunSteps, SecondRunSteps
<1> QED BY <1>1, <1>2

\* A date of both runs is the same turn of both.
LEMMA AlikeDecides ==
  ASSUME BacktestInv PROVE DecisionsIgnoreTheFuture
<1>1. PICK G, H : RunInv(G, H)
  BY DEF BacktestInv
<1> DEFINE m == Decided(1)
           n == Decided(2)
<1>2. m \in Int /\ n \in Int
  BY TheDates DEF Decided, BacktestInv
<1>3. /\ Traced(G, m, frames[1], isResearch, answers, diary[1])
      /\ Traced(H, n, frames[2], isResearch, answers, diary[2])
      /\ Alike(G, H, m, n, frames[1], frames[2])
  BY <1>1 DEF RunInv
<1> HIDE DEF m, n
<1> SUFFICES ASSUME NEW t \in DOMAIN diary[1] \cap DOMAIN diary[2],
                    \A b \in 1 .. t + 1 : frames[1][b] = frames[2][b]
             PROVE  diary[1][t] = diary[2][t]
  BY DEF DecisionsIgnoreTheFuture
<1>4. PICK j \in 1 .. m : t = DateOf(j)
  BY <1>3, Zenon DEF Traced
<1>5. PICK k \in 1 .. n : t = DateOf(k)
  BY <1>3, Zenon DEF Traced
<1>6. j = k
  <2>1. j \in Nat /\ k \in Nat
    BY <1>2
  <2>2. DateOf(j) \in Int /\ (j < k => DateOf(j) < DateOf(k)) /\ (k < j => DateOf(k) < DateOf(j))
    BY <2>1, DatesAscend
  <2> QED BY <1>4, <1>5, <2>1, <2>2
<1>7. Agree(frames[1], frames[2], j) /\ j <= n
  BY <1>2, <1>4, <1>5, <1>6 DEF Agree
<1>8. Same(G[j], H[j])
  BY <1>3, <1>7 DEF Alike
<1>9. /\ diary[1][t] = [equity |-> G[j].account.equity,
                        book   |-> Mean(G[j].account, isResearch, G[j].result)]
      /\ diary[2][t] = [equity |-> H[j].account.equity,
                        book   |-> Mean(H[j].account, isResearch, H[j].result)]
  BY <1>3, <1>4, <1>5, <1>6, Zenon DEF Traced
<1> QED BY <1>8, <1>9 DEF Same

\* No decision of a backtest depends on a price after it, on where the frame ends or on the run
\* before it (Backtester.run, "data strictly <= t", "two runs on the same inputs are bit-identical"):
\* for frames of any length, any period and warm-up, any prices and any deterministic engine.
THEOREM DecisionsNeverSeeTheFuture == BacktestSpec => []DecisionsIgnoreTheFuture
<1>1. BacktestInv => DecisionsIgnoreTheFuture
  BY AlikeDecides
<1> QED
  BY <1>1, BacktestStarts, BacktestSteps, PTL DEF BacktestSpec
==============================================================================
