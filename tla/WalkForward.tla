----------------------------- MODULE WalkForward ----------------------------
(***************************************************************************)
(* PurgedWalkForwardSplitter (research/validation.py): the loop of split   *)
(* over the positions of a history, every parameter of the splitter.       *)
(***************************************************************************)
EXTENDS Integers, Sequences, FiniteSets

CONSTANTS MaxBars,      \* bound: the longest history
          MaxSize       \* bound: the largest window, embargo and horizon
ASSUME WalkForwardAssumption == MaxBars \in Nat /\ MaxSize \in Nat \ {0}

\* What __init__ accepts.
Splitters == [train : 1 .. MaxSize, valid : 1 .. MaxSize, test : 1 .. MaxSize,
              embargo : 0 .. MaxSize, horizon : 1 .. MaxSize]

VARIABLES bars,       \* the number of observations
          splitter,   \* the splitter's parameters
          start,      \* where the next window starts
          splits      \* the folds so far: [train, valid, test], sets of positions

study == <<bars, splitter, start, splits>>

StudyInit ==
    /\ bars \in 0 .. MaxBars /\ splitter \in Splitters
    /\ start = 0 /\ splits = << >>

\* A bug: a label that ends on the first evaluation bar survives.
PurgeLate(idx, evalStart) == {i \in idx : i + splitter.horizon <= evalStart}

\* _purge: no label reaches the evaluation window.
Purge(idx, evalStart) == {i \in idx : i + splitter.horizon < evalStart}

\* _embargo: nor is one of the last embargo_size bars used.
Embargo(idx, trainEnd) == {i \in idx : i < trainEnd - splitter.embargo}

Fold(from) ==
    LET trainEnd == from + splitter.train
        validEnd == trainEnd + splitter.valid
    IN  [train |-> Embargo(Purge(from .. trainEnd - 1, trainEnd), trainEnd),
         valid |-> trainEnd .. validEnd - 1,
         test  |-> validEnd .. validEnd + splitter.test - 1]

\* One window; a fold that is left without training observations is skipped.
SplitNext ==
    /\ start + splitter.train + splitter.valid + splitter.test <= bars
    /\ start' = start + splitter.test
    /\ splits' = IF Fold(start).train = {} THEN splits ELSE Append(splits, Fold(start))
    /\ UNCHANGED <<bars, splitter>>

StudySpec == StudyInit /\ [][SplitNext]_study

-----------------------------------------------------------------------------
(* No observation a fold trains on has a label window that touches its     *)
(* validation or test bars, or lies in its embargo; no bar is tested       *)
(* twice, and a fold validates and tests on bars later than it trains on   *)
(* and inside the history (split, _purge, _embargo).                       *)
FoldsNeverLeak ==
    \A f \in DOMAIN splits :
        LET evaluated == splits[f].valid \union splits[f].test
        IN  /\ \A i \in splits[f].train, b \in evaluated :
                  b \notin i .. i + splitter.horizon /\ i + splitter.embargo < b
            /\ evaluated \subseteq 0 .. bars - 1
            /\ \A g \in DOMAIN splits \ {f} : splits[f].test \cap splits[g].test = {}
=============================================================================
