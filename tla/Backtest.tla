------------------------------ MODULE Backtest ------------------------------
(***************************************************************************)
(* backtesting/harness.py: two runs of the Backtester in one process, each *)
(* on a price frame of its own, one symbol.  The engine is ANY function    *)
(* of what a cycle is given and of what its singletons remember: what it   *)
(* answers to a view is chosen when the view first occurs and kept.        *)
(***************************************************************************)
EXTENDS Integers, Sequences, FiniteSets

CONSTANTS PeriodBars,    \* bars of a rebalance period
          Warmup,        \* the first position that may rebalance
          Lengths,       \* bars of a price frame
          Prices,
          Results,       \* what a cycle may end with: [blocked, target, achieved]
          Capital,       \* the equity a run starts with, 1.0 in the code
          CostPct, FinancingPct, MaxGross
ASSUME BacktestAssumption ==
    /\ PeriodBars \in Nat \ {0} /\ Warmup \in Nat /\ Lengths \subseteq Nat \ {0}
    /\ Prices \subseteq Nat \ {0} /\ Capital \in Nat \ {0}
    /\ CostPct \in Nat /\ FinancingPct \in Nat /\ MaxGross \in Nat

NoFills == -1            \* achieved_weights is None

Frames == UNION {[1 .. n -> Prices] : n \in Lengths}

VARIABLES frames,       \* the prices of each run
          isResearch,   \* whether the mode is RESEARCH, which plans no orders
          answers,      \* the engine: its results by <<singletons, view>>
          singletons,   \* the views the engine has been shown since a reset
          runNo,        \* 1 or 2, 3 when both are done
          turn,         \* which rebalance of the run is due
          account,      \* [book, equity, peak]
          diary         \* per run, by position: the equity found and the book decided

backtest == <<frames, isResearch, answers, singletons, runNo, turn, account, diary>>

Abs(x) == IF x < 0 THEN -x ELSE x
Higher(x, y) == IF x > y THEN x ELSE y

\* _rebalance_dates: the last position of each period, without the periods
\* that end before the warm-up does.
RebalanceDates(n) ==
    LET ends  == [p \in 1 .. (n - 1) \div PeriodBars + 1 |->
                    IF p * PeriodBars <= n THEN p * PeriodBars - 1 ELSE n - 1]
        early == {p \in DOMAIN ends : ends[p] < Warmup}
    IN  SubSeq(ends, Cardinality(early) + 1, Len(ends))

Fresh == [book |-> 0, equity |-> Capital, peak |-> Capital]

BacktestInit ==
    /\ frames \in Frames \X Frames
    /\ \A r \in 1 .. 2 : Len(RebalanceDates(Len(frames[r]))) >= 2    \* else ValueError
    /\ isResearch \in BOOLEAN
    /\ answers = [v \in {} |-> << >>] /\ singletons = << >>
    /\ runNo = 1 /\ turn = 1 /\ account = Fresh
    /\ diary = [r \in 1 .. 2 |-> [t \in {} |-> << >>]]

\* A bug: the bar at which the period ends is in the slice.
SeenToNext(prices, dates) == SubSeq(prices, 1, dates[turn + 1] + 1)

\* prices.loc[:t_now].
Seen(prices, dates) == SubSeq(prices, 1, dates[turn] + 1)

\* What a cycle is given (_build_inputs), the drawdown in percent.
View(prices, dates) ==
    [seen |-> Seen(prices, dates), book |-> account.book,
     drawdown |-> Higher(0, ((account.peak - account.equity) * 100) \div account.peak)]

\* The carried book if blocked, else what was achieved, or the target when the
\* mode plans no orders or nothing was recorded.
NewBook(result) ==
    IF result.blocked THEN account.book
    ELSE IF result.achieved # NoFills /\ ~isResearch THEN result.achieved
    ELSE result.target

\* The net return of a period, in percent: what the new book earns until the
\* next date, less turnover cost and the financing of a levered book.
NetReturn(book, from, to) ==
    (book * (to - from) * 100) \div from
    - Abs(book - account.book) * CostPct
    - IF MaxGross > 1 THEN Higher(book - 1, 0) * FinancingPct ELSE 0

\* A bug: what the run before taught the engine stays.
KeptMemory == singletons

\* _reset_engine_state, at the start of a run.
ResetMemory == << >>

\* One turn of the loop over (t_now, t_next); after the last one the next run
\* starts, with a new account and with the singletons reset.
Rebalance ==
    /\ runNo <= 2
    /\ LET prices == frames[runNo]
           dates  == RebalanceDates(Len(prices))
           shown  == View(prices, dates)
           view   == <<singletons, shown>>
           last   == turn + 1 = Len(dates)
       IN  \E result \in IF view \in DOMAIN answers THEN {answers[view]} ELSE Results :
             LET book   == NewBook(result)
                 equity == account.equity + (account.equity
                             * NetReturn(book, prices[dates[turn] + 1], prices[dates[turn + 1] + 1]))
                             \div 100
             IN  /\ answers' = [v \in DOMAIN answers \union {view} |->
                                  IF v = view THEN result ELSE answers[v]]
                 /\ diary' = [diary EXCEPT ![runNo] =
                                [t \in DOMAIN @ \union {dates[turn]} |->
                                   IF t = dates[turn] THEN [equity |-> account.equity, book |-> book]
                                   ELSE @[t]]]
                 /\ account' = IF last THEN Fresh
                               ELSE [book |-> book, equity |-> equity,
                                     peak |-> Higher(account.peak, equity)]
                 /\ singletons' = IF last THEN ResetMemory ELSE Append(singletons, shown)
                 /\ runNo' = IF last THEN runNo + 1 ELSE runNo
                 /\ turn' = IF last THEN 1 ELSE turn + 1
    /\ UNCHANGED <<frames, isResearch>>

BacktestSpec == BacktestInit /\ [][Rebalance]_backtest

-----------------------------------------------------------------------------
(* Two runs whose prices agree up to a rebalance date find the same equity *)
(* and decide the same book there: no decision depends on a later price,   *)
(* on where the frame ends or on the run before ("data strictly <= t",     *)
(* "two runs on the same inputs are bit-identical", Backtester.run).       *)
DecisionsIgnoreTheFuture ==
    \A t \in DOMAIN diary[1] \cap DOMAIN diary[2] :
        (\A b \in 1 .. t + 1 : frames[1][b] = frames[2][b]) => diary[1][t] = diary[2][t]
=============================================================================
