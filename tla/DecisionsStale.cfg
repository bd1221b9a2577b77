SPECIFICATION CycleSpec
CONSTANTS
    a = a
    b = b
    c = c
    Symbols = {a, b, c}
    Sleeves = {"momentum", "carry"}
    Modes = {"RESEARCH", "PAPER", "LIVE"}
    Books <- MCBooks
    Readings <- MCReadings
    Signals <- MCSignals
    Flows <- MCFlows
    Rows <- MCRows
    Predictions <- MCPredictions
    Costs = {5}
    Vols = {7, 30}
    Risks <- MCRisks
    Drawdowns <- MCDrawdowns
    KillContexts <- MCKillContexts
    PaperTakes = {100, 2000}
    Slippage = 20
    Grid = {0, 500, 4500, 5000, 10000}
    MaxPositionWeight = 5000
    CrisisWeight = 2500
    MinWeight = 1000
    TargetVol = 15
    MaxLeverage = 200
    LeverUpSteps <- MCLeverUpSteps
    CvarLimit = 500
INVARIANTS
    StaleFeaturesNeverTrade
CHECK_DEADLOCK FALSE
