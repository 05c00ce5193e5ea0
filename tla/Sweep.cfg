SPECIFICATION FairSpec
CONSTANTS
    a = a
    b = b
    Tickers <- MCTickers
    Deadband = 1
    Markets <- MCMarkets
    Quotes = {0, 3}
    Targets <- MCValues
    HedgeChoices = {"roll"}
    GainerSets <- MCGainers
    FactorTickers <- MCFactor
    InitialPositions <- MCInitial
    MaxRetries = 2
CHECK_DEADLOCK FALSE
INVARIANTS KillSwitch NoBlockedBuys HedgedBeforeRebalanced ReconcilesWhenQuiet OverwriteStopsRebalance
PROPERTIES RetriesJob SweepEnds
