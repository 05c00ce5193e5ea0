SPECIFICATION Spec
CONSTANTS
    a = a
    b = b
    Tickers <- MCTickers
    Deadband = 1
    Markets <- MCMarkets
    Quotes = {1}
    Targets <- MCTargets
    HedgeChoices <- MCHedges
    GainerSets <- MCGainers
    FactorTickers <- MCFactor
    InitialPositions <- MCInitial
    MaxRetries = 3
CHECK_DEADLOCK FALSE
PROPERTY Reconciles
