SPECIFICATION Spec
CONSTANTS
    nvda = nvda
    avgo = avgo
    mu = mu
    tsla = tsla
    Equities <- MCEquities
    ByBeta <- MCByBeta
    AiSector <- MCAiSector
    Convictions <- MCConvictions
    Sessions <- MCSessions
    VaresSizes = {33}
    Gaps = {1, 3}
    DecayDays <- MCDecayDays
    EntryDte = 8
    RollDte = 4
    CryptoDays = 2
    CallDays = 2
    ReserveFund = TRUE
    Days = 4
CHECK_DEADLOCK FALSE
INVARIANT CutsAreExecuted
