SPECIFICATION FairSpec
CONSTANTS
    Tickers <- MCTickers
    Tags <- MCTags
    TagsOf <- MCTagsOf
    Cap <- MCCap
    TrimRank <- MCTrimRank
    TagRank <- MCTagRank
    Share <- MCShare
    VixLevels <- MCVixLevels
    Plans <- MCPlans
    Books <- MCBooks
INVARIANTS OnlyReduces ClearedStaysWithin
PROPERTIES OverCapNeverGrows Rebalances
