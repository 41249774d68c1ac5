SPECIFICATION FairSpec
CONSTANTS
    reddit = reddit
    hackernews = hackernews
    billing = billing
    hiring = hiring
    quoting = quoting
    payroll = payroll
    Sources = {reddit, hackernews}
    FreeSources = {reddit}
    Topics = {billing, hiring, quoting, payroll}
    AntiPortfolio = {quoting}
    MinPosts = 4
    MinSources = 2
    MinClusters = 2
    ShortlistMax = 2
    MaxFaults = 2
INVARIANT
    PortfolioIsEvidenced
    PortfolioMeetsTheBars
PROPERTY
    EveryDiscoveryEnds
CHECK_DEADLOCK FALSE
