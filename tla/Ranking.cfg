\* Three neighbors, one of them over two legs.
SPECIFICATION RankingSpec
CONSTANTS
    Legs <- LegSet
    NeighborOf <- LegNeighbor
    NextHopOf <- LegNextHop
    LossDen = 4
    Lost = 1000000
    ProbeResults <- Bursts
    Transits <- Windows
    Top = 300
    Mid = 200
    Default = 100
INVARIANTS TiersMonotone OnlyTrafficPromotes TopIsCheapest KeepsTierContract ErrorBandsDoNotMatter
