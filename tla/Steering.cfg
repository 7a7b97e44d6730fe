SPECIFICATION FairSpec
CONSTANTS
    Neighbors <- TwoNeighbors
    Rtt <- Rtts
    LossSteps = 3
    MinDwell = 2
    Window = 1
    RefreshEvery = 3
    None = None
    Top = 300
    Mid = 200
    Default = 100
INVARIANTS TypeOK FollowsBGP
  
