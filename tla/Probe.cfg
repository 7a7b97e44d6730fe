\* RTTs below and above the floor, and above the configured timeout.
SPECIFICATION FairSpec
CONSTANTS
    Rtts = {1, 5, 9}
    NoAnswer = NoAnswer
    Configured = 7
    Floor = 2
    Multiplier = 4
    BurstN = 3
    MaxN = 4
    Decays = {1, 3}
    Den = 4
    Unit = 2
    Slack = 2
INVARIANTS EvidenceIsARate RepliesAreThisBursts BurstIsBounded
PROPERTIES Relearns
