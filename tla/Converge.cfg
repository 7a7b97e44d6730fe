\* Every failure the loop meets, until the inputs settle.
SPECIFICATION FairSpec
CONSTANTS
    Neighbors = {n1, n2}
    Prefixes = {p1}
    Top = 300
    Mid = 200
    Default = 100
    MinDwell = 2
    Faults = {"set", "remove", "normalize", "daemon", "frr"}
    Pass = Pass
    Unbound = Unbound
    Idle = Idle
    Boot = Boot
    None = None
PROPERTIES Converges AbandonedForGood
