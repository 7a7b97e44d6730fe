\* Failed sets, crashes and lost bindings; removals and the startup normalization succeed.
SPECIFICATION Spec
CONSTANTS
    Neighbors = {n1, n2}
    Prefixes = {p1, p2}
    Top = 300
    Mid = 200
    Default = 100
    MinDwell = 2
    Faults = {"set", "daemon", "frr"}
    Pass = Pass
    Unbound = Unbound
    Idle = Idle
    Boot = Boot
    None = None
INVARIANTS TypeOK TrackedBindings NoTwoTopsFromOneTick BaselineNotDemoted
PROPERTIES HeldStaysBound
SYMMETRY Symmetry
