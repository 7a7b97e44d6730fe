\* README.md: "One route-map per neighbor, rewritten atomically each tick".
SPECIFICATION Spec
CONSTANTS
    Neighbors = {n1}
    Prefixes = {p1, p2}
    Tiers = {t100, t300}
    LegacyMaps = {}
    MinSlots = 1
    LastSlot = 2
    MaxPrefs = 2
    NoMatch = NoMatch
    NoSet = NoSet
    Absent = Absent
    NoOne = NoOne
    Never = Never
    Pass = Pass
    Unbound = Unbound
    Idle = Idle
    Boot = Boot
PROPERTIES RewrittenAtomically
