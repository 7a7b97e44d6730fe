\* One peer, its map rewritten for up to two prefixes with growing and shrinking slots.
SPECIFICATION Spec
CONSTANTS
    Neighbors = {n1}
    Prefixes = {p1, p2}
    Tiers = {t100, t300}
    LegacyMaps = {old}
    MinSlots = 1
    LastSlot = 2
    MaxPrefs = 2
    NoMatch = NoMatch
    NoSet = NoSet
    Absent = Absent
    NoOne = NoOne
    Never = Never
    Pass = Pass
    Unbound = Unbound
    Idle = Idle
    Boot = Boot
INVARIANTS TypeOK NeverDenies AppliedExactly
PROPERTIES NoDeletionWhileBound
