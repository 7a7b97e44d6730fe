\* Two peers sharing prefix-lists; an update longer than the slots FRR can number.
SPECIFICATION Spec
CONSTANTS
    Neighbors = {n1, n2}
    Prefixes = {p1, p2}
    Tiers = {t100}
    LegacyMaps = {old}
    MinSlots = 1
    LastSlot = 1
    MaxPrefs = 2
    NoMatch = NoMatch
    NoSet = NoSet
    Absent = Absent
    NoOne = NoOne
    Never = Never
    Pass = Pass
    Unbound = Unbound
    Idle = Idle
    Boot = Boot
INVARIANTS NoDanglingList
PROPERTIES ImplementsTierStore
SYMMETRY Symmetry
