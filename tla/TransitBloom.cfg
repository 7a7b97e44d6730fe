\* Four packets on two CPUs, over three generations of the filter.
SPECIFICATION Spec
CONSTANTS
    k1 = k1
    k2 = k2
    b1 = b1
    b2 = b2
    b3 = b3
    w1 = w1
    w2 = w2
    Cpus = {c1, c2}
    Keys = {k1, k2}
    NoKey = NoKey
    Bits = {b1, b2, b3}
    Words = {w1, w2}
    Hash <- TwoHashes
    WordOf <- SharedWord
    Paths = {p1, p2}
    MapSize = 1
    Epoch = 1
    MaxTime = 4
    MaxPackets = 4
INVARIANTS TypeOK RetransmitsAreSeen
PROPERTIES OldBitsAreForgotten
SYMMETRY Symmetry
