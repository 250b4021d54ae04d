CONSTANTS
    Callers = {c1, c2}
    Hosts = {h1, h2}
    RealIps = {r1}
    NoBinding = NoBinding
    NoQuery = NoQuery
    Capacity = 2
    MaxShared = 1
    Last = 3
    MaxEpoch = 2
    MaxGeneration = 2
SYMMETRY Symmetry
SPECIFICATION Spec
INVARIANTS AddressesAreSound NoNameFromOlderSession
PROPERTIES OnlyOutdatedViewsForget
