SPECIFICATION FairSpec
CONSTANTS
    f1 = f1
    f2 = f2
    NoGroup = NoGroup
    Groups = {g1}
    Flows <- MCFlows
    MaxGeneration = 3
    MaxManagers = 3
CHECK_DEADLOCK FALSE
INVARIANTS  NothingLeaks
PROPERTIES OlderSnapshotNeverOverwrites ClientSettles
