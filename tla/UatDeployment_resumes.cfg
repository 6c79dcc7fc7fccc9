SPECIFICATION FairSpec
CHECK_DEADLOCK FALSE
CONSTANTS
    Profiles = {"standard", "hackathon"}
    MaxFaults = 2
    StandardFaults = 1
    MaxPauses = 1

INVARIANT ManifestIsCoherent
INVARIANT EntryIsProven
PROPERTY CeremonyCompletes
