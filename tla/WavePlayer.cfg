SPECIFICATION FairSpec
CONSTANTS
    Files <- McFiles
    MaxFaults = 1
INVARIANTS TypeOK RunsOnlyWhilePlaying HeardInOrder PositionIsTrue
PROPERTY TrackEnds
