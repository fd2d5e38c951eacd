\* Retention loops over the filesystem archive, in the scenes of MCScenes.
SPECIFICATION Spec
CONSTANTS
    Rows = {1, 2, 3}
    Day <- MCDay
    Runners = {1, 2}
    Half = Half
    None = None
    TickInterval = 1
    SKIP_FOR = 2
    STRIKES_BEFORE_SKIP = 3
    MAX_TRACKED_ROWS = 2
    MAX_TICKS_PER_DRAIN = 2
    PurgeAfter = 1
    Scenes <- MCScenes
INVARIANT ArchiveSound
PROPERTIES RefusedLeavesNothing RowsMoveOn
CHECK_DEADLOCK FALSE
