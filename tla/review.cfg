\* Reviewing runs, mapping tracks, replaying days.
SPECIFICATION Spec
CONSTANTS
    Scenes = {"player", "loop", "notes", "runs", "delete", "track", "replay", "lossy"}
    None = None
    LapCount = 2
    LapLength = 4
    LapNear = 1
    LapRates = {1, 2}
    LoopRates = {1}
    FrameGaps = {1}
    LoopGaps = {1, 2}
    PendingFrames = 3
    RunIds = {"a", "b"}
    HastyOpens = 3
    CalmOpens = 4
    RunJobs = 2
    ReplayDays = {1, 2}
    RawDays = {1}
    DaySpan = 4
    LossySpan = 3
    PacketGap = 2
    ReplayMarks = {1, 5}
    ReplayMoves = 8
    LossyMoves = 6
    StreamOverlap = 2
    StreamDrops = 2
INVARIANTS
    RunsTrue
PROPERTIES
    PlayerSound
    NotesKept
    TracksKept
    ReplaySound
    ReviewGoesOn
CHECK_DEADLOCK FALSE
