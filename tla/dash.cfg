\* The dash: commands, lap counter, messages, layouts, screens, settings, readouts.
SPECIFICATION Spec
CONSTANTS
    Scenes = {"commands", "card", "roles", "cuts", "cards", "resume", "repair", "messages", "newlib", "designer",
              "screens", "race", "demo", "settings", "readouts", "pills", "faults"}
    None = None
    Asked = Asked
    CmdPages = {"a", "b"}
    CmdPowers = {1, 2}
    CmdStale = 2
    CmdPresses = 3
    CutLaps = 3
    CutCuts = 2
    CutDrops = 1
    CardLaps = 4
    CardDrops = 2
    ResumeLaps = 3
    ResumeReloads = 2
    ResumeDrops = 1
    RepairLaps = 2
    RepairCuts = 1
    RepairReloads = 1
    RepairDrops = 0
    RaceOverrides = {"shutdown", "bogus"}
    RaceDurations = {0, 9}
    RaceLaps = 2
    RaceMoves = 4
    DemoOverrides = {"park"}
    DemoDurations = {9}
    DemoLaps = 1
    DemoMoves = 3
INVARIANTS
    CarAgrees
    LibrariesSafe
    DrawnTrue
PROPERTIES
    ScreenSound
    DashCatchesUp
CHECK_DEADLOCK FALSE
