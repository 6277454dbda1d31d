\* The trackside page once disturbances end.
SPECIFICATION Spec
CONSTANTS
    Scenes = {"settle", "heals", "follow", "plan"}
    None = None
    Asked = Asked
    SeatClients = {"a", "b", "c"}
    SeatAdmins = {"c"}
    SeatStarter = "a"
    Seats = 2
    SeatInFlight = 1
    SeatTrouble = 2
    FeedStreams = {"s1", "s2", "s3"}
    FeedCalls = 2
    FeedPresses = 2
    FeedFaults = 2
    FeedOutages = 1
    GateMinLap = 2
    GateMinSector = 0
    GateWindow = 2
    GateFresh = 3
    GateSplits = 1
    GateUntil = 4
    GateLaps = 2
    GateReloads = 1
    EndSessions = 2
    EndLaps = 0
    EndSaves = 0
    EndReloads = 2
    EndLosses = 0
    BackSessions = 1
    BackLaps = 1
    BackSaves = 1
    BackReloads = 1
    BackFlags = 1
    BackLosses = 1
    DayMoves = 5
    DaySessions = 2
    DayPackets = 2
    DayFlags = 1
    LossyMoves = 3
    LossyPackets = 1
    LossyFlags = 2
    DayLosses = 1
    LateCalls = {"end", "create", "flag"}
PROPERTIES
    TracksideSettles
    PlanShared
CHECK_DEADLOCK FALSE
