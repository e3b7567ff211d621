CONSTANTS
    p1 = p1
    p2 = p2
    p3 = p3
    Components = {"auth", "signaling", "bridge", "trace", "leases", "catalog", "wait", "settings"}
    Callers = {p1, p2}
    MaxLogins = 1
    Grants = {{}, {"xhome"}}
    MaxOffers = 3
    Polls = {p3}
    Addresses = {"near", "far"}
    Exchanges = {p1, p2}
    Closers = {p1, p2}
    MaxEpoch = 2
    QueueMax = 3
    FileMax = 2
    MaxRows = 4
    MaxConfigs = 3
    Handles = {p1, p2}
    Owners = {"cloud", "home"}
    MaxTime = 3
    MaxLifetime = 3
    Skew = 1
    Calls = {p1, p2}
    Accounts = {"x", "y"}
    MaxClock = 1
    FreshTtl = 0
    RenderTtl = 1
    BaseTtl = 1
    ReadyTimeout = 4
    StartupTimeout = 2
    Backoff = 1
    WakeSpacing = 1
    WakeCircuit = 3
    Grace = 1
    RegistrationTimeout = 2
    QueueTimeout = 2
    Invalid = Invalid
    Strings <- AllStrings
    Patches <- SettingsPatches
    RegionLists <- TokenRegions
    TitleConfigs <- Titles
    ConsoleFacts <- Consoles
    FallbackServer <- PublishedServer
    MaxEdits = 2
SPECIFICATION ServicesSpec
SYMMETRY Symmetry
CHECK_DEADLOCK FALSE
INVARIANTS
    TypesOK
    LogoutSticks
    UsableHasSession
    ClosedMeansStopped
    CandidatesOfCurrentOffer
    TokensWithCurrentLease
    FlightsAnswered
    QueueTimeSpared
    PlansAgree
PROPERTIES
    BusyHasCause
    EveryRowAccounted
    StaleRefused
    RowsOfTheirConfiguration
    CreatesJustified
