CONSTANTS
    ReadyTimeout = 4
    StartupTimeout = 2
    Backoff = 1
    WakeSpacing = 1
    WakeCircuit = 3
    Grace = 1
    RegistrationTimeout = 2
    QueueTimeout = 2
SPECIFICATION WaitSpec
CHECK_DEADLOCK FALSE
PROPERTY ClosedIsTransient
