SPECIFICATION ProcessSpec
CONSTANTS
    Signals <- MCSignals
    Arrivals = {1}
    Ours = 1
    HANDSHAKE_TIMEOUT = 4
    SHUTDOWN_TIMEOUT = 2
    LOGIN_TIMEOUT = 3
    LoginReads = 3
    MaxSignals = 1
    MaxCallTime = 1
    MaxCallsPerTick = 2
INVARIANTS
    ListenerReleased
    DeadlinesHold
    ReleasedOnce
PROPERTIES
    SignalStops
    NeverHangs
CHECK_DEADLOCK FALSE
