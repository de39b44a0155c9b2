SPECIFICATION ProcessFairSpec
CONSTANTS
    Workers = {w1, dog}
    Watchdog = dog
    Streams = {e1}
    QueueSize = 1
    GracefulTimeout = FALSE
    MaxCrashes = 0
    MaxEvents = 1
    MaxSwitches = 0
PROPERTIES
    ShutdownEnds
CHECK_DEADLOCK FALSE
