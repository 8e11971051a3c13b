SPECIFICATION BackupFairSpec
CONSTANTS
    Poller = poller
    Other = other
    Keep = 2
    MaxBundle = 3
    MaxChanges = 2
    MaxFailures = 1
INVARIANT StoresSound
PROPERTY ScheduleKept
CHECK_DEADLOCK FALSE
