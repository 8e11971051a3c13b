SPECIFICATION FairSpec
CONSTANTS
    Sub = {s1}
    Wants <- MCWants
    Forwarder = {syslog}
    MaxEvent = 2
    QueueMax = 1
    JournalKeep = 0
    DlqKeep = 0
    Capacity = 1
    MaxReplays = 1
    MaxFaults = 1
INVARIANT QueuesSound
PROPERTY DeadLettersKept
CHECK_DEADLOCK FALSE
PROPERTY TakenIsSettled
