\* Two threads that dial at once.
CONSTANTS
    Dials = {d1, d2}
    MaxFd = 2
    Bytes = {0, 1, 2, 3, 4, 5, 255}
SPECIFICATION FairSpec
INVARIANTS TypeOK OnlyAfterSuccess OwnSocket KilledByMethodOnly
PROPERTIES Returns ImplementsRelay
\* Every thread may be done, or the process killed.
CHECK_DEADLOCK FALSE
