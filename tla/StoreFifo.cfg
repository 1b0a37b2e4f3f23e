CONSTANTS
    Peers = {p1, p2, p3}
    Texts = {t1, t2}
    MaxArrivals = 4
SPECIFICATION MCSpec
INVARIANTS TypeOK OneEntryPerPeer ListedIffUnread Fifo
PROPERTY ImplementsMailBox
CHECK_DEADLOCK FALSE
