\* Three connections that store two messages or read them.
CONSTANTS
    p1 = p1
    p2 = p2
    t1 = t1
    t2 = t2
    Peers = {p1, p2}
    Texts = {t1, t2}
    Conns = {c1, c2, c3}
    Requests <- StoreTwoAndRead
    Segmentations <- Whole
    Ends <- Closes
    Interrupts = TRUE
    FirstFd = 5
    MaxFd = 7
SYMMETRY ConnTextSymmetry
SPECIFICATION Spec
INVARIANT HandedOutOnce
INVARIANT NoLostWakeup
PROPERTY KeepsMail
\* The daemon may stop: EXIT, SIGINT or a failed assertion ends it.
CHECK_DEADLOCK FALSE
