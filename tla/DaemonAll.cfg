\* Requests whose frames may be cut, on two connections; resets, no SIGINT.
CONSTANTS
    p1 = p1
    p2 = p2
    t1 = t1
    t2 = t2
    Peers = {p1, p2}
    Texts = {t1, t2}
    Conns = {c1, c2}
    Requests <- CutRequests
    Segmentations <- Cuts
    Ends <- ClosesOrResets
    Interrupts = FALSE
    FirstFd = 5
    MaxFd = 7
SYMMETRY ConnSymmetry
SPECIFICATION Spec
INVARIANT TypeOK
INVARIANT ServedOnce
INVARIANT NoLostWakeup
PROPERTY StaleByBodyOnly
PROPERTY SparesUnread
\* The daemon may stop: EXIT, SIGINT or a failed assertion ends it.
CHECK_DEADLOCK FALSE
