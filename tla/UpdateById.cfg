\* A client whose UPDATE has an id that is not its msg.
CONSTANTS
    p1 = p1
    p2 = p2
    t1 = t1
    t2 = t2
    Peers = {p1, p2}
    Texts = {t1, t2}
    Conns = {c1, c2}
    Requests <- UpdatesById
    Segmentations <- Whole
    Ends <- Closes
    Interrupts = TRUE
    FirstFd = 5
    MaxFd = 7
SPECIFICATION Spec
INVARIANT AnswersId
\* The daemon may stop: EXIT, SIGINT or a failed assertion ends it.
CHECK_DEADLOCK FALSE
