\* Two peers, a heap of five nodes, six messages.
CONSTANTS
    Peers = {p1, p2}
    Texts = {t1, t2}
    Nodes = {n1, n2, n3, n4, n5}
    NULL = NULL
    MaxArrivals = 6
SYMMETRY HeapSymmetry
SPECIFICATION MCSpec
INVARIANTS TypeOK NoDangling MessagesNotLeaked BackLinks
PROPERTY ImplementsStore
\* The daemon clears its messages when it ends.
CHECK_DEADLOCK FALSE
