\* Three relays that share two descriptors.
CONSTANTS
    Relays = {r1, r2, r3}
    MaxFd = 2
SPECIFICATION FairSpec
PROPERTY Leaves
