SPECIFICATION FairSpec
CONSTANTS
    a = a
    b = b
    c = c
    n1 = n1
    n2 = n2
    n3 = n3
    n4 = n4
    None = None
    Process <- Processes
    Inode <- Inodes
    Overlapping = FALSE
INVARIANTS
    OneInstance
    CheckAnswers
    NoRequestIsLost
PROPERTIES
    RestartIsNotRefused
    RequestEnds
