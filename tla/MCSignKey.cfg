SPECIFICATION FairSpec
CONSTANTS
    a = a
    b = b
    n1 = n1
    n2 = n2
    n3 = n3
    k1 = k1
    k2 = k2
    k3 = k3
    None = None
    Short = Short
    Process <- Processes
    Inode <- Inodes
    Key <- Keys
    Retries = 3
    Faults <- AllFaults
INVARIANTS
    KeysAgree
    ReportedStays
PROPERTIES
    LoadReturns
