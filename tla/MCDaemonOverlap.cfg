SPECIFICATION Spec
CONSTANTS
    a = a
    b = b
    c = c
    n1 = n1
    n2 = n2
    n3 = n3
    n4 = n4
    None = None
    Process <- TwoProcesses
    Inode <- FewInodes
    Overlapping = TRUE
INVARIANTS
    OneInstance
