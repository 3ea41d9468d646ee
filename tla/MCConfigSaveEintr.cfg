SPECIFICATION Spec
CONSTANTS
    d1 = d1
    d2 = d2
    n1 = n1
    n2 = n2
    n3 = n3
    Top = Top
    Osd = Osd
    k = k
    v = v
    Missing = Missing
    None = None
    NoFile = NoFile
    Daemon <- TwoDaemons
    Inode <- Inodes
    Section <- Sections
    Global <- Top
    Key <- OneKey
    Value <- OneValue
    Faults <- EintrFault
SYMMETRY Symmetry
PROPERTIES
    NoLostUpdate
