SPECIFICATION Spec
CONSTANTS
    d1 = d1
    d2 = d2
    Top = Top
    Osd = Osd
    Log = Log
    k = k
    v = v
    w = w
    blank = blank
    note = note
    Missing = Missing
    NoFile = NoFile
    Global <- Top
    Section <- Sections
    Key <- OneKey
    MaxLine <- WideLine
    KeyWidth = 1
    Cut <- NoCuts
    Empty <- blank
    NoteValue <- note
    Daemon <- Daemons
    Value <- TwoValues
    Width <- UnitWidth
    Cameras <- OneOrTwo
    Default <- w
SYMMETRY Symmetry
INVARIANTS
    FlagsAgree
PROPERTIES
    DefaultsAreNotConfiguration
    SaveKeepsOthers
    SharedSpec
CHECK_DEADLOCK FALSE
