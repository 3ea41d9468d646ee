SPECIFICATION Spec
CONSTANTS
    Top = Top
    Osd = Osd
    Log = Log
    k = k
    l = l
    v = v
    w = w
    h = h
    Missing = Missing
    k1 = k1
    k2 = k2
    Global <- Top
    Value <- Values
    Width <- Widths
    Cut <- Cuts
    Empty = empty
    NoteValue = note
    KeyWidth = 1
    SectionMaxLines = 4
    KeyMaxLines = 3
    MaxLine = 10
    Section <- Sections
    Key <- Keys
    Cases <- SectionAndKeyCases
    RbspMax = 1024
    LineSize = 20
    SpsCases <- AnySps
    Matrices = {0, 5}
    SeiCases <- Seis
    JpegCases <- Jpegs
    CaptureTimes = {1, 2}
    Signers <- Signing
    MaxSignatures = 2
    AscCases <- Ascs
    Base64Cases <- ByteStrings
    ShadowCases <- ShadowFiles
    Hashes <- Good
    User <- Root
INVARIANTS
    SpsEdits
    SeiReadsBack
    JpegVerified
    AscReadsBack
    Base64Inverts
    ShadowFirstLine
    EditHolds
PROPERTIES
    JpegEdits
CHECK_DEADLOCK FALSE
