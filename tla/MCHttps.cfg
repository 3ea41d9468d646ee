SPECIFICATION FairSpec
CONSTANTS
    c1 = c1
    c2 = c2
    Conn <- Conns
    Size = 3
    Record = 2
    Room = 1
    Timeout <- Timeouts
INVARIANTS
    WritesAreTrue
    NoStaleTimeout
    AuthAnswers
PROPERTIES
    CallsReturn
