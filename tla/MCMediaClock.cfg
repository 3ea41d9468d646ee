SPECIFICATION FairSpec
CONSTANTS
    Buckets = 3
    BucketUs = 2
    EwmaDiv = 2
    GainDiv = 2
    SlewMax = 2
    Sample <- Delays
    Tick <- Ticks
    Unset = Unset
PROPERTIES
    WindowSpec
    JitterMovesNothing
    SettlesNearby
