SPECIFICATION Spec
CONSTANTS
    Top = Top
    Log = Log
    Own = Own
    level = level
    cpu = cpu
    info = info
    warn = warn
    minus = minus
    zero = zero
    nine = nine
    Missing = Missing
    NoFile = NoFile
    Start = Start
    Root = Root
    Relative = Relative
    Dirs <- Directories
    None = None
    Info = Info
    Trace = Trace
    Global <- Top
    Section <- Sections
    Key <- Keys
    Value <- Values
    LogLevel <- LogItem
    CpuAffinity <- CpuItem
    Levels <- Named
    Cpus <- Numbers
    NCpus = 2
    Inputs <- Settings
    Edits <- Others
    Lines <- Started
    InfoValue <- info
    AnyCpuValue <- minus
INVARIANTS
    SavedOutlivesRestart
    ShowsWhatIsSet
