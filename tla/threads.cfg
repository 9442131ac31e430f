SPECIFICATION MCSpec
CONSTANTS
    Threads = {"main", "a", "b"}
    Main = "main"
    Callers = {"a", "b"}
    ParamCount <- MCParamCount
    ParamOffset <- MCParamOffset
    Conformances <- MCConformances
    SlotOf <- MCSlotOf
    Blocks <- MCBlocks
    None = None
    MaxAnswers = 2
    Lists = {"v", "w"}
    Storages = {1, 2, 3}
    Items = {"x", "y"}
    Edits <- MCEdits
    NoValue = NoValue
    Dictionaries = {"c", "d"}
    Keys = {"k", "l", "m"}
    Elements = {"x", "y"}
    Tables = {1, 2, 3}
    MaxEntries = 3
    Hashes = {0, 1, 2, 3, 6}
    Capacities = {2, 3}
    MinCapacities = {0}
    NoEntry = NoEntry
    NoDictionary = NoDictionary
INVARIANTS
    NothingUsedAfterItsEnd
    ReferencesCounted
    OnlyRefusedJoinsTerminate
    SameAnswerToSameQuestion
    
    DictionariesAreMaps
PROPERTIES
    JoinsEnd
    ListsAreValues
CHECK_DEADLOCK FALSE
