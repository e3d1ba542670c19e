SPECIFICATION LiveSpec
CONSTANTS
    Environments <- mcAll
INVARIANTS HistoryKept AckedIsSynced
PROPERTIES DurableInTheEnd
