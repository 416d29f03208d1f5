\* Crashes of the process and of the machine.
SPECIFICATION FairSpec
CHECK_DEADLOCK FALSE
CONSTANTS
    BlockSize = 5
    HeaderSize = 2
    Sizes = {2, 4}
    WriteBuffer = 1
    Budgets <- UsualBudgets
INVARIANTS
    PromisedIsOnDisk
    PromisedIsRead
    SequencesAreNew
    LogsReadBack
PROPERTIES
    OpensInTheEnd
