SPECIFICATION FairSpec
CONSTANTS
    a = a  b = b  None = None
    Helpers = {a, b}
    CommandsA = 2  CommandsB = 1
    MaxCommands <- MCCommands
    MaxPack = 2
INVARIANTS
    InStep
    ToldTruth
PROPERTY CommandsEnd
