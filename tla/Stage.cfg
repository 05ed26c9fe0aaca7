SPECIFICATION Spec
CONSTANTS
    api = api
    docs = docs
    Names <- MCNames
    NameOrder <- MCOrder
    Scratch = Scratch
    Shell = Shell
    None = None
    MaxColumns = 2
    MaxStored = 3
    MaxViews = 4
    MaxCommands = 3
    MaxReloads = 1
INVARIANTS ViewsKnowTheirPlace KeysStayInPlace StoreFollows
PROPERTY RestoreBringsBack
CHECK_DEADLOCK FALSE
