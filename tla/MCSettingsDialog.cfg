SPECIFICATION Spec
CONSTANTS
    Choices <- MCChoices
    Rows = {weekly}
    FlagSeconds = 30
    MaxOpen = 2
INVARIANTS RowsSurvive MemoryIsFile WindowAsConfigured PinStands
