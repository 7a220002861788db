SPECIFICATION FairSpec
CONSTANTS
    Loop = Loop
    Others = {r1}
    Sources = {"signin", "quota", "nothing"}
    Gauges = {g1}
    Rows = {h1}
    NoSettings = NoSettings
    MaxOpen = 1
    QueueCap = 1
PROPERTIES TraySettles
