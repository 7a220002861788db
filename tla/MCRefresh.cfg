SPECIFICATION Spec
CONSTANTS
    Loop = Loop
    Others = {r1}
    Sources = {"quota", "nothing"}
    Gauges = {g1, g2}
    Rows = {h1, h2}
    NoSettings = NoSettings
    MaxOpen = 2
    QueueCap = 1
SYMMETRY Symmetry
INVARIANTS QuietMeansCurrent StatusSettles
