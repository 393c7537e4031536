CONSTANTS
    p1 = p1
    p2 = p2
    p3 = p3
    p4 = p4
    p5 = p5
    p6 = p6
    Plugins <- MCPlugins
    Info <- MCInfo
    Ids = {1, 2, 5}
    MaxLen = 0

SPECIFICATION MCSpec

PROPERTY LoadRollsBack
