SPECIFICATION Spec
CONSTANTS
    r1 = r1
    r2 = r2
    r3 = r3
    f = f
    g = g
    x = x
    y = y
    Requests = {r1, r2, r3}
    Fields = {f, g}
    Values = {x, y}
    MaxToken = 4
    Settings <- MCSettings
SYMMETRY Symmetry
INVARIANT ComparedIsLandedOn
PROPERTIES NoLostUpdate NotModifiedIsTrue
CHECK_DEADLOCK FALSE
