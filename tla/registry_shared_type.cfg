SPECIFICATION Spec
CONSTANTS
    Conns = {a, b}
    Uris = {u}
    TypeNodes = {t}
    Shapes = {x, y}
    Wires = {w}
    Raws = {r}
    None = None
INVARIANT TypesListed
