SPECIFICATION Spec
CONSTANTS
    Conns = {a, b}
    Uris = {u}
    TypeNodes = {t}
    Shapes = {x, y}
    Wires = {w}
    Raws = {r, q}
    None = None
INVARIANT TypeOK
INVARIANT ResolvesToCurrent
INVARIANT PlaceholderKept
INVARIANT IndexMatches
PROPERTY OwnedSpec
