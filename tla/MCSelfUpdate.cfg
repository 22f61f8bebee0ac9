SPECIFICATION Spec
CONSTANTS
    None = None
    Partial = Partial
    Pids = {p1, p2}
    Sessions = {s1, s2}
    Mirrors = {m1}
    MaxVersion = 2
    MaxDepth = 2
SYMMETRY Symmetry
INVARIANT BinaryRemains
INVARIANT OneUpdater
INVARIANT ChainEnds
