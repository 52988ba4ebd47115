CONSTANTS
    c1 = c1
    c2 = c2
    k1 = k1
    k2 = k2
    l1 = l1
    l2 = l2
    s1 = s1
    s2 = s2
    s3 = s3
    None = None
    Conns <- MCConns
    Placeholders <- MCPlaceholders
    Logins <- MCLogins
    MaxHeight = 2
    MaxVersion = 1
    PoolDifficulty = 2
    Sols <- MCSols
    SolDiff <- MCSolDiff
    EdgeBits = {28, 29, 30}
    MaxShares = 1
SPECIFICATION Spec
INVARIANTS
    AcceptedIsForwarded
SYMMETRY Symmetry
