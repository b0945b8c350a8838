CONSTANTS
    s1 = s1
    s2 = s2
    d1 = d1
    d2 = d2
    Ids = {c1, c2}
    Addresses = {alice, bob}
    ZeroAddress = zero
    Native = eth
    ExactTokens = {tok}
    SkimTokens = {skim}
    Amounts = {1, 2}
    Timestamps = {1}
    Secrets = {s1, s2}
    Digests = {d1, d2}
    NoSecret = nosecret
    ZeroDigest = nodigest
    Sha256 <- MCSha256
    MaxDepth = 3
    MaxTime = 2
    MaxBalance = 1
SPECIFICATION Spec
INVARIANTS TypeOK PaidOnce LogTellsStatus Solvent
PROPERTIES SettledForever Promise
SYMMETRY Sym
CHECK_DEADLOCK FALSE
