CONSTANTS
    alice = alice
    bob = bob
    s1 = s1
    s2 = s2
    d1 = d1
    d2 = d2
    tok = tok
    Ids = {c1}
    c = c1
    Addresses = {alice, bob}
    ZeroAddress = zero
    Native = eth
    ExactTokens = {tok}
    SkimTokens = {}
    Amounts = {0, 1}
    Timestamps = {2}
    Secrets = {s1, s2}
    NoSecret = nosecret
    Digests = {d1, d2}
    ZeroDigest = nodigest
    Sha256 <- MCSha256
    Clients = {alice, bob}
    Terms <- MCTerms
    Alien <- MCAlien
    Account <- MCAccount
    Skew <- MCSkew
    MinLockWindow = 0
    MsPerSecond = 2
    MaxMs = 5
    MaxCalls = 2
SPECIFICATION RailSpec
INVARIANTS ClaimResolves

CHECK_DEADLOCK FALSE
