SPECIFICATION EvmSpec
CONSTANTS
    htlc1 = htlc1
    htlc2 = htlc2
    relay = relay
    id1 = id1
    id2 = id2
    token = token
    silent = silent
    Native = Native
    s1 = s1
    s2 = s2
    h1 = h1
    h2 = h2
    None = None
    Deployments = {htlc1, htlc2}
    Ids = {id1, id2}
    Terms <- MCTerms
    SilentTokens = {silent}
    Secrets = {s1, s2}
    Sha256 <- MCSha256
    Txs <- MCTxs
    Requests <- MCRequests
    MaxBlocks = 3
    MaxReorgs = 1
INVARIANTS
    Authentic
    NeverRefused
CHECK_DEADLOCK FALSE
