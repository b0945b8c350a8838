SPECIFICATION FairSpec
CONSTANTS
    alice = alice
    bob = bob
    s1 = s1
    h1 = h1
    p1 = p1
    p2 = p2
    q1 = q1
    EvmRail = evm
    NoDeal = NoDeal
    NoDid = NoDid
    NoContract = NoContract
    NoRail = NoRail
    NoDigest = NoDigest
    NoSeq = NoSeq
    Dids = {alice, bob}
    Offers <- MCOffers
    Rails = {evm}
    Secrets = {s1}
    Digests = {h1}
    Sha256 <- MCSha256
    Contract <- MCContract
    Secret = s1
    Tasks = {p1, p2, q1}
    WalletOf <- MCWalletOf
    Plans <- MCPlans
    Http = TRUE
    AutoArchive = FALSE
INVARIANTS
    TypeOK
    RoomTellsChain
    DealsTellChain
PROPERTIES
    SecretKept
    EveryCallEnds
CHECK_DEADLOCK FALSE
