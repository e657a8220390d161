SPECIFICATION FairSpec
CONSTANTS
    p1 = p1
    p2 = p2
    here = here
    Peers <- MCPeers
    Addresses = {here}
    AddressOf <- MCAddressOf
    Modes <- MCModes
    BF_MAX = 2
    TlsSeen = TRUE
    MaxFaults = 2
INVARIANTS
    TypeOK
    NoRelayWithoutAuth
    EncryptedAsDemanded
    GuessesBounded
PROPERTIES
    GateRefinement
    LetInAgain
