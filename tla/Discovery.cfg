CONSTANTS
    Known <- KnownProviders
    Answers <- Lists
    Plans <- Addresses
    Hosts = 2
SPECIFICATION Spec
INVARIANTS
    GeneratedLoads
    NothingMissed
