SPECIFICATION FairSpec
CONSTANTS
    Queries <- MCQueries
    Citroen = "citroen"
    Cars <- MCCars
    Works <- MCWorks
    None = None
    Clients = {c1, c2}
    maxFingerprintFailures = 2
    maxDtcFailures = 1
    MaxBoots = 2
INVARIANTS
    NameFitsVIN
    FailedBootsCounted
PROPERTIES
    ReadsAnswered
CHECK_DEADLOCK FALSE
