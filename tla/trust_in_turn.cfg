SPECIFICATION InTurnSpec
CONSTANTS
    h1 = h1
    h2 = h2
    k1 = k1
    k2 = k2
    None = None
    Hosts <- MCHosts
    Keys <- MCKeys
    c1 = c1
    c2 = c2
    Calls = {c1, c2}
    BaseFiles <- SimpleFiles
    ExternalLines <- NoLines
    Disturbances = {"rekey", "dial", "open", "crash"}
INVARIANTS
    NothingForgotten
    ReplacedIsGone
    
    
PROPERTY ImplementsTrustStore
SYMMETRY CallSymmetry
VIEW WithoutRecords
