SPECIFICATION Spec
CONSTANTS
    h1 = h1
    h2 = h2
    k1 = k1
    k2 = k2
    None = None
    Hosts <- MCHosts
    Keys <- MCKeys
    c1 = c1
    c2 = c2
    Calls = {c1, c2}
    BaseFiles <- TwoFiles
    ExternalLines <- OneLine
    Disturbances = {"write", "crash", "open"}
INVARIANTS
    TypeOK
    
SYMMETRY CallSymmetry
VIEW WithoutReplies
