SPECIFICATION Spec
CONSTANTS
    h1 = h1
    h2 = h2
    k1 = k1
    k2 = k2
    None = None
    Hosts <- MCHosts
    Keys <- MCKeys
    Calls = {c1}
    BaseFiles <- HashedFiles
    ExternalLines <- NoLines
    Disturbances = {}
INVARIANT ReplacedIsGone
