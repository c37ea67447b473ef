SPECIFICATION SysSpec
CONSTANTS
    h1 = h1
    h2 = h2
    k1 = k1
    k2 = k2
    None = None
    Hosts <- MCHosts
    Keys <- MCKeys
    Calls = {c1}
    Runs = {r1}
    Methods = {"publickey"}
    AgentConns = {1}
    BaseFiles <- OneKnown
    ExternalLines <- NoLines
    Disturbances = {"rekey"}
INVARIANTS
    ReplacedKeyNotUsed
    
VIEW WithoutReplies
