SPECIFICATION FairSpec
CONSTANTS
    h1 = h1
    h2 = h2
    k1 = k1
    k2 = k2
    None = None
    Hosts <- MCHosts
    Keys <- MCKeys
    Runs = {r1}
    EnvFiles <- ChangingFiles
    Methods = {"publickey", "password"}
    AgentConns = {1}
INVARIANTS
    TypeOK
    VerifiedDuringRun

    
    
