SPECIFICATION Spec
CONSTANTS
    Calls = {"c1", "c2"}
    Hosts = {"h1"}
    None = None
    Plain <- MCPlain
    Unsafe <- MCUnsafe
    Numbers <- MCNumbers
    RuSta <- MCRuSta
    Requests <- MCRequests
INVARIANTS
    TypeOK
    OneOperation
    
    NothingLeftBehind

    
VIEW WithoutReplies
CONSTRAINT OneLinersAlone
