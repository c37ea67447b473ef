SPECIFICATION Spec
CONSTANTS
    m1 = m1
    m2 = m2
    ka = ka
    kb = kb
    s1 = s1
    short = short
    blank = blank
    missing = missing
    none = none
    Machines = {m1, m2}
    Texts = {ka, kb}
    Secrets = {s1}
    Launches <- StartSettings
    KeyFiles <- Files
    MaxRuns = 3
    Short = short
    Blank = blank
    Missing = missing
    None = none
INVARIANTS
    TypeOK
    SameKeySameTokens
    MismatchExplained
    WarningIsTrue
    KeyAsGiven
