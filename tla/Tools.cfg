SPECIFICATION FairSpec
CONSTANTS
    Calls = {c1, c2}
    Limits = {0, 60}
    NoLimit = NoLimit
    Codes = {0, 1, 124, 137}
    Stubborn = {c2}
    Snippet = Snippet
    NoCode = NoCode
INVARIANTS
    TypeOK OwnCode Honest
PROPERTIES
    Answered
