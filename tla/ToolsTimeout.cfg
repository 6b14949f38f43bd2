SPECIFICATION FairSpec
CONSTANTS
    Calls = {c1}
    Limits = {60}
    NoLimit = NoLimit
    Codes = {0}
    Stubborn = {c1}
    Snippet = Snippet
    NoCode = NoCode
PROPERTIES
    TimeoutKills
