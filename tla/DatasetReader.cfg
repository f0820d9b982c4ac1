\* The file is not there yet, is written and replaced, and vanishes, while calls
\* are under way.
CONSTANTS
    Callers = {a, b}
    Nobody = Nobody
    NoSummary = NoSummary
    First = 0
    Last = 2
    MaxVanish = 1
SPECIFICATION FairSpec
INVARIANTS
    TypeOK
    CacheIsSound
    AnswersAreFresh
PROPERTIES
    CallsReturn
CHECK_DEADLOCK FALSE
