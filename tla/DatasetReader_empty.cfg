\* Not one of the runs: the cache is emptied under a call that has found the
\* file, without any deletion (README, section 5).
CONSTANTS
    Callers = {a, b}
    Nobody = Nobody
    NoSummary = NoSummary
    First = 0
    Last = 2
    MaxVanish = 0
SPECIFICATION Spec
INVARIANTS
    OnlyAbsentIsEmpty
CHECK_DEADLOCK FALSE
