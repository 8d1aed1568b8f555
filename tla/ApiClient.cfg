SPECIFICATION FairSpec
CONSTANTS
    Tab = {t1}
    Call = {c1, c2}
    MaxSid = 3
    None = None
INVARIANTS
    OutcomeTellsEffect
    StaleTokenRecovered
PROPERTIES
    CallsAdvance
    CallsEnd
