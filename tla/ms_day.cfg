SPECIFICATION FairSpec
CONSTANTS
    Clusters = {c1, c2}
    Names = {m1}
    Readers = {r1}
    MaxAge = 1
    Spans <- MCSpans
    MaxClock = 2
    MaxScrapes = 3
    None = None
INVARIANTS TypeOK AnswerExact AgeBound
PROPERTIES KeptForMaxAge KeepsScraping
