SPECIFICATION TabSpec
CONSTANTS
    Accounts = {ann, bob}
    Nobody = Nobody
    Everything = Everything
    NoEmail = NoEmail
    NoData = NoData
    hour = hour
    day = day
    Presets = {hour, day}
    Live = Live
    PastHour = hour
    Length <- Lengths
    Ranges <- SomeRanges
    Month = 3
    NoPreset = NoPreset
    NoRange = NoRange
    NoTime = NoTime
    NoMetrics = NoMetrics
    FirstTime = 1
    MaxTime = 3
    MaxKeys = 2
INVARIANTS TypeOK TabAgrees LabelIsOfMetrics
PROPERTY StartLeadsToLogin
