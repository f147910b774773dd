SPECIFICATION BrowserSpec
CONSTANTS
    a = a
    Things = {x}
    Vals = {a, b}
    Absent = Absent
    NoText = NoText
    InitialServer <- Servers
    MaxRequests = 2
    Queries = {early, late}
    NoQuery = NoQuery
    MaxPresses = 2
    MaxGrowth = 1
    Filters = {f, g}
    ValidFilters = {f}
    Blank = Blank
INVARIANTS TypeOK PageShowsServer TableIsOfLastPress VerdictIsForFilter
PROPERTY TypedStays
