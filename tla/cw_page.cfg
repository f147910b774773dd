SPECIFICATION Spec
CONSTANTS
    prod = prod  test = test  host = host  tuned = tuned
    Names = {prod, test}
    StaticNames = {}
    Servers = {host}
    Values = {tuned}
    InitialStored <- MCStored
    None = None
    Bad = Bad
    Empty = Empty
    MaxEdits = 1
    MaxChanges = 1
INVARIANTS TypeOK ResultIsForData SaveIsMeant RestShowsServer
