SPECIFICATION Spec
CONSTANTS
    b1 = b1  b2 = b2  b3 = b3
    ann = ann  bob = bob
    admin = admin  viewer = viewer  blank = blank
    None = None
    Browsers = {b1, b2}
    Accounts = {ann, bob}
    AccountOf <- MCTwo
    Names = {admin, viewer, blank}
    Roles = {admin, viewer}
    Admin = admin
    AutoRoles <- MCNoAuto
    DefaultRoles = {viewer}
    ConfigRoles <- MCNoSeeds
    Requestable <- MCViewerSets
    MaxUsers = 2
    MaxBusy = 2
    StoreFaults = FALSE
    MayCrash = FALSE
INVARIANT SomeoneIsAdmin
