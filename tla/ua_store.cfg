SPECIFICATION Spec
CONSTANTS
    b1 = b1  b2 = b2  b3 = b3
    ann = ann  bob = bob
    admin = admin  viewer = viewer  blank = blank
    None = None
    Browsers = {b1, b2, b3}
    Accounts = {ann, bob}
    AccountOf <- MCShared
    Names = {admin, viewer, blank}
    Roles = {admin, viewer}
    Admin = admin
    AutoRoles <- MCAdminRule
    DefaultRoles = {viewer}
    ConfigRoles <- MCSeeds
    Requestable <- MCSets
    MaxUsers = 3
    MaxBusy = 2
    StoreFaults = TRUE
    MayCrash = TRUE
INVARIANTS TypeOK StoreSound PromotedIsOldest NoSelfService CalmOverrideStands
SYMMETRY MCSymmetry
