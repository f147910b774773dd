SPECIFICATION FairSpec
CONSTANTS
    p1 = p1  p2 = p2
    core = core  blue = blue  green = green
    near = near  far = far  broken = broken
    plain = plain  avro = avro
    noChain = noChain
    Admins = {p1, p2}
    Names = {core, blue, green}
    Conns = {near, broken}
    BuildableConns = {near}
    SerdeRules = {plain, avro}
    NoRules = plain
    StaticClusters <- MCStatic
    InitialFiles <- MCFiles
    Targets <- MCApart
    ValidateChoices <- MCCareful
    ReadFaults = FALSE
    WriteFaults = TRUE
    MayCrash = TRUE
    NoChain = noChain
INVARIANTS OkMeansDone FileBuildable
PROPERTIES ImplementsCatalog SavedIsServed
