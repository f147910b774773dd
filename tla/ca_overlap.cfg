SPECIFICATION Spec
CONSTANTS
    p1 = p1  p2 = p2
    core = core  blue = blue  green = green
    near = near  far = far  broken = broken
    plain = plain  avro = avro
    noChain = noChain
    Admins = {p1, p2}
    Names = {blue, green}
    Conns = {near, far}
    BuildableConns = {near, far}
    SerdeRules = {plain, avro}
    NoRules = plain
    StaticClusters <- MCNoStatic
    InitialFiles <- MCTwoClusters
    Targets <- MCTogetherDynamic
    ValidateChoices <- MCUntested
    ReadFaults = FALSE
    WriteFaults = FALSE
    MayCrash = FALSE
    NoChain = noChain
INVARIANT PersistedAtRest
