SPECIFICATION Spec
CONSTANTS
    p1 = p1  p2 = p2
    core = core  blue = blue  green = green
    near = near  far = far  broken = broken
    plain = plain  avro = avro
    noChain = noChain
    Admins = {p1, p2}
    Names = {core, blue}
    Conns = {near, broken}
    BuildableConns = {near}
    SerdeRules = {plain, avro}
    NoRules = plain
    StaticClusters <- MCStatic
    InitialFiles <- MCFiles
    Targets <- MCTogether
    ValidateChoices <- MCEither
    ReadFaults = TRUE
    WriteFaults = TRUE
    MayCrash = TRUE
    NoChain = noChain
SYMMETRY MCSymmetry
INVARIANTS TypeOK OverlapsAgree StaticServed
