\* Two daemons start up to three times over what an earlier program left.
CONSTANTS
    d1 = d1
    d2 = d2
    Daemons = {d1, d2}
    Limits <- MCLimits
    Ordered <- MCOrdered
    MaxPort = 4
    DefaultPort = 1
    DefaultAgentPort = 2
    Paths = {"config.json", "other.json"}
    Raws <- MCRaws
    Inputs <- MCInputs
    Starts <- MCStarts
    LegacyDisks <- MCLegacyDisks
    LegacyData <- MCLegacyData
    DataDirectories <- MCDataDirectories
    MaxEdits = 1
    MaxStarts = 3
    EditCost = 2
    MaxFaults = 1
SPECIFICATION Spec
SYMMETRY Symmetry
INVARIANTS
    SettingsRoundTrip
    LayersRespected
    SecretLasts
    LegacyCarriedOver
CHECK_DEADLOCK FALSE
