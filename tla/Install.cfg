SPECIFICATION AnySpec
CONSTANTS
    phone = phone
    tablet = tablet
    older = older
    newer = newer
    first = first
    second = second
    Tokens <- TwoDevices
    Versions <- TwoBuilds
    Passwords <- TwoPasswords
    MaxRuns = 2
    MaxChanges = 1
    MaxHelpers = 1
    Ports = {8443, 9000}
    DefaultPort = 8443
    Zones = {"amsterdam", "azores"}
    Builds = {0, 1, 2, 3}
    ThisBuild = 2
    Validity = 825
    RenewWarn = 30
    MinCapture = 18362
    MinDevices = 3
    MaxMoves = 1
SYMMETRY Interchangeable
INVARIANTS
    
    
    
    DoctorIsRight
    
PROPERTIES
    InstalledAsAsked
