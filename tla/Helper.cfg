CONSTANTS
    None = None
    Nothing = Nothing
    com = com
    a1 = a1
    a2 = a2
    Launches = 2
    Address <- TwoAddresses
    Flag <- Flags
    Default <- Defaults
    MaxPosts = 2
    MaxStops = 2
SPECIFICATION MCSpec
CHECK_DEADLOCK FALSE
INVARIANT HelperTypeOK
INVARIANT PageTrue
INVARIANT LogKept
 
INVARIANT SaveReadBack
PROPERTY SettledEditsKept
PROPERTY PageSettles
