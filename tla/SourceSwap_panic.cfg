CONSTANTS
    p1 = p1
    boot = boot
    poll = poll
    com = com
    a1 = a1
    a2 = a2
    None = None
    Boot = boot
    Poll = poll
    Port <- OnePort
    Post <- OnePost
    Steer <- NoSteer
    Addr <- TwoAddr
    Body <- RigBodies
    Default <- Defaults
    MaxSteers = 0
    MaxFailures = 0
    MaxStops = 0
SPECIFICATION Spec
INVARIANT NoPanic
