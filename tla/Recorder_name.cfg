CONSTANTS
    a = a
    b = b
    pi1 = pi1
    pi2 = pi2
    None = None
    Freq <- TwoFrequencies
    Channels <- BothChannels
    Station <- Stations
    Cap = 3
    Sizes = {1, 2}
    MinTake = 1
    RecMax = 5
    Remembered = FALSE
    SettleCovers = TRUE
    MaxLag = 0
    Plan <- OneRecording
SPECIFICATION Spec
CHECK_DEADLOCK FALSE
INVARIANT NameKeepsStart
