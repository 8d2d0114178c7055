CONSTANTS
    t1 = t1
    None = None
    Tuner <- OneTuner
    Freq <- Frequencies
    Initial = 98
    MaxTunes = 0
    MaxDrops = 0
SPECIFICATION Spec
INVARIANT PairsAligned
