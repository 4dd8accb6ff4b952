\* The cumulative counters add the whole window at every flush.
CONSTANTS
    SeqModulus = 16
    WordBits = 2
    Interval = 4
    TsModulus = 32
    ReportGap = 4
    SeqStart = 9
    NPkts = 28
    PktsPerFrame = 2
    TsStart = 0
    TsStep = 1
    Window = 1
    MaxLoss = 0
    MaxDups = 0

SPECIFICATION Spec

INVARIANT CumulativeExact
