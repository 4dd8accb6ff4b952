\* Loss statistics over a stream with loss and duplicates, in 4-bit bitmap words, across the sequence and timestamp wraps.
CONSTANTS
    SeqModulus = 24
    WordBits = 4
    Interval = 8
    TsModulus = 64
    ReportGap = 4
    SeqStart = 13
    NPkts = 40
    PktsPerFrame = 2
    TsStart = 50
    TsStep = 1
    Window = 1
    MaxLoss = 3
    MaxDups = 2

SPECIFICATION Spec

INVARIANT TypeOK
INVARIANT LossCountExact
INVARIANT LongestGapExact
INVARIANT ReportNotLate
