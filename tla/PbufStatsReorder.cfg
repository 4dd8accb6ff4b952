\* A lossless stream whose first two packets swap places: the statistics report loss.
CONSTANTS
    SeqModulus = 16
    WordBits = 2
    Interval = 4
    TsModulus = 32
    ReportGap = 4
    SeqStart = 11
    NPkts = 28
    PktsPerFrame = 2
    TsStart = 0
    TsStep = 1
    Window = 2
    MaxLoss = 0
    MaxDups = 0

SPECIFICATION Spec

INVARIANT LossCountExact
