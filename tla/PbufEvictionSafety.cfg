\* pbuf_remove evicts a frame without marker before its grace period is over.
CONSTANTS
    NFrames = 3
    PktsPerFrame = 2
    SeqModulus <- MCSeqModulus
    SeqStart <- MCSeqStart
    InitDelay = 1
    Delays <- MCDelays
    Offsets <- MCOffsets
    Grace = 1
    AllocOutcomes = {TRUE}
    MaxInserts = 4

SPECIFICATION Spec

PROPERTY EvictionSafety
