\* A late packet of an evicted frame makes its timestamp go to the decoder again.
CONSTANTS
    NFrames = 3
    PktsPerFrame = 2
    SeqModulus <- MCSeqModulus
    SeqStart <- MCSeqStart
    InitDelay = 1
    Delays <- MCDelays
    Offsets <- MCOffsets
    Grace = 1
    AllocOutcomes = {TRUE}
    MaxInserts = 4

SPECIFICATION Spec

INVARIANT NoRedecode
